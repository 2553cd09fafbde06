------------------------- MODULE CoordinatorProofs -------------------------
(***************************************************************************)
(* Theorems about the coordinator, for every number of workers, boots,     *)
(* objects, connections, attempts and epochs.                              *)
(***************************************************************************)
EXTENDS Coordinator, WarmthStateProofs, FiniteSetTheorems, TLAPS

---------------------------------------------------------------------------
(* Accounting.  A set of attempts is numbered when the two reservations of an
   attempt can be read off its number, which no other attempt has. *)

Numbered(as) ==
    /\ \A r \in as : /\ r.attempt \in Nat
                     /\ r.reservation_id = 2 * r.attempt - 1
                     /\ r.op_reservation_id = 2 * r.attempt
    /\ \A r, s \in as : r.attempt = s.attempt => r = s

MemoryOf(as) == {[id |-> r.reservation_id, kind |-> "DEVICE_MEMORY"] : r \in as}
OpsOf(as)    == {[id |-> r.op_reservation_id, kind |-> "CONCURRENT_WARMING_OPS"] : r \in as}

\* The tracker that holds the reservations of the attempts as, and nothing else.
Holding(as, n) ==
    [reservations |-> MemoryOf(as) \cup OpsOf(as),
     usage |-> [k \in Kinds |-> Cardinality(as)],
     next_id |-> n]

LEMMA Halves ==
    \A a, b \in Nat : /\ 2 * a - 1 = 2 * b - 1 => a = b
                      /\ 2 * a = 2 * b => a = b
                      /\ ~(a < 0)
  OBVIOUS

\* The reservations of numbered attempts are as many as the attempts, per kind.
LEMMA ReservationCount ==
    ASSUME NEW as, IsFiniteSet(as), Numbered(as)
    PROVE  /\ IsFiniteSet(MemoryOf(as)) /\ Cardinality(MemoryOf(as)) = Cardinality(as)
           /\ IsFiniteSet(OpsOf(as)) /\ Cardinality(OpsOf(as)) = Cardinality(as)
  <1> DEFINE mem == [r \in as |-> [id |-> r.reservation_id, kind |-> "DEVICE_MEMORY"]]
             ops == [r \in as |-> [id |-> r.op_reservation_id,
                                   kind |-> "CONCURRENT_WARMING_OPS"]]
  <1>1. mem \in Bijection(as, MemoryOf(as))
    <2>1. mem \in [as -> MemoryOf(as)]
      BY DEF MemoryOf
    <2>2. ASSUME NEW r \in as, NEW s \in as, mem[r] = mem[s] PROVE r = s
      <3>1. mem[r].id = r.reservation_id /\ mem[s].id = s.reservation_id
        OBVIOUS
      <3>2. r.reservation_id = s.reservation_id
        BY <2>2, <3>1
      <3>3. /\ r.attempt \in Nat /\ r.reservation_id = 2 * r.attempt - 1
            /\ s.attempt \in Nat /\ s.reservation_id = 2 * s.attempt - 1
        BY DEF Numbered
      <3>4. r.attempt = s.attempt
        BY <3>2, <3>3, Halves
      <3>5. QED
        BY <3>4 DEF Numbered
    <2>3. \A x \in MemoryOf(as) : \E r \in as : mem[r] = x
      BY DEF MemoryOf
    <2>4. QED
      BY <2>1, <2>2, <2>3 DEF Bijection, Injection, Surjection, IsInjective
  <1>2. ops \in Bijection(as, OpsOf(as))
    <2>1. ops \in [as -> OpsOf(as)]
      BY DEF OpsOf
    <2>2. ASSUME NEW r \in as, NEW s \in as, ops[r] = ops[s] PROVE r = s
      <3>1. ops[r].id = r.op_reservation_id /\ ops[s].id = s.op_reservation_id
        OBVIOUS
      <3>2. r.op_reservation_id = s.op_reservation_id
        BY <2>2, <3>1
      <3>3. /\ r.attempt \in Nat /\ r.op_reservation_id = 2 * r.attempt
            /\ s.attempt \in Nat /\ s.op_reservation_id = 2 * s.attempt
        BY DEF Numbered
      <3>4. r.attempt = s.attempt
        BY <3>2, <3>3, Halves
      <3>5. QED
        BY <3>4 DEF Numbered
    <2>3. \A x \in OpsOf(as) : \E r \in as : ops[r] = x
      BY DEF OpsOf
    <2>4. QED
      BY <2>1, <2>2, <2>3 DEF Bijection, Injection, Surjection, IsInjective
  <1>3. ExistsBijection(as, MemoryOf(as)) /\ ExistsBijection(as, OpsOf(as))
    BY <1>1, <1>2 DEF ExistsBijection
  <1>4. QED
    BY <1>3, FS_Bijection

\* Releasing what some of the outstanding attempts hold leaves exactly what the
\* others hold: this is all that Settle and roll_epoch rely on.
LEMMA ReleaseSome ==
    ASSUME NEW as, NEW sub \in SUBSET as, NEW n, IsFiniteSet(as), Numbered(as)
    PROVE  release(Holding(as, n), HeldBy(sub)) = Holding(as \ sub, n)
  <1> DEFINE t == Holding(as, n)
  <1>0. /\ t.reservations = MemoryOf(as) \cup OpsOf(as)
        /\ \A k \in Kinds : t.usage[k] = Cardinality(as)
        /\ t.next_id = n
    BY DEF Holding
  <1> HIDE DEF t
  <1> DEFINE gone == {r \in t.reservations : r.id \in HeldBy(sub)}
             left(k) == t.usage[k] - Cardinality({r \in gone : r.kind = k})
  <1>1. IsFiniteSet(sub) /\ Numbered(sub)
    BY FS_Subset DEF Numbered
  <1>2. ASSUME NEW r \in as, NEW s \in sub
        PROVE  /\ r.reservation_id = s.reservation_id => r = s
               /\ r.op_reservation_id = s.op_reservation_id => r = s
               /\ r.reservation_id # s.op_reservation_id
               /\ r.op_reservation_id # s.reservation_id
    <2>1. s \in as
      OBVIOUS
    <2>2. r.attempt \in Nat /\ s.attempt \in Nat
      BY <2>1 DEF Numbered
    <2>3. /\ r.reservation_id = 2 * r.attempt - 1 /\ r.op_reservation_id = 2 * r.attempt
          /\ s.reservation_id = 2 * s.attempt - 1 /\ s.op_reservation_id = 2 * s.attempt
      BY <2>1 DEF Numbered
    <2>4. r.attempt = s.attempt => r = s
      BY <2>1 DEF Numbered
    <2>5. QED
      BY <2>2, <2>3, <2>4
  <1>3. \A r \in as : /\ r.reservation_id \in HeldBy(sub) <=> r \in sub
                      /\ r.op_reservation_id \in HeldBy(sub) <=> r \in sub
    BY <1>2 DEF HeldBy
  <1>4. gone = MemoryOf(sub) \cup OpsOf(sub)
    <2>1. ASSUME NEW x \in gone PROVE x \in MemoryOf(sub) \cup OpsOf(sub)
      <3>1. CASE x \in MemoryOf(as)
        <4>1. PICK r \in as : x = [id |-> r.reservation_id, kind |-> "DEVICE_MEMORY"]
          BY <3>1 DEF MemoryOf
        <4>2. r \in sub
          BY <1>3, <4>1
        <4>3. QED
          BY <4>1, <4>2 DEF MemoryOf
      <3>2. CASE x \in OpsOf(as)
        <4>1. PICK r \in as : x = [id |-> r.op_reservation_id,
                                   kind |-> "CONCURRENT_WARMING_OPS"]
          BY <3>2 DEF OpsOf
        <4>2. r \in sub
          BY <1>3, <4>1
        <4>3. QED
          BY <4>1, <4>2 DEF OpsOf
      <3>3. QED
        BY <1>0, <3>1, <3>2
    <2>2. ASSUME NEW x \in MemoryOf(sub) PROVE x \in gone
      <3>1. PICK r \in sub : x = [id |-> r.reservation_id, kind |-> "DEVICE_MEMORY"]
        BY DEF MemoryOf
      <3>2. x \in MemoryOf(as)
        BY <3>1 DEF MemoryOf
      <3>3. x.id \in HeldBy(sub)
        BY <1>3, <3>1
      <3>4. QED
        BY <1>0, <3>2, <3>3
    <2>3. ASSUME NEW x \in OpsOf(sub) PROVE x \in gone
      <3>1. PICK r \in sub : x = [id |-> r.op_reservation_id, kind |-> "CONCURRENT_WARMING_OPS"]
        BY DEF OpsOf
      <3>2. x \in OpsOf(as)
        BY <3>1 DEF OpsOf
      <3>3. x.id \in HeldBy(sub)
        BY <1>3, <3>1
      <3>4. QED
        BY <1>0, <3>2, <3>3
    <2>4. QED
      BY <2>1, <2>2, <2>3
  <1>5. /\ {r \in gone : r.kind = "DEVICE_MEMORY"} = MemoryOf(sub)
        /\ {r \in gone : r.kind = "CONCURRENT_WARMING_OPS"} = OpsOf(sub)
    <2>1. \A x \in MemoryOf(sub) : x.kind = "DEVICE_MEMORY"
      BY DEF MemoryOf
    <2>2. \A x \in OpsOf(sub) : x.kind = "CONCURRENT_WARMING_OPS"
      BY DEF OpsOf
    <2>3. "DEVICE_MEMORY" # "CONCURRENT_WARMING_OPS"
      OBVIOUS
    <2>4. QED
      BY <1>4, <2>1, <2>2, <2>3
  <1>6. t.reservations \ gone = MemoryOf(as \ sub) \cup OpsOf(as \ sub)
    <2>1. ASSUME NEW x \in t.reservations, x \notin gone
          PROVE  x \in MemoryOf(as \ sub) \cup OpsOf(as \ sub)
      <3>1. x.id \notin HeldBy(sub)
        BY <2>1
      <3>2. CASE x \in MemoryOf(as)
        <4>1. PICK r \in as : x = [id |-> r.reservation_id, kind |-> "DEVICE_MEMORY"]
          BY <3>2 DEF MemoryOf
        <4>2. r \in as \ sub
          BY <1>3, <3>1, <4>1
        <4>3. QED
          BY <4>1, <4>2 DEF MemoryOf
      <3>3. CASE x \in OpsOf(as)
        <4>1. PICK r \in as : x = [id |-> r.op_reservation_id,
                                   kind |-> "CONCURRENT_WARMING_OPS"]
          BY <3>3 DEF OpsOf
        <4>2. r \in as \ sub
          BY <1>3, <3>1, <4>1
        <4>3. QED
          BY <4>1, <4>2 DEF OpsOf
      <3>4. QED
        BY <1>0, <3>2, <3>3
    <2>2. ASSUME NEW x \in MemoryOf(as \ sub) PROVE x \in t.reservations /\ x \notin gone
      <3>1. PICK r \in as \ sub : x = [id |-> r.reservation_id, kind |-> "DEVICE_MEMORY"]
        BY DEF MemoryOf
      <3>2. x.id \notin HeldBy(sub) /\ x \in MemoryOf(as)
        BY <1>3, <3>1 DEF MemoryOf
      <3>3. QED
        BY <1>0, <3>2
    <2>3. ASSUME NEW x \in OpsOf(as \ sub) PROVE x \in t.reservations /\ x \notin gone
      <3>1. PICK r \in as \ sub :
               x = [id |-> r.op_reservation_id, kind |-> "CONCURRENT_WARMING_OPS"]
        BY DEF OpsOf
      <3>2. x.id \notin HeldBy(sub) /\ x \in OpsOf(as)
        BY <1>3, <3>1 DEF OpsOf
      <3>3. QED
        BY <1>0, <3>2
    <2>4. QED
      BY <2>1, <2>2, <2>3
  <1>7. Cardinality(as \ sub) = Cardinality(as) - Cardinality(sub)
        /\ Cardinality(as \ sub) \in Nat
    <2>1. as \cap sub = sub
      OBVIOUS
    <2>2. IsFiniteSet(as \ sub) /\ Cardinality(as \ sub) = Cardinality(as) - Cardinality(as \cap sub)
      BY FS_Difference
    <2>3. Cardinality(as \ sub) \in Nat
      BY <2>2, FS_CardinalityType
    <2>4. QED
      BY <2>1, <2>2, <2>3
  <1>8. \A k \in Kinds : left(k) = Cardinality(as \ sub)
    <2>1. Cardinality(MemoryOf(sub)) = Cardinality(sub)
          /\ Cardinality(OpsOf(sub)) = Cardinality(sub)
      BY <1>1, ReservationCount
    <2>2. left("DEVICE_MEMORY") = Cardinality(as \ sub)
      BY <1>0, <1>5, <1>7, <2>1, FS_CardinalityType DEF Kinds
    <2>3. left("CONCURRENT_WARMING_OPS") = Cardinality(as \ sub)
      BY <1>0, <1>5, <1>7, <2>1, FS_CardinalityType DEF Kinds
    <2>4. QED
      BY <2>2, <2>3 DEF Kinds
  <1>9. \A k \in Kinds : (IF left(k) < 0 THEN 0 ELSE left(k)) = Cardinality(as \ sub)
    <2> HIDE DEF left
    <2>1. ~(Cardinality(as \ sub) < 0)
      BY <1>7, Halves
    <2>2. QED
      BY <1>8, <2>1
  <1>10. QED
    BY <1>0, <1>6, <1>9 DEF release, Holding, t

---------------------------------------------------------------------------
(* The accounting invariant.  BudgetAccounting is not inductive: that an attempt
   releases nobody else's reservations needs the numbering of the attempts, and
   that a new attempt is new needs the two counters. *)

AccountsInv ==
    /\ AccountsType
    /\ IsFiniteSet(in_flight)
    /\ Numbered(in_flight)
    /\ \A r \in in_flight : r.attempt < attempt_counter
    /\ budget.next_id = 2 * attempt_counter - 1
    /\ BudgetAccounting

\* BudgetAccounting says that the tracker holds what in_flight_ reserved.
LEMMA AccountingForm ==
    ASSUME budget \in Trackers
    PROVE  BudgetAccounting <=> /\ budget = Holding(in_flight, budget.next_id)
                                /\ in_flight_count = Cardinality(in_flight)
  <1>1. budget = [reservations |-> budget.reservations, usage |-> budget.usage,
                  next_id |-> budget.next_id]
        /\ budget.usage = [k \in Kinds |-> budget.usage[k]]
    BY DEF Trackers
  <1>2. QED
    BY <1>1 DEF BudgetAccounting, MemoryOf, OpsOf, Holding

LEMMA PairsAreReservations ==
    ASSUME NEW as \in SUBSET Attempts
    PROVE  MemoryOf(as) \cup OpsOf(as) \in SUBSET Reservations
  <1>1. ASSUME NEW x \in MemoryOf(as) PROVE x \in Reservations
    <2>1. PICK r \in as : x = [id |-> r.reservation_id, kind |-> "DEVICE_MEMORY"]
      BY DEF MemoryOf
    <2>2. r.reservation_id \in Nat
      BY DEF Attempts
    <2>3. QED
      BY <2>1, <2>2 DEF Reservations, Kinds
  <1>2. ASSUME NEW x \in OpsOf(as) PROVE x \in Reservations
    <2>1. PICK r \in as : x = [id |-> r.op_reservation_id, kind |-> "CONCURRENT_WARMING_OPS"]
      BY DEF OpsOf
    <2>2. r.op_reservation_id \in Nat
      BY DEF Attempts
    <2>3. QED
      BY <2>1, <2>2 DEF Reservations, Kinds
  <1>3. QED
    BY <1>1, <1>2

LEMMA AccountsInit == Init => AccountsInv
  <1> SUFFICES ASSUME Init PROVE AccountsInv
    OBVIOUS
  <1>1. AccountsType
    BY DEF Init, AccountsType, EmptyTracker, Trackers, Reservations, Kinds
  <1>2. IsFiniteSet(in_flight) /\ Cardinality(in_flight) = 0
    BY FS_EmptySet DEF Init
  <1>3. Numbered(in_flight) /\ \A r \in in_flight : r.attempt < attempt_counter
    BY DEF Init, Numbered
  <1>4. budget.next_id = 2 * attempt_counter - 1
    BY DEF Init, EmptyTracker
  <1>5. BudgetAccounting
    BY <1>2 DEF Init, EmptyTracker, BudgetAccounting, Kinds
  <1>6. QED
    BY <1>1, <1>2, <1>3, <1>4, <1>5 DEF AccountsInv

\* A tracker that holds the reservations of attempts is a tracker.
LEMMA HoldingType ==
    ASSUME NEW as \in SUBSET Attempts, IsFiniteSet(as), NEW n \in Nat
    PROVE  Holding(as, n) \in Trackers
  <1>1. Cardinality(as) \in Nat
    BY FS_CardinalityType
  <1>2. QED
    BY <1>1, PairsAreReservations DEF Holding, Trackers

\* Accounts that hold what a new set of attempts reserved satisfy the invariant.
LEMMA AccountsFrom ==
    ASSUME AccountsType', IsFiniteSet(in_flight'), Numbered(in_flight'),
           \A r \in in_flight' : r.attempt < attempt_counter',
           budget' = Holding(in_flight', 2 * attempt_counter' - 1),
           in_flight_count' = Cardinality(in_flight')
    PROVE  AccountsInv'
  <1>1. budget'.next_id = 2 * attempt_counter' - 1
    BY DEF Holding
  <1>2. BudgetAccounting'
    BY DEF BudgetAccounting, MemoryOf, OpsOf, Holding
  <1>3. QED
    BY <1>1, <1>2 DEF AccountsInv

\* What the invariant says of the tracker.
LEMMA AccountsForm ==
    ASSUME AccountsInv
    PROVE  /\ budget = Holding(in_flight, 2 * attempt_counter - 1)
           /\ in_flight_count = Cardinality(in_flight)
           /\ IsFiniteSet(in_flight) /\ Cardinality(in_flight) \in Nat
  BY AccountingForm, FS_CardinalityType DEF AccountsInv, AccountsType

\* Settling one attempt keeps the accounts.
LEMMA SettleAccounts ==
    ASSUME AccountsInv, NEW r \in in_flight, Settle(r)
    PROVE  AccountsInv'
  <1> DEFINE rest == in_flight \ {r}
  <1>1. in_flight' = rest /\ attempt_counter' = attempt_counter
    BY DEF Settle
  <1>2. /\ IsFiniteSet(rest) /\ Cardinality(rest) = Cardinality(in_flight) - 1
        /\ Cardinality(rest) \in Nat
    BY AccountsForm, FS_RemoveElement, FS_CardinalityType
  <1>3. budget' = Holding(rest, 2 * attempt_counter - 1)
    <2>1. {r} \in SUBSET in_flight /\ Numbered(in_flight) /\ IsFiniteSet(in_flight)
      BY DEF AccountsInv
    <2>2. release(Holding(in_flight, 2 * attempt_counter - 1), HeldBy({r}))
             = Holding(rest, 2 * attempt_counter - 1)
      BY <2>1, ReleaseSome
    <2>3. QED
      BY <2>2, AccountsForm DEF Settle
  <1>4. rest \in SUBSET Attempts /\ Numbered(rest)
        /\ \A s \in rest : s.attempt < attempt_counter
    BY DEF AccountsInv, AccountsType, Numbered
  <1>5. in_flight_count' = Cardinality(rest)
    <2>1. in_flight_count = Cardinality(in_flight) /\ in_flight_count \in Nat
      BY AccountsForm
    <2>2. in_flight_count' = IF in_flight_count > 0 THEN in_flight_count - 1 ELSE 0
      BY DEF Settle
    <2> HIDE DEF rest
    <2>3. QED
      BY <1>2, <2>1, <2>2
  <1>6. AccountsType'
    <2>1. 2 * attempt_counter - 1 \in Nat /\ attempt_counter \in Nat \ {0}
      BY DEF AccountsInv, AccountsType
    <2>2. Holding(rest, 2 * attempt_counter - 1) \in Trackers
      BY <1>2, <1>4, <2>1, HoldingType
    <2>3. QED
      BY <1>1, <1>2, <1>3, <1>4, <1>5, <2>1, <2>2 DEF AccountsType
  <1>7. QED
    BY <1>1, <1>2, <1>3, <1>4, <1>5, <1>6, AccountsFrom

\* Abandoning every attempt keeps the accounts.
LEMMA RollAccounts ==
    ASSUME AccountsInv, RollEpoch
    PROVE  AccountsInv'
  <1>1. in_flight' = {} /\ attempt_counter' = attempt_counter
    BY DEF RollEpoch
  <1>2. IsFiniteSet({}) /\ Cardinality({}) = 0
    BY FS_EmptySet
  <1>3. budget' = Holding({}, 2 * attempt_counter - 1)
    <2>1. in_flight \in SUBSET in_flight /\ Numbered(in_flight) /\ IsFiniteSet(in_flight)
      BY DEF AccountsInv
    <2>2. in_flight \ in_flight = {}
      OBVIOUS
    <2>3. release(Holding(in_flight, 2 * attempt_counter - 1), HeldBy(in_flight))
             = Holding({}, 2 * attempt_counter - 1)
      BY <2>1, <2>2, ReleaseSome
    <2>4. QED
      BY <2>3, AccountsForm DEF RollEpoch
  <1>4. in_flight_count' = 0
    <2>1. in_flight = {} => in_flight_count = 0
      BY <1>2, AccountsForm
    <2>2. QED
      BY <2>1 DEF RollEpoch
  <1>5. AccountsType'
    <2>1. 2 * attempt_counter - 1 \in Nat /\ attempt_counter \in Nat \ {0}
      BY DEF AccountsInv, AccountsType
    <2>2. Holding({}, 2 * attempt_counter - 1) \in Trackers
      BY <1>2, <2>1, HoldingType
    <2>3. QED
      BY <1>1, <1>3, <1>4, <2>1, <2>2 DEF AccountsType
  <1>6. Numbered({})
    BY DEF Numbered
  <1>7. QED
    BY <1>1, <1>2, <1>3, <1>4, <1>5, <1>6, AccountsFrom

\* A new attempt reserves its pair and keeps the accounts.
LEMMA IssueAccounts ==
    ASSUME AccountsInv, NEW o \in Objects, NEW w \in Workers, IssueWarm(o, w)
    PROVE  AccountsInv'
  <1> DEFINE n == attempt_counter
             new == [attempt |-> n, object |-> o, worker |-> w,
                     reservation_id |-> 2 * n - 1, op_reservation_id |-> 2 * n]
             more == in_flight \cup {new}
  <1>1. n \in Nat \ {0} /\ budget.next_id = 2 * n - 1 /\ budget.next_id + 1 = 2 * n
    BY DEF AccountsInv, AccountsType
  <1>2. in_flight' = more /\ attempt_counter' = n + 1
    BY <1>1 DEF IssueWarm
  <1>3. new \notin in_flight
    BY <1>1 DEF AccountsInv
  <1>4. /\ IsFiniteSet(more) /\ Cardinality(more) = Cardinality(in_flight) + 1
        /\ Cardinality(more) \in Nat
    <2>1. IsFiniteSet(more) /\ Cardinality(more) = Cardinality(in_flight) + 1
      BY <1>3, AccountsForm, FS_AddElement
    <2>2. QED
      BY <2>1, FS_CardinalityType
  <1>5. more \in SUBSET Attempts
    BY <1>1 DEF AccountsInv, AccountsType, Attempts
  <1>6. Numbered(more) /\ \A r \in more : r.attempt < n + 1
    <2>1. \A r \in in_flight : r.attempt \in Nat /\ r.attempt < n
      BY DEF AccountsInv, Numbered
    <2>2. \A r \in in_flight : r.attempt # n /\ r.attempt < n + 1
      BY <1>1, <2>1
    <2>3. new.attempt = n /\ new.reservation_id = 2 * n - 1 /\ new.op_reservation_id = 2 * n
      OBVIOUS
    <2>4. n < n + 1
      BY <1>1
    <2>5. Numbered(in_flight)
      BY DEF AccountsInv
    <2> HIDE DEF new
    <2>6. QED
      BY <1>1, <2>2, <2>3, <2>4, <2>5 DEF Numbered
  <1>7. budget' = Holding(more, 2 * (n + 1) - 1)
    <2>1. MemoryOf(more) = MemoryOf(in_flight) \cup {[id |-> 2 * n - 1, kind |-> "DEVICE_MEMORY"]}
      <3>1. new.reservation_id = 2 * n - 1
        OBVIOUS
      <3> HIDE DEF new
      <3>2. QED
        BY <3>1 DEF MemoryOf
    <2>2. OpsOf(more) = OpsOf(in_flight) \cup {[id |-> 2 * n, kind |-> "CONCURRENT_WARMING_OPS"]}
      <3>1. new.op_reservation_id = 2 * n
        OBVIOUS
      <3> HIDE DEF new
      <3>2. QED
        BY <3>1 DEF OpsOf
    <2>3. budget' = [reservations |-> (budget.reservations
                           \cup {[id |-> 2 * n - 1, kind |-> "DEVICE_MEMORY"]})
                           \cup {[id |-> 2 * n, kind |-> "CONCURRENT_WARMING_OPS"]},
                     usage |-> [[budget.usage EXCEPT !["DEVICE_MEMORY"] = @ + 1]
                                   EXCEPT !["CONCURRENT_WARMING_OPS"] = @ + 1],
                     next_id |-> (2 * n - 1 + 1) + 1]
      BY <1>1 DEF IssueWarm, ReserveWarm, reserve
    <2>4. /\ budget.reservations = MemoryOf(in_flight) \cup OpsOf(in_flight)
          /\ budget.usage = [k \in Kinds |-> Cardinality(in_flight)]
      BY AccountsForm DEF Holding
    <2>5. [[budget.usage EXCEPT !["DEVICE_MEMORY"] = @ + 1]
              EXCEPT !["CONCURRENT_WARMING_OPS"] = @ + 1]
             = [k \in Kinds |-> Cardinality(more)]
      BY <1>4, <2>4 DEF Kinds
    <2>6. (2 * n - 1 + 1) + 1 = 2 * (n + 1) - 1
      BY <1>1
    <2>7. MemoryOf(more) \cup OpsOf(more) =
             (budget.reservations \cup {[id |-> 2 * n - 1, kind |-> "DEVICE_MEMORY"]})
                \cup {[id |-> 2 * n, kind |-> "CONCURRENT_WARMING_OPS"]}
      BY <2>1, <2>2, <2>4
    <2>8. QED
      BY <2>3, <2>5, <2>6, <2>7 DEF Holding
  <1>8. in_flight_count' = Cardinality(more)
    BY <1>4, AccountsForm DEF IssueWarm
  <1>9. AccountsType'
    <2>1. 2 * (n + 1) - 1 \in Nat /\ n + 1 \in Nat \ {0}
      BY <1>1
    <2>2. Holding(more, 2 * (n + 1) - 1) \in Trackers
      BY <1>4, <1>5, <2>1, HoldingType
    <2>3. QED
      BY <1>2, <1>4, <1>5, <1>7, <1>8, <2>1, <2>2 DEF AccountsType
  <1>10. QED
    BY <1>2, <1>4, <1>6, <1>7, <1>8, <1>9, AccountsFrom

LEMMA AccountsUnchanged ==
    ASSUME AccountsInv, UNCHANGED accounts
    PROVE  AccountsInv'
  BY DEF AccountsInv, AccountsType, BudgetAccounting, Numbered, accounts

\* The accounting invariant is inductive.
LEMMA AccountsAlways == Spec => []AccountsInv
  <1>1. Init => AccountsInv
    BY AccountsInit
  <1>2. AccountsInv /\ [Next]_vars => AccountsInv'
    <2> SUFFICES ASSUME AccountsInv, [Next]_vars PROVE AccountsInv'
      OBVIOUS
    <2>1. ASSUME NEW c \in Conns, ConnThread(c) PROVE AccountsInv'
      <3>1. CASE AcceptResult(c)
        <4>1. PICK r \in in_flight : Settle(r)
          BY <3>1 DEF AcceptResult, Answers
        <4>2. QED
          BY <4>1, SettleAccounts
      <3>2. CASE HandleHello(c) \/ SendAck(c) \/ HandleReport(c) \/ DropResult(c) \/ Disconnect(c)
        <4>1. UNCHANGED accounts
          BY <3>2 DEF HandleHello, SendAck, HandleReport, DropResult, Disconnect
        <4>2. QED
          BY <4>1, AccountsUnchanged
      <3>3. QED
        BY <2>1, <3>1, <3>2 DEF ConnThread
    <2>2. ASSUME NEW c \in Conns, WorkerStep(c) PROVE AccountsInv'
      <3>1. UNCHANGED accounts
        BY <2>2 DEF WorkerStep, ConnectReply, WorkerWarm, WorkerIgnore
      <3>2. QED
        BY <3>1, AccountsUnchanged
    <2>3. ASSUME NEW c \in Conns, NEW w \in Workers, NEW b \in Boots,
                 NEW obs \in HelloObservations, Connect(c, w, b, obs)
          PROVE  AccountsInv'
      BY <2>3, AccountsUnchanged DEF Connect
    <2>4. ASSUME NEW c \in Conns, NEW obs \in Observations, WorkerReport(c, obs)
          PROVE  AccountsInv'
      BY <2>4, AccountsUnchanged DEF WorkerReport
    <2>5. ASSUME NEW c \in Conns, WorkerClose(c) PROVE AccountsInv'
      BY <2>5, AccountsUnchanged DEF WorkerClose
    <2>6. ASSUME NEW o \in Objects, NEW w \in Workers, IssueWarm(o, w) PROVE AccountsInv'
      BY <2>6, IssueAccounts
    <2>7. ASSUME NEW u \in unsent, SendTopic(u) PROVE AccountsInv'
      BY <2>7, AccountsUnchanged DEF SendTopic
    <2>8. ASSUME NEW u \in unsent, SendTopicFails(u) PROVE AccountsInv'
      <3>1. CASE UNCHANGED accounts
        BY <3>1, AccountsUnchanged
      <3>2. CASE \E r \in in_flight : Settle(r)
        BY <3>2, SettleAccounts
      <3>3. QED
        BY <2>8, <3>1, <3>2 DEF SendTopicFails
    <2>9. CASE BumpDependencyGeneration \/ BumpWarmthGeneration
      BY <2>9, AccountsUnchanged DEF BumpDependencyGeneration, BumpWarmthGeneration
    <2>10. CASE RollEpoch
      BY <2>10, RollAccounts
    <2>11. CASE UNCHANGED vars
      BY <2>11, AccountsUnchanged DEF vars
    <2>12. QED
      BY <2>1, <2>2, <2>3, <2>4, <2>5, <2>6, <2>7, <2>8, <2>9, <2>10, <2>11 DEF Next
  <1>3. QED
    BY <1>1, <1>2, PTL DEF Spec

\* The reservations, the usage counters and in_flight_count_ agree with
\* in_flight_ in every reachable state, whatever the interleaving of results,
\* failed sends, new attempts and epoch rolls.
THEOREM BudgetAccountingHolds == Spec => []BudgetAccounting
  <1>1. AccountsInv => BudgetAccounting
    BY DEF AccountsInv
  <1>2. QED
    BY <1>1, AccountsAlways, PTL

---------------------------------------------------------------------------
(* Type correctness.  A frame of a worker carries a boot because its client has
   one from Connect on; the accounts are typed by the accounting invariant. *)

ClientsHaveBoots == \A c \in Conns : client[c].status # "unused" => client[c].boot \in Boots

CoordFrames  == HelloMsgs \cup ReportMsgs \cup ResultMsgs
WorkerFrames == AckMsgs \cup TopicMsgs \cup ErrorMsgs

\* The frame a handler takes is of the kind its type field says, and what is left
\* of the channel is well typed.
LEMMA FrameTaken ==
    ASSUME TypeOK, NEW c \in Conns, NEW type, Receives(c, type)
    PROVE  /\ Head(toCoord[c]) \in CoordFrames
           /\ type = "HELLO" => Head(toCoord[c]) \in HelloMsgs
           /\ type = "REPORT" => Head(toCoord[c]) \in ReportMsgs
           /\ type = "WARM_RESULT" => Head(toCoord[c]) \in ResultMsgs
           /\ [toCoord EXCEPT ![c] = Tail(@)] \in [Conns -> Seq(CoordFrames)]
  <1>1. toCoord \in [Conns -> Seq(CoordFrames)]
    BY DEF TypeOK, ExchangeType, CoordFrames
  <1>2. toCoord[c] \in Seq(CoordFrames) /\ toCoord[c] # <<>>
    BY <1>1 DEF Receives
  <1>3. Head(toCoord[c]) \in CoordFrames /\ Tail(toCoord[c]) \in Seq(CoordFrames)
    BY <1>2
  <1>4. Head(toCoord[c]).type = type
    BY DEF Receives
  <1>5. \A m \in HelloMsgs : m.type = "HELLO"
    BY DEF HelloMsgs
  <1>6. \A m \in ReportMsgs : m.type = "REPORT"
    BY DEF ReportMsgs
  <1>7. \A m \in ResultMsgs : m.type = "WARM_RESULT"
    BY DEF ResultMsgs
  <1>8. QED
    BY <1>1, <1>3, <1>4, <1>5, <1>6, <1>7 DEF CoordFrames

\* send_frame keeps the channels well typed.
LEMMA FrameSent ==
    ASSUME TypeOK, NEW c \in Conns, NEW msg \in WorkerFrames
    PROVE  SentTo(c, msg) \in [Conns -> Seq(WorkerFrames)]
  <1>1. toWorker \in [Conns -> Seq(WorkerFrames)]
    BY DEF TypeOK, ExchangeType, WorkerFrames
  <1>2. Append(toWorker[c], msg) \in Seq(WorkerFrames)
    BY <1>1
  <1>3. QED
    BY <1>1, <1>2 DEF SentTo

\* What the operations of the coordinator make of an object is an object.
LEMMA ObservationFields ==
    ASSUME NEW obs \in Observations
    PROVE  obs.object \in Objects /\ obs.state \in WarmthStates /\ obs.eph \in EphStatuses
  BY BoundAssumption DEF Observations, EphStatuses

LEMMA ObjectFields ==
    ASSUME NEW obj \in ObjectRecords
    PROVE  /\ obj.state \in WarmthStates \cup {"ABSENT"}
           /\ obj.eph \in EphStatuses
           /\ \A to \in WarmthStates :
                 transition(obj.state, to) \in WarmthStates \cup {"ABSENT"}
           /\ {"DISCOVERED", "INVALIDATED", "FAILED", "COLD"} \subseteq WarmthStates
  BY DEF ObjectRecords, transition, WarmthStates

LEMMA DiscoveredType ==
    ASSUME NEW obs \in Observations
    PROVE  Discovered(obs) \in ObjectRecords
  <1>1. transition(obs.state, "DISCOVERED") \in WarmthStates
    BY ObservationFields, TransitionType DEF WarmthStates
  <1>2. QED
    BY <1>1, ObservationFields DEF Discovered, ObjectRecords

LEMMA ReportedType ==
    ASSUME NEW obj \in ObjectRecords, NEW obs \in Observations
    PROVE  Reported(obj, obs) \in ObjectRecords
  BY ObservationFields, ObjectFields DEF Reported, ObjectRecords

LEMMA RevokedType ==
    ASSUME NEW obj \in ObjectRecords
    PROVE  Revoked(obj) \in ObjectRecords
  BY ObjectFields DEF Revoked, ObjectRecords, EphStatuses

LEMMA OrphanedType ==
    ASSUME NEW obj \in ObjectRecords
    PROVE  Orphaned(obj) \in ObjectRecords
  <1>1. DefaultDecayPolicy \in DecayPolicies /\ RestartFlags \in DecayFlags
    BY DEF DefaultDecayPolicy, DecayPolicies, RestartFlags, DecayFlags
  <1>2. Decayed(obj.state, DefaultDecayPolicy, RestartFlags, 0) \in WarmthStates \cup {"ABSENT"}
    <2>1. CASE obj.state \in WarmthStates
      <3>1. decay_object(obj.state, DefaultDecayPolicy, RestartFlags, 0) \in WarmthStates
        BY <1>1, <2>1, DecayType
      <3>2. QED
        BY <3>1, ObjectFields DEF Decayed
    <2>2. CASE obj.state = "ABSENT"
      BY <2>2 DEF Decayed, transition, transition_allowed, TransitionsFrom
    <2>3. QED
      BY <2>1, <2>2, ObjectFields
  <1>3. QED
    BY <1>2, ObjectFields DEF Orphaned, ObjectRecords, EphStatuses

LEMMA WarmedType ==
    ASSUME NEW obj \in ObjectRecords
    PROVE  Warmed(obj) \in ObjectRecords /\ is_execution_ready(Warmed(obj).state)
  <1> DEFINE state == IF obj.state = "ABSENT" THEN "COLD"
                      ELSE IF obj.state = "INVALIDATED"
                           THEN transition(obj.state, "DISCOVERED") ELSE obj.state
  <1>1. state \in WarmthStates
    BY ObjectFields, TransitionType
  <1>2. reach_warm(state) \in WarmthStates /\ is_execution_ready(reach_warm(state))
    BY <1>1, ReachWarmType, ReachWarmIsReady
  <1>3. Warmed(obj) = [obj EXCEPT !.state = reach_warm(state)]
    BY DEF Warmed
  <1> HIDE DEF state
  <1>4. QED
    BY <1>2, <1>3, ObjectFields DEF ObjectRecords

LEMMA FailedType ==
    ASSUME NEW obj \in ObjectRecords
    PROVE  Failed(obj) \in ObjectRecords
  BY ObjectFields DEF Failed, ObjectRecords

\* Handlers of the connection threads.
LEMMA HelloType ==
    ASSUME TypeOK, NEW c \in Conns, HandleHello(c)
    PROVE  TypeOK'
  <1> DEFINE m == Head(toCoord[c])
             w == m.worker
             bootChanged == last_boot[w] # NoBoot /\ last_boot[w] # m.boot
             kept == [o \in Objects |->
                         IF bootChanged /\ o \in worker_objects[w] /\ objects[o].state # "ABSENT"
                         THEN Revoked(objects[o])
                         ELSE objects[o]]
             fresh == {obs \in m.observed : kept[obs.object].state = "ABSENT"}
  <1>1. m \in HelloMsgs /\ toCoord' \in [Conns -> Seq(CoordFrames)]
    BY FrameTaken DEF HandleHello
  <1>2. w \in Workers /\ m.boot \in Boots /\ m.observed \in SUBSET Observations
    BY <1>1 DEF HelloMsgs
  <1>3. kept \in [Objects -> ObjectRecords]
    <2>1. \A o \in Objects : Revoked(objects[o]) \in ObjectRecords
      BY RevokedType DEF TypeOK, ViewType
    <2>2. QED
      BY <2>1 DEF TypeOK, ViewType
  <1>4. \A obs \in fresh : Discovered(obs) \in ObjectRecords
    BY <1>2, DiscoveredType
  <1>5. ViewType'
    <2> HIDE DEF kept, fresh, m
    <2>1. CASE UNCHANGED <<objects, voucher>>
      BY <2>1 DEF HandleHello, TypeOK, ViewType
    <2>2. CASE /\ objects' = [o \in Objects |->
                      IF \E obs \in fresh : obs.object = o
                      THEN Discovered(CHOOSE obs \in fresh : obs.object = o)
                      ELSE kept[o]]
               /\ voucher' = [o \in Objects |->
                      IF \E obs \in fresh : obs.object = o
                      THEN [worker |-> w, boot |-> m.boot, epoch |-> epoch]
                      ELSE voucher[o]]
      <3>1. objects' \in [Objects -> ObjectRecords]
        BY <1>3, <1>4, <2>2
      <3>2. [worker |-> w, boot |-> m.boot, epoch |-> epoch] \in Authors
        BY <1>2 DEF Authors, TypeOK, AuthorityType
      <3>3. voucher' \in [Objects -> Authors]
        BY <2>2, <3>2 DEF TypeOK, ViewType
      <3>4. QED
        BY <3>1, <3>3 DEF HandleHello, TypeOK, ViewType
    <2>3. QED
      BY <2>1, <2>2 DEF HandleHello, kept, fresh, m
  <1>6. RegistryType'
    <2>1. CASE UNCHANGED <<registry, cs>>
      BY <2>1 DEF TypeOK, RegistryType, registry
    <2>2. CASE /\ last_boot' = [last_boot EXCEPT ![w] = m.boot]
               /\ cs' = [cs EXCEPT ![c] = [registered |-> TRUE, id |-> w, boot |-> m.boot]]
               /\ workers' = [workers EXCEPT ![w] = c]
               /\ worker_objects' = [worker_objects EXCEPT ![w] =
                      (IF bootChanged THEN {} ELSE @) \cup {obs.object : obs \in m.observed}]
      <3>1. {obs.object : obs \in m.observed} \subseteq Objects
        BY <1>2 DEF Observations
      <3>2. [registered |-> TRUE, id |-> w, boot |-> m.boot] \in ConnStates
        BY <1>2 DEF ConnStates
      <3> HIDE DEF bootChanged, m
      <3>3. worker_objects' \in [Workers -> SUBSET Objects]
        BY <1>2, <2>2, <3>1 DEF TypeOK, RegistryType
      <3>4. QED
        BY <1>2, <2>2, <3>2, <3>3 DEF TypeOK, RegistryType
    <2>3. QED
      BY <2>1, <2>2 DEF HandleHello
  <1>7. ExchangeType'
    <2>1. \A v \in {"accept", "reject"} :
             [verdict |-> v, epoch |-> epoch, warmth_gen |-> warmth_gen, dep_gen |-> dep_gen]
                \in PendingAcks
      BY DEF PendingAcks, TypeOK, AuthorityType
    <2>2. ack' \in [Conns -> PendingAcks]
      BY <2>1 DEF HandleHello, TypeOK, ExchangeType
    <2>3. UNCHANGED <<unsent, client, toWorker>>
      BY DEF HandleHello
    <2>4. QED
      BY <1>1, <2>2, <2>3 DEF TypeOK, ExchangeType, CoordFrames
  <1>8. AuthorityType' /\ AccountsType'
    BY DEF HandleHello, TypeOK, AuthorityType, AccountsType, authority, accounts, bounds
  <1>9. QED
    BY <1>5, <1>6, <1>7, <1>8 DEF TypeOK

LEMMA ReportType ==
    ASSUME TypeOK, NEW c \in Conns, HandleReport(c)
    PROVE  TypeOK'
  <1> DEFINE m == Head(toCoord[c])
             o == m.observed.object
  <1>1. m \in ReportMsgs /\ toCoord' \in [Conns -> Seq(CoordFrames)]
    BY FrameTaken DEF HandleReport
  <1>2. m.observed \in Observations /\ m.epoch \in Nat
    BY <1>1 DEF ReportMsgs
  <1>3. cs[c] \in ConnStates
    BY DEF TypeOK, RegistryType
  <1>4. CASE Authorised(c, m)
    <2>1. /\ objects' = [objects EXCEPT ![o] =
                IF @.state = "ABSENT" THEN Discovered(m.observed) ELSE Reported(@, m.observed)]
          /\ worker_objects' = [worker_objects EXCEPT ![cs[c].id] = @ \cup {o}]
          /\ voucher' = [voucher EXCEPT ![o] =
                [worker |-> cs[c].id, boot |-> cs[c].boot, epoch |-> m.epoch]]
          /\ UNCHANGED toWorker
      BY <1>4 DEF HandleReport
    <2>2. o \in Objects
      BY <1>2, ObservationFields
    <2>3. objects' \in [Objects -> ObjectRecords]
      <3>1. Discovered(m.observed) \in ObjectRecords
        BY <1>2, DiscoveredType
      <3>2. Reported(objects[o], m.observed) \in ObjectRecords
        BY <1>2, <2>2, ReportedType DEF TypeOK, ViewType
      <3> HIDE DEF m, o
      <3>3. QED
        BY <2>1, <3>1, <3>2 DEF TypeOK, ViewType
    <2>4. voucher' \in [Objects -> Authors]
      <3>1. [worker |-> cs[c].id, boot |-> cs[c].boot, epoch |-> m.epoch] \in Authors
        BY <1>2, <1>3 DEF ConnStates, Authors
      <3> HIDE DEF m, o
      <3>2. QED
        BY <2>1, <3>1 DEF TypeOK, ViewType
    <2>5. worker_objects' \in [Workers -> SUBSET Objects]
      <3> HIDE DEF m, o
      <3>1. QED
        BY <2>1, <2>2 DEF TypeOK, RegistryType
    <2>6. QED
      BY <1>1, <2>1, <2>3, <2>4, <2>5
      DEF HandleReport, TypeOK, AuthorityType, ViewType, RegistryType, AccountsType,
          ExchangeType, CoordFrames, authority, accounts, bounds
  <1>5. CASE ~Authorised(c, m)
    <2>1. toWorker' = SentTo(c, [type |-> "ERROR"]) /\ UNCHANGED <<objects, worker_objects, voucher>>
      BY <1>5 DEF HandleReport
    <2>2. [type |-> "ERROR"] \in WorkerFrames
      BY DEF WorkerFrames, ErrorMsgs
    <2>3. toWorker' \in [Conns -> Seq(WorkerFrames)]
      BY <2>1, <2>2, FrameSent
    <2>4. QED
      BY <1>1, <2>1, <2>3
      DEF HandleReport, TypeOK, AuthorityType, ViewType, RegistryType, AccountsType,
          ExchangeType, CoordFrames, WorkerFrames, authority, accounts, bounds
  <1>6. QED
    BY <1>4, <1>5

LEMMA AcceptType ==
    ASSUME TypeOK, AccountsInv', NEW c \in Conns, AcceptResult(c)
    PROVE  TypeOK'
  <1> DEFINE m == Head(toCoord[c])
             o == m.object
  <1>1. m \in ResultMsgs /\ toCoord' \in [Conns -> Seq(CoordFrames)]
    BY FrameTaken DEF AcceptResult
  <1>2. o \in Objects /\ m.epoch \in Nat /\ cs[c] \in ConnStates
    BY <1>1 DEF ResultMsgs, TypeOK, RegistryType
  <1>3. /\ Warmed(objects[o]) \in ObjectRecords
        /\ Failed(objects[o]) \in ObjectRecords
    BY <1>2, WarmedType, FailedType DEF TypeOK, ViewType
  <1>4. [worker |-> cs[c].id, boot |-> cs[c].boot, epoch |-> m.epoch] \in Authors
    BY <1>2 DEF ConnStates, Authors
  <1>5. \/ /\ objects' = [objects EXCEPT ![o] = Warmed(@)]
           /\ worker_objects' = [worker_objects EXCEPT ![cs[c].id] = @ \cup {o}]
           /\ author' = [author EXCEPT ![o] =
                 [worker |-> cs[c].id, boot |-> cs[c].boot, epoch |-> m.epoch]]
        \/ /\ objects' = [objects EXCEPT ![o] = IF @.state = "ABSENT" THEN @ ELSE Failed(@)]
           /\ UNCHANGED <<worker_objects, author>>
    BY DEF AcceptResult
  <1>6. ViewType' /\ worker_objects' \in [Workers -> SUBSET Objects]
    <2>1. UNCHANGED voucher
      BY DEF AcceptResult
    <2> HIDE DEF m, o
    <2>2. QED
      BY <1>2, <1>3, <1>4, <1>5, <2>1 DEF TypeOK, ViewType, RegistryType
  <1>7. AccountsType'
    BY DEF AccountsInv
  <1>8. QED
    BY <1>1, <1>6, <1>7
    DEF AcceptResult, TypeOK, AuthorityType, RegistryType, ExchangeType, CoordFrames,
        authority, bounds

LEMMA OtherThreadTypes ==
    ASSUME TypeOK, NEW c \in Conns, SendAck(c) \/ DropResult(c) \/ Disconnect(c)
    PROVE  TypeOK'
  <1>1. CASE SendAck(c)
    <2>1. PICK e \in ack[c].epoch..epoch, g \in ack[c].warmth_gen..warmth_gen,
               d \in ack[c].dep_gen..dep_gen :
             toWorker' = SentTo(c, [type |-> "HELLO_ACK",
                                    accepted |-> ack[c].verdict = "accept",
                                    epoch |-> e, warmth_gen |-> g, dep_gen |-> d])
      BY <1>1 DEF SendAck
    <2>2. ack[c].epoch \in Nat /\ ack[c].warmth_gen \in Nat /\ ack[c].dep_gen \in Nat
      BY DEF TypeOK, ExchangeType, PendingAcks
    <2>3. e \in Nat /\ g \in Nat /\ d \in Nat
      BY <2>2 DEF TypeOK, AuthorityType
    <2>4. [type |-> "HELLO_ACK", accepted |-> ack[c].verdict = "accept",
           epoch |-> e, warmth_gen |-> g, dep_gen |-> d] \in WorkerFrames
      BY <2>3 DEF WorkerFrames, AckMsgs
    <2>5. toWorker' \in [Conns -> Seq(WorkerFrames)]
      BY <2>1, <2>4, FrameSent
    <2>6. ack' \in [Conns -> PendingAcks]
      BY <1>1 DEF SendAck, NoAck, PendingAcks, TypeOK, ExchangeType
    <2>7. QED
      BY <1>1, <2>5, <2>6
      DEF SendAck, TypeOK, AuthorityType, ViewType, RegistryType, AccountsType, ExchangeType,
          WorkerFrames, authority, registry, accounts, bounds, history
  <1>2. CASE DropResult(c)
    <2>1. toCoord' \in [Conns -> Seq(CoordFrames)]
      BY <1>2, FrameTaken DEF DropResult
    <2>2. QED
      BY <1>2, <2>1
      DEF DropResult, TypeOK, AuthorityType, ViewType, RegistryType, AccountsType, ExchangeType,
          CoordFrames, authority, registry, accounts, bounds, history
  <1>3. CASE Disconnect(c)
    <2>1. \A o \in Objects : Orphaned(objects[o]) \in ObjectRecords
      BY OrphanedType DEF TypeOK, ViewType
    <2>2. objects' \in [Objects -> ObjectRecords]
      BY <1>3, <2>1 DEF Disconnect, TypeOK, ViewType
    <2>3. workers' \in [Workers -> Conns \cup {NoConn}]
      BY <1>3 DEF Disconnect, Unregistered, TypeOK, RegistryType
    <2>4. cs' \in [Conns -> ConnStates]
      BY <1>3 DEF Disconnect, TypeOK, RegistryType, ConnStates
    <2>5. QED
      BY <1>3, <2>2, <2>3, <2>4
      DEF Disconnect, TypeOK, AuthorityType, ViewType, RegistryType, AccountsType, ExchangeType,
          authority, accounts, bounds, history, channels
  <1>4. QED
    BY <1>1, <1>2, <1>3

\* A step that only touches the exchange keeps the rest of the types.
LEMMA ExchangeOnly ==
    ASSUME TypeOK, ExchangeType',
           UNCHANGED <<authority, objects, registry, accounts, cs, bounds, history>>
    PROVE  TypeOK'
  BY DEF TypeOK, AuthorityType, ViewType, RegistryType, AccountsType,
         authority, registry, accounts, bounds, history

\* A frame sent by the worker's end of c.
LEMMA CoordFrameSent ==
    ASSUME TypeOK, NEW c \in Conns, NEW msg \in CoordFrames
    PROVE  [toCoord EXCEPT ![c] = Append(@, msg)] \in [Conns -> Seq(CoordFrames)]
  <1>1. toCoord \in [Conns -> Seq(CoordFrames)]
    BY DEF TypeOK, ExchangeType, CoordFrames
  <1>2. Append(toCoord[c], msg) \in Seq(CoordFrames)
    BY <1>1
  <1>3. QED
    BY <1>1, <1>2

\* The frame the worker's end of c takes.
LEMMA WorkerFrameTaken ==
    ASSUME TypeOK, NEW c \in Conns, toWorker[c] # <<>>
    PROVE  /\ Head(toWorker[c]) \in WorkerFrames
           /\ Head(toWorker[c]).type = "WARM_TOPIC" => Head(toWorker[c]) \in TopicMsgs
           /\ Head(toWorker[c]).type = "HELLO_ACK" => Head(toWorker[c]) \in AckMsgs
           /\ [toWorker EXCEPT ![c] = Tail(@)] \in [Conns -> Seq(WorkerFrames)]
  <1>1. toWorker \in [Conns -> Seq(WorkerFrames)]
    BY DEF TypeOK, ExchangeType, WorkerFrames
  <1>2. Head(toWorker[c]) \in WorkerFrames /\ Tail(toWorker[c]) \in Seq(WorkerFrames)
    BY <1>1
  <1>3. \A m \in AckMsgs : m.type = "HELLO_ACK"
    BY DEF AckMsgs
  <1>4. \A m \in TopicMsgs : m.type = "WARM_TOPIC"
    BY DEF TopicMsgs
  <1>5. \A m \in ErrorMsgs : m.type = "ERROR"
    BY DEF ErrorMsgs
  <1>6. QED
    BY <1>1, <1>2, <1>3, <1>4, <1>5 DEF WorkerFrames

LEMMA ClientFields ==
    ASSUME TypeOK, NEW c \in Conns
    PROVE  /\ client[c] \in Clients
           /\ client[c].epoch \in Nat /\ client[c].warmth_gen \in Nat /\ client[c].dep_gen \in Nat
           /\ client[c].boot \in Boots \cup {NoBoot}
  BY DEF TypeOK, ExchangeType, Clients

\* Steps of the worker's end.
LEMMA WorkerTypes ==
    ASSUME TypeOK, ClientsHaveBoots, NEW c \in Conns
    PROVE  /\ WorkerStep(c) => TypeOK'
           /\ \A obs \in Observations : WorkerReport(c, obs) => TypeOK'
           /\ WorkerClose(c) => TypeOK'
           /\ \A w \in Workers, b \in Boots, obs \in HelloObservations :
                 Connect(c, w, b, obs) => TypeOK'
  <1>1. ASSUME ConnectReply(c) PROVE TypeOK'
    <2> DEFINE m == Head(toWorker[c])
    <2>1. m.type = "HELLO_ACK" => m \in AckMsgs
      BY <1>1, WorkerFrameTaken DEF ConnectReply
    <2>2. toWorker' \in [Conns -> Seq(WorkerFrames)]
      BY <1>1, WorkerFrameTaken DEF ConnectReply
    <2>3. m.type = "HELLO_ACK" => m.epoch \in Nat /\ m.warmth_gen \in Nat /\ m.dep_gen \in Nat
      BY <2>1 DEF AckMsgs
    <2>4. /\ [client[c] EXCEPT !.status = "failed"] \in Clients
          /\ m.type = "HELLO_ACK" => [client[c] EXCEPT !.status = "running", !.epoch = m.epoch,
                                         !.warmth_gen = m.warmth_gen, !.dep_gen = m.dep_gen] \in Clients
      <3> HIDE DEF m
      <3>1. QED
        BY <2>3, ClientFields DEF Clients
    <2>5. client' \in [Conns -> Clients]
      <3>1. \/ client' = [client EXCEPT ![c] = [@ EXCEPT !.status = "failed"]]
            \/ /\ m.type = "HELLO_ACK"
               /\ client' = [client EXCEPT ![c] =
                     [@ EXCEPT !.status = "running", !.epoch = m.epoch,
                               !.warmth_gen = m.warmth_gen, !.dep_gen = m.dep_gen]]
        BY <1>1 DEF ConnectReply
      <3> HIDE DEF m
      <3>2. QED
        BY <2>4, <3>1 DEF TypeOK, ExchangeType
    <2>6. QED
      BY <1>1, <2>2, <2>5, ExchangeOnly DEF ConnectReply, TypeOK, ExchangeType, WorkerFrames
  <1>2. ASSUME NEW success \in BOOLEAN, WorkerWarm(c, success) PROVE TypeOK'
    <2> DEFINE m == Head(toWorker[c])
               reply == [type |-> "WARM_RESULT", boot |-> client[c].boot,
                         epoch |-> client[c].epoch, warmth_gen |-> client[c].warmth_gen,
                         dep_gen |-> client[c].dep_gen,
                         object |-> m.object, attempt |-> m.attempt, success |-> success]
    <2>1. m \in TopicMsgs
      BY <1>2, WorkerFrameTaken DEF WorkerWarm
    <2>2. toWorker' \in [Conns -> Seq(WorkerFrames)]
      BY <1>2, WorkerFrameTaken DEF WorkerWarm
    <2>3. m.object \in Objects /\ m.attempt \in Nat
      BY <2>1 DEF TopicMsgs
    <2>4. client[c].boot \in Boots
      BY <1>2 DEF WorkerWarm, ClientsHaveBoots
    <2>5. reply \in ResultMsgs
      <3> HIDE DEF m
      <3>1. QED
        BY <2>3, <2>4, ClientFields DEF ResultMsgs
    <2>6. toCoord' = [toCoord EXCEPT ![c] = Append(@, reply)]
      BY <1>2 DEF WorkerWarm
    <2> HIDE DEF reply
    <2>7. toCoord' \in [Conns -> Seq(CoordFrames)]
      BY <2>5, <2>6, CoordFrameSent DEF CoordFrames
    <2>8. QED
      BY <1>2, <2>2, <2>7, ExchangeOnly
      DEF WorkerWarm, TypeOK, ExchangeType, WorkerFrames, CoordFrames
  <1>3. ASSUME WorkerIgnore(c) PROVE TypeOK'
    <2>1. toWorker' \in [Conns -> Seq(WorkerFrames)]
      BY <1>3, WorkerFrameTaken DEF WorkerIgnore
    <2>2. QED
      BY <1>3, <2>1, ExchangeOnly DEF WorkerIgnore, TypeOK, ExchangeType, WorkerFrames
  <1>4. ASSUME NEW obs \in Observations, WorkerReport(c, obs) PROVE TypeOK'
    <2> DEFINE msg == [type |-> "REPORT", boot |-> client[c].boot,
                       epoch |-> client[c].epoch, warmth_gen |-> client[c].warmth_gen,
                       dep_gen |-> client[c].dep_gen, observed |-> obs]
    <2>1. msg \in ReportMsgs
      BY <1>4, ClientFields DEF WorkerReport, ReportMsgs, ClientsHaveBoots
    <2>2. toCoord' = [toCoord EXCEPT ![c] = Append(@, msg)]
      BY <1>4 DEF WorkerReport
    <2> HIDE DEF msg
    <2>3. toCoord' \in [Conns -> Seq(CoordFrames)]
      BY <2>1, <2>2, CoordFrameSent DEF CoordFrames
    <2>4. QED
      BY <1>4, <2>3
      DEF WorkerReport, TypeOK, AuthorityType, ViewType, RegistryType, AccountsType, ExchangeType,
          CoordFrames, authority, registry, accounts, history
  <1>5. ASSUME WorkerClose(c) PROVE TypeOK'
    <2>1. PICK n \in 0..Len(toCoord[c]) : toCoord' = [toCoord EXCEPT ![c] = SubSeq(@, 1, n)]
      BY <1>5 DEF WorkerClose
    <2>2. toCoord[c] \in Seq(CoordFrames)
      BY DEF TypeOK, ExchangeType, CoordFrames
    <2>3. SubSeq(toCoord[c], 1, n) \in Seq(CoordFrames)
      BY <2>2
    <2>4. toCoord' \in [Conns -> Seq(CoordFrames)]
      BY <2>1, <2>3 DEF TypeOK, ExchangeType, CoordFrames
    <2>5. toWorker' \in [Conns -> Seq(WorkerFrames)]
      BY <1>5 DEF WorkerClose, TypeOK, ExchangeType, WorkerFrames
    <2>6. client' \in [Conns -> Clients]
      <3>1. [client[c] EXCEPT !.status = "closed"] \in Clients
        BY ClientFields DEF Clients
      <3>2. client' = [client EXCEPT ![c] = [@ EXCEPT !.status = "closed"]]
        BY <1>5 DEF WorkerClose
      <3>3. QED
        BY <3>1, <3>2 DEF TypeOK, ExchangeType
    <2>7. QED
      BY <1>5, <2>4, <2>5, <2>6, ExchangeOnly
      DEF WorkerClose, TypeOK, ExchangeType, CoordFrames, WorkerFrames
  <1>6. ASSUME NEW w \in Workers, NEW b \in Boots, NEW obs \in HelloObservations,
               Connect(c, w, b, obs)
        PROVE  TypeOK'
    <2> DEFINE msg == [type |-> "HELLO", worker |-> w, boot |-> b, observed |-> obs]
    <2>1. msg \in HelloMsgs
      BY DEF HelloMsgs, HelloObservations
    <2>2. toCoord' = [toCoord EXCEPT ![c] = Append(@, msg)]
      BY <1>6 DEF Connect
    <2> HIDE DEF msg
    <2>3. toCoord' \in [Conns -> Seq(CoordFrames)]
      BY <2>1, <2>2, CoordFrameSent DEF CoordFrames
    <2>4. client' \in [Conns -> Clients]
      BY <1>6 DEF Connect, TypeOK, ExchangeType, Clients
    <2>5. QED
      BY <1>6, <2>3, <2>4, ExchangeOnly DEF Connect, TypeOK, ExchangeType, CoordFrames
  <1>7. QED
    BY <1>1, <1>2, <1>3, <1>4, <1>5, <1>6 DEF WorkerStep

\* Steps of the callers.
LEMMA CallerTypes ==
    ASSUME TypeOK, AccountsInv'
    PROVE  /\ \A o \in Objects, w \in Workers : IssueWarm(o, w) => TypeOK'
           /\ \A u \in unsent : SendTopic(u) \/ SendTopicFails(u) => TypeOK'
           /\ BumpDependencyGeneration \/ BumpWarmthGeneration \/ RollEpoch => TypeOK'
  <1>0. AccountsType'
    BY DEF AccountsInv
  <1>1. ASSUME NEW o \in Objects, NEW w \in Workers, IssueWarm(o, w) PROVE TypeOK'
    <2>1. workers[w] \in Conns /\ attempt_counter \in Nat
      BY <1>1 DEF IssueWarm, TypeOK, RegistryType, AccountsType
    <2>2. [attempt |-> attempt_counter, object |-> o, conn |-> workers[w]]
             \in [attempt : Nat, object : Objects, conn : Conns]
      BY <2>1
    <2>3. unsent' \in SUBSET [attempt : Nat, object : Objects, conn : Conns]
      BY <1>1, <2>2 DEF IssueWarm, TypeOK, ExchangeType
    <2>4. QED
      BY <1>0, <1>1, <2>3
      DEF IssueWarm, TypeOK, AuthorityType, ViewType, RegistryType, ExchangeType,
          authority, registry, channels, bounds, history
  <1>2. ASSUME NEW u \in unsent, SendTopic(u) PROVE TypeOK'
    <2>1. u.attempt \in Nat /\ u.object \in Objects /\ u.conn \in Conns
      BY DEF TypeOK, ExchangeType
    <2> DEFINE msg == [type |-> "WARM_TOPIC", object |-> u.object, attempt |-> u.attempt]
    <2>2. msg \in WorkerFrames
      BY <2>1 DEF WorkerFrames, TopicMsgs
    <2>3. toWorker' = SentTo(u.conn, msg)
      BY <1>2 DEF SendTopic
    <2> HIDE DEF msg
    <2>4. toWorker' \in [Conns -> Seq(WorkerFrames)]
      BY <2>1, <2>2, <2>3, FrameSent
    <2>5. QED
      BY <1>2, <2>4, ExchangeOnly DEF SendTopic, TypeOK, ExchangeType, WorkerFrames
  <1>3. ASSUME NEW u \in unsent, SendTopicFails(u) PROVE TypeOK'
    BY <1>0, <1>3
    DEF SendTopicFails, TypeOK, AuthorityType, ViewType, RegistryType, ExchangeType,
        authority, registry, channels, bounds, history
  <1>4. ASSUME BumpDependencyGeneration \/ BumpWarmthGeneration PROVE TypeOK'
    BY <1>0, <1>4
    DEF BumpDependencyGeneration, BumpWarmthGeneration, TypeOK, AuthorityType, ViewType,
        RegistryType, ExchangeType, registry, channels, history
  <1>5. ASSUME RollEpoch PROVE TypeOK'
    <2>1. \A o \in Objects : Revoked(objects[o]) \in ObjectRecords
      BY RevokedType DEF TypeOK, ViewType
    <2>2. objects' \in [Objects -> ObjectRecords]
      BY <1>5, <2>1 DEF RollEpoch, TypeOK, ViewType
    <2>3. QED
      BY <1>0, <1>5, <2>2
      DEF RollEpoch, TypeOK, AuthorityType, ViewType, RegistryType, ExchangeType,
          registry, channels, bounds, history
  <1>6. QED
    BY <1>1, <1>2, <1>3, <1>4, <1>5

LEMMA TypeInit == Init => TypeOK /\ ClientsHaveBoots
  <1> SUFFICES ASSUME Init PROVE TypeOK /\ ClientsHaveBoots
    OBVIOUS
  <1>1. AuthorityType
    BY DEF Init, AuthorityType
  <1>2. ViewType
    BY DEF Init, ViewType, AbsentObject, ObjectRecords, EphStatuses, NoAuthor, Authors
  <1>3. RegistryType
    BY DEF Init, RegistryType, ConnStates
  <1>4. AccountsType
    BY AccountsInit DEF AccountsInv
  <1>5. ExchangeType
    BY DEF Init, ExchangeType, NoAck, PendingAcks, Clients
  <1>6. ClientsHaveBoots
    BY DEF Init, ClientsHaveBoots
  <1>7. QED
    BY <1>1, <1>2, <1>3, <1>4, <1>5, <1>6 DEF TypeOK

LEMMA BootsStep ==
    ASSUME TypeOK, ClientsHaveBoots, [Next]_vars
    PROVE  ClientsHaveBoots'
  <1>1. CASE UNCHANGED client
    BY <1>1 DEF ClientsHaveBoots
  <1>2. ASSUME NEW c \in Conns, NEW w \in Workers, NEW b \in Boots, NEW obs \in HelloObservations,
               Connect(c, w, b, obs)
        PROVE  ClientsHaveBoots'
    BY <1>2 DEF Connect, ClientsHaveBoots, TypeOK, ExchangeType, Clients
  <1>3. ASSUME NEW c \in Conns, ConnectReply(c) \/ WorkerClose(c) PROVE ClientsHaveBoots'
    <2>1. client' \in [Conns -> Clients] /\ client'[c].boot = client[c].boot
          /\ \A d \in Conns \ {c} : client'[d] = client[d]
      <3>1. CASE ConnectReply(c)
        <4>1. TypeOK'
          BY <3>1, WorkerTypes DEF WorkerStep
        <4>2. client \in [Conns -> Clients] /\ client' \in [Conns -> Clients]
          BY <4>1 DEF TypeOK, ExchangeType
        <4> DEFINE m == Head(toWorker[c])
        <4>4. \/ client' = [client EXCEPT ![c] = [@ EXCEPT !.status = "failed"]]
              \/ client' = [client EXCEPT ![c] =
                    [@ EXCEPT !.status = "running", !.epoch = m.epoch,
                              !.warmth_gen = m.warmth_gen, !.dep_gen = m.dep_gen]]
          BY <3>1 DEF ConnectReply
        <4> HIDE DEF m
        <4>5. /\ \/ client'[c] = [client[c] EXCEPT !.status = "failed"]
                 \/ client'[c] = [client[c] EXCEPT !.status = "running", !.epoch = m.epoch,
                                      !.warmth_gen = m.warmth_gen, !.dep_gen = m.dep_gen]
              /\ \A d \in Conns \ {c} : client'[d] = client[d]
          BY <4>2, <4>4
        <4>6. client[c] \in Clients
          BY <4>2
        <4>7. client'[c].boot = client[c].boot
          <5>1. CASE client'[c] = [client[c] EXCEPT !.status = "failed"]
            BY <4>6, <5>1 DEF Clients
          <5>2. CASE client'[c] = [client[c] EXCEPT !.status = "running", !.epoch = m.epoch,
                                      !.warmth_gen = m.warmth_gen, !.dep_gen = m.dep_gen]
            BY <4>6, <5>2 DEF Clients
          <5>3. QED
            BY <4>5, <5>1, <5>2
        <4>8. QED
          BY <4>2, <4>5, <4>7
      <3>2. CASE WorkerClose(c)
        <4>1. TypeOK'
          BY <3>2, WorkerTypes
        <4>2. QED
          BY <3>2, <4>1, ClientFields DEF WorkerClose, TypeOK, ExchangeType, Clients
      <3>3. QED
        BY <1>3, <3>1, <3>2
    <2>2. client[c].status # "unused"
      BY <1>3 DEF ConnectReply, WorkerClose, Open
    <2>3. QED
      BY <2>1, <2>2 DEF ClientsHaveBoots
  <1>4. QED
    BY <1>1, <1>2, <1>3
    DEF Next, vars, ConnThread, WorkerStep, HandleHello, SendAck, HandleReport, AcceptResult,
        DropResult, Disconnect, WorkerWarm, WorkerIgnore, WorkerReport, IssueWarm, SendTopic,
        SendTopicFails, BumpDependencyGeneration, BumpWarmthGeneration, RollEpoch

LEMMA TypeStep ==
    ASSUME TypeOK, ClientsHaveBoots, AccountsInv', [Next]_vars
    PROVE  TypeOK'
  <1>1. ASSUME NEW c \in Conns, ConnThread(c) PROVE TypeOK'
    BY <1>1, HelloType, ReportType, AcceptType, OtherThreadTypes DEF ConnThread
  <1>2. CASE UNCHANGED vars
    BY <1>2
    DEF vars, TypeOK, AuthorityType, ViewType, RegistryType, AccountsType, ExchangeType,
        authority, registry, accounts, channels, bounds, history
  <1>3. QED
    BY <1>1, <1>2, WorkerTypes, CallerTypes DEF Next

\* Every variable keeps its type: in particular the reservation counters never go
\* below zero, every frame in a channel is well formed and every object keeps a
\* state of the enumeration, in every instance of the model.
THEOREM TypeCorrect == Spec => []TypeOK
  <1> DEFINE Inv == TypeOK /\ ClientsHaveBoots
  <1>1. Init => Inv
    BY TypeInit
  <1>2. Inv /\ AccountsInv' /\ [Next]_vars => Inv'
    BY TypeStep, BootsStep
  <1>3. QED
    BY <1>1, <1>2, AccountsAlways, PTL DEF Spec

---------------------------------------------------------------------------
(* Readiness.  Observations never carry HOT here: the transition table has no
   edge from HOT to DISCOVERED, so a HOT observation would keep its state. *)

\* No operation but a settled result makes an object execution-ready.
LEMMA OnlyWarmedIsReady ==
    ASSUME NEW obj \in ObjectRecords
    PROVE  /\ \A obs \in Observations :
                 is_execution_ready(Reported(obj, obs).state) => is_execution_ready(obj.state)
           /\ ~is_execution_ready(Revoked(obj).state)
           /\ ~is_execution_ready(Orphaned(obj).state)
           /\ ~is_execution_ready(Failed(obj).state)
  <1>1. obj.state \in WarmthStates \cup {"ABSENT"}
    BY ObjectFields
  <1>2. \A s \in WarmthStates \cup {"ABSENT"} :
           /\ is_execution_ready(transition(s, "DISCOVERED")) => is_execution_ready(s)
           /\ ~is_execution_ready(transition(s, "FAILED"))
    BY DEF is_execution_ready, transition, transition_allowed, TransitionsFrom, WarmthStates
  <1>3. \A s \in {"PARTIALLY_WARM", "WARM", "HOT", "STALE"} :
           ~is_execution_ready(transition(s, "INVALIDATED"))
    BY DEF is_execution_ready, transition, transition_allowed, TransitionsFrom
  <1>4. ASSUME NEW obs \in Observations, is_execution_ready(Reported(obj, obs).state)
        PROVE  is_execution_ready(obj.state)
    <2>1. \/ Reported(obj, obs).state = transition(obj.state, "DISCOVERED")
          \/ Reported(obj, obs).state = obj.state
      BY DEF Reported, ObjectRecords
    <2>2. QED
      BY <1>1, <1>2, <1>4, <2>1
  <1>5. ~is_execution_ready(Revoked(obj).state)
    <2>1. Revoked(obj).state =
             IF is_live_warm_state(obj.state) \/ obj.state = "STALE"
             THEN transition(obj.state, "INVALIDATED") ELSE obj.state
      BY DEF Revoked
    <2>2. CASE obj.state \in {"PARTIALLY_WARM", "WARM", "HOT", "STALE"}
      BY <1>3, <2>1, <2>2 DEF is_live_warm_state
    <2>3. CASE obj.state \notin {"PARTIALLY_WARM", "WARM", "HOT", "STALE"}
      BY <2>1, <2>3 DEF is_live_warm_state, is_execution_ready
    <2>4. QED
      BY <2>2, <2>3
  <1>6. ~is_execution_ready(Orphaned(obj).state)
    <2>1. Orphaned(obj).state = Decayed(obj.state, DefaultDecayPolicy, RestartFlags, 0)
      BY DEF Orphaned, ObjectRecords
    <2>2. /\ DefaultDecayPolicy \in DecayPolicies /\ DefaultDecayPolicy.on_process_restart
          /\ RestartFlags \in DecayFlags /\ RestartFlags.process_restart
      BY DEF DefaultDecayPolicy, DecayPolicies, RestartFlags, DecayFlags
    <2>3. CASE obj.state \in WarmthStates
      BY <2>1, <2>2, <2>3, DecayNeverWarms
    <2>4. CASE obj.state = "ABSENT"
      BY <2>1, <2>4 DEF Decayed, transition, transition_allowed, TransitionsFrom, is_execution_ready
    <2>5. QED
      BY <1>1, <2>3, <2>4
  <1>7. ~is_execution_ready(Failed(obj).state)
    <2>1. Failed(obj).state = transition(obj.state, "FAILED")
      BY DEF Failed, ObjectRecords
    <2>2. QED
      BY <1>1, <1>2, <2>1
  <1>8. QED
    BY <1>4, <1>5, <1>6, <1>7

LEMMA DiscoveredIsNotReady ==
    ASSUME "HOT" \notin ObservedStates, NEW obs \in Observations
    PROVE  ~is_execution_ready(Discovered(obs).state)
  <1>1. obs.state \in WarmthStates \ {"HOT"}
    BY ObservationFields DEF Observations
  <1>2. Discovered(obs).state = IF is_execution_ready(obs.state)
                                THEN transition(obs.state, "DISCOVERED") ELSE obs.state
    BY DEF Discovered
  <1>3. transition("WARM", "DISCOVERED") = "DISCOVERED"
    BY DEF transition, transition_allowed, TransitionsFrom
  <1>4. QED
    BY <1>1, <1>2, <1>3 DEF is_execution_ready

\* A step settles an attempt to warm o.
SettlesAttemptFor(o) == \E r \in in_flight : r.object = o /\ r \notin in_flight'

\* An object that is execution-ready after a step was so before it and has the
\* same author, or the step settled an attempt for it in the current epoch.
LEMMA ReadinessStep ==
    ASSUME "HOT" \notin ObservedStates, TypeOK, [Next]_vars, NEW o \in Objects, Ready(o)'
    PROVE  /\ epoch' = epoch
           /\ \/ Ready(o) /\ author'[o] = author[o]
              \/ author'[o].epoch = epoch /\ SettlesAttemptFor(o)
  <1>0. objects[o] \in ObjectRecords
    BY DEF TypeOK, ViewType
  <1>1. ASSUME UNCHANGED <<epoch, objects, author>>
        PROVE  epoch' = epoch /\ Ready(o) /\ author'[o] = author[o]
    BY <1>1 DEF Ready
  <1>2. ASSUME NEW c \in Conns, HandleHello(c)
        PROVE  epoch' = epoch /\ Ready(o) /\ author'[o] = author[o]
    <2> DEFINE m == Head(toCoord[c])
               w == m.worker
               bootChanged == last_boot[w] # NoBoot /\ last_boot[w] # m.boot
               kept == [p \in Objects |->
                           IF bootChanged /\ p \in worker_objects[w] /\ objects[p].state # "ABSENT"
                           THEN Revoked(objects[p])
                           ELSE objects[p]]
               fresh == {obs \in m.observed : kept[obs.object].state = "ABSENT"}
    <2>1. epoch' = epoch /\ author' = author
      BY <1>2 DEF HandleHello, authority
    <2>2. m.observed \in SUBSET Observations
      BY <1>2, FrameTaken DEF HandleHello, HelloMsgs
    <2>3. \A obs \in fresh : ~is_execution_ready(Discovered(obs).state)
      BY <2>2, DiscoveredIsNotReady
    <2>4. is_execution_ready(kept[o].state) => Ready(o)
      BY <1>0, OnlyWarmedIsReady DEF Ready
    <2>5. \/ UNCHANGED objects
          \/ objects' = [p \in Objects |->
                IF \E obs \in fresh : obs.object = p
                THEN Discovered(CHOOSE obs \in fresh : obs.object = p)
                ELSE kept[p]]
      BY <1>2 DEF HandleHello
    <2> HIDE DEF kept, fresh
    <2>6. Ready(o)
      <3>1. CASE UNCHANGED objects
        BY <3>1 DEF Ready
      <3>2. CASE objects' = [p \in Objects |->
                   IF \E obs \in fresh : obs.object = p
                   THEN Discovered(CHOOSE obs \in fresh : obs.object = p)
                   ELSE kept[p]]
        <4>1. CASE \E obs \in fresh : obs.object = o
          <5>1. PICK obs \in fresh : objects'[o] = Discovered(obs)
            BY <3>2, <4>1
          <5>2. QED
            BY <2>3, <5>1 DEF Ready
        <4>2. CASE ~\E obs \in fresh : obs.object = o
          BY <2>4, <3>2, <4>2 DEF Ready
        <4>3. QED
          BY <4>1, <4>2
      <3>3. QED
        BY <2>5, <3>1, <3>2
    <2>7. QED
      BY <2>1, <2>6
  <1>3. ASSUME NEW c \in Conns, HandleReport(c)
        PROVE  epoch' = epoch /\ Ready(o) /\ author'[o] = author[o]
    <2> DEFINE m == Head(toCoord[c])
               x == m.observed.object
    <2>1. epoch' = epoch /\ author' = author
      BY <1>3 DEF HandleReport, authority
    <2>2. m.observed \in Observations
      BY <1>3, FrameTaken DEF HandleReport, ReportMsgs
    <2>3. \/ UNCHANGED objects
          \/ objects' = [objects EXCEPT ![x] =
                IF @.state = "ABSENT" THEN Discovered(m.observed) ELSE Reported(@, m.observed)]
      BY <1>3 DEF HandleReport
    <2>4. ~is_execution_ready(Discovered(m.observed).state)
      BY <2>2, DiscoveredIsNotReady
    <2>5. is_execution_ready(Reported(objects[o], m.observed).state) => Ready(o)
      BY <1>0, <2>2, OnlyWarmedIsReady DEF Ready
    <2> HIDE DEF m, x
    <2>6. Ready(o)
      <3>1. \/ objects'[o] = objects[o]
            \/ objects'[o] = Discovered(m.observed)
            \/ objects'[o] = Reported(objects[o], m.observed)
        BY <2>3 DEF TypeOK, ViewType
      <3>2. QED
        BY <2>4, <2>5, <3>1 DEF Ready
    <2>7. QED
      BY <2>1, <2>6
  <1>4. ASSUME NEW c \in Conns, AcceptResult(c)
        PROVE  /\ epoch' = epoch
               /\ \/ Ready(o) /\ author'[o] = author[o]
                  \/ author'[o].epoch = epoch /\ SettlesAttemptFor(o)
    <2> DEFINE m == Head(toCoord[c])
               x == m.object
               who == [worker |-> cs[c].id, boot |-> cs[c].boot, epoch |-> m.epoch]
    <2>1. epoch' = epoch /\ m.epoch = epoch
      BY <1>4 DEF AcceptResult, Authorised, authority
    <2>2. PICK r \in in_flight : r.object = x /\ in_flight' = in_flight \ {r}
      BY <1>4 DEF AcceptResult, Answers, Settle
    <2>3. \/ /\ objects' = [objects EXCEPT ![x] = Warmed(@)]
             /\ author' = [author EXCEPT ![x] = who]
          \/ /\ objects' = [objects EXCEPT ![x] = IF @.state = "ABSENT" THEN @ ELSE Failed(@)]
             /\ author' = author
      BY <1>4 DEF AcceptResult
    <2>4. who.epoch = epoch
      BY <2>1
    <2>5. ~is_execution_ready(Failed(objects[o]).state)
      BY <1>0, OnlyWarmedIsReady
    <2> HIDE DEF m, x, who
    <2>6. CASE o # x
      BY <2>1, <2>3, <2>6 DEF Ready, TypeOK, ViewType
    <2>7. CASE o = x
      <3>1. SettlesAttemptFor(o)
        BY <2>2, <2>7 DEF SettlesAttemptFor
      <3>2. CASE author' = [author EXCEPT ![x] = who]
        <4>1. author'[o] = who
          BY <2>7, <3>2 DEF TypeOK, ViewType
        <4>2. QED
          BY <2>1, <2>4, <3>1, <4>1
      <3>3. CASE /\ objects' = [objects EXCEPT ![x] = IF @.state = "ABSENT" THEN @ ELSE Failed(@)]
                 /\ author' = author
        <4>1. objects'[o] = objects[o] \/ objects'[o] = Failed(objects[o])
          BY <2>7, <3>3 DEF TypeOK, ViewType
        <4>2. QED
          BY <2>1, <2>5, <3>3, <4>1 DEF Ready
      <3>4. QED
        BY <2>3, <3>2, <3>3
    <2>8. QED
      BY <2>6, <2>7
  <1>5. ASSUME NEW c \in Conns, Disconnect(c)
        PROVE  epoch' = epoch /\ Ready(o) /\ author'[o] = author[o]
    <2>1. epoch' = epoch /\ author' = author
      BY <1>5 DEF Disconnect, authority, history
    <2>2. objects'[o] = objects[o] \/ objects'[o] = Orphaned(objects[o])
      BY <1>5 DEF Disconnect
    <2>3. QED
      BY <1>0, <2>1, <2>2, OnlyWarmedIsReady DEF Ready
  <1>6. ASSUME RollEpoch PROVE FALSE
    <2>1. \/ objects'[o] = objects[o] /\ objects[o].state = "ABSENT"
          \/ objects'[o] = Revoked(objects[o])
      BY <1>6 DEF RollEpoch
    <2>2. ~is_execution_ready("ABSENT")
      BY DEF is_execution_ready
    <2>3. ~is_execution_ready(Revoked(objects[o]).state)
      BY <1>0, OnlyWarmedIsReady
    <2>4. QED
      BY <2>1, <2>2, <2>3 DEF Ready
  <1>7. ASSUME NEW c \in Conns, ConnThread(c)
        PROVE  /\ epoch' = epoch
               /\ \/ Ready(o) /\ author'[o] = author[o]
                  \/ author'[o].epoch = epoch /\ SettlesAttemptFor(o)
    <2>1. CASE SendAck(c) \/ DropResult(c)
      BY <1>1, <2>1 DEF SendAck, DropResult, authority, history
    <2>2. QED
      BY <1>2, <1>3, <1>4, <1>5, <1>7, <2>1 DEF ConnThread
  <1>8. CASE \/ \E c \in Conns : WorkerStep(c)
             \/ \E c \in Conns, w \in Workers, b \in Boots, obs \in HelloObservations :
                   Connect(c, w, b, obs)
             \/ \E c \in Conns, obs \in Observations : WorkerReport(c, obs)
             \/ \E c \in Conns : WorkerClose(c)
             \/ \E p \in Objects, w \in Workers : IssueWarm(p, w)
             \/ \E u \in unsent : SendTopic(u)
             \/ \E u \in unsent : SendTopicFails(u)
             \/ BumpDependencyGeneration
             \/ BumpWarmthGeneration
             \/ UNCHANGED vars
    <2>1. UNCHANGED <<epoch, objects, author>>
      BY <1>8
      DEF WorkerStep, ConnectReply, WorkerWarm, WorkerIgnore, Connect, WorkerReport, WorkerClose,
          IssueWarm, SendTopic, SendTopicFails, BumpDependencyGeneration, BumpWarmthGeneration,
          vars, authority, history
    <2>2. QED
      BY <1>1, <2>1
  <1>9. QED
    BY <1>6, <1>7, <1>8 DEF Next

\* No late WARM_RESULT, HELLO or REPORT revives readiness across roll_epoch: what
\* is execution-ready was warmed in the current epoch.
THEOREM ReadyIsCurrentHolds ==
    ASSUME "HOT" \notin ObservedStates
    PROVE  Spec => []ReadyIsCurrent
  <1>1. Init => ReadyIsCurrent
    BY DEF Init, ReadyIsCurrent, Ready, AbsentObject, is_execution_ready
  <1>2. TypeOK /\ ReadyIsCurrent /\ [Next]_vars => ReadyIsCurrent'
    <2> SUFFICES ASSUME TypeOK, ReadyIsCurrent, [Next]_vars, NEW o \in Objects, Ready(o)'
                 PROVE  author'[o].epoch = epoch'
      BY DEF ReadyIsCurrent
    <2>1. QED
      BY ReadinessStep DEF ReadyIsCurrent
  <1>3. QED
    BY <1>1, <1>2, TypeCorrect, PTL DEF Spec

\* An object becomes execution-ready only in a step that settles an attempt to
\* warm it.
THEOREM ReadyOnlyBySettlingHolds ==
    ASSUME "HOT" \notin ObservedStates
    PROVE  Spec => ReadyOnlyBySettling
  <1>1. TypeOK /\ [Next]_vars =>
           [\A o \in Objects : ~Ready(o) /\ Ready(o)' =>
               \E r \in in_flight : r.object = o /\ r \notin in_flight']_vars
    BY ReadinessStep DEF SettlesAttemptFor
  <1>2. QED
    BY <1>1, TypeCorrect, PTL DEF Spec, ReadyOnlyBySettling

---------------------------------------------------------------------------
(* Refinement.  The coordinator implements WarmAuthority: initial states map to
   initial states, and every step to a step or a stutter. *)

\* What an attempt is to WarmAuthority.
Abstracted(r) == [attempt |-> r.attempt, object |-> r.object, worker |-> r.worker]

\* The usage counters count the open attempts.
LEMMA UsageCounts ==
    ASSUME AccountsInv
    PROVE  budget.usage = [k \in Kinds |-> Cardinality(in_flight)]
  BY AccountsForm DEF Holding

\* Settling an attempt closes it: no other attempt has its number, and one
\* reservation of each kind is given back.
LEMMA SettleCloses ==
    ASSUME AccountsInv, NEW r \in in_flight, Settle(r)
    PROVE  /\ Abstracted(r) \in OpenAttempts
           /\ OpenAttempts' = OpenAttempts \ {Abstracted(r)}
           /\ budget.usage' = [k \in Kinds |-> budget.usage[k] - 1]
           /\ attempt_counter' = attempt_counter
  <1>1. in_flight' = in_flight \ {r} /\ attempt_counter' = attempt_counter
    BY DEF Settle
  <1>2. \A s \in in_flight : Abstracted(s) = Abstracted(r) => s = r
    <2> SUFFICES ASSUME NEW s \in in_flight, Abstracted(s) = Abstracted(r) PROVE s = r
      OBVIOUS
    <2>1. s.attempt = r.attempt
      BY DEF Abstracted
    <2>2. QED
      BY <2>1 DEF AccountsInv, Numbered
  <1>3. OpenAttempts = {Abstracted(s) : s \in in_flight}
        /\ OpenAttempts' = {Abstracted(s) : s \in in_flight'}
    BY DEF OpenAttempts, Abstracted
  <1>4. Abstracted(r) \in OpenAttempts /\ OpenAttempts' = OpenAttempts \ {Abstracted(r)}
    BY <1>1, <1>2, <1>3
  <1>5. Cardinality(in_flight') = Cardinality(in_flight) - 1
    BY <1>1, AccountsForm, FS_RemoveElement
  <1>6. budget'.usage = [k \in Kinds |-> Cardinality(in_flight')]
    <2>1. AccountsInv'
      BY SettleAccounts
    <2>2. budget'.usage \in [Kinds -> Nat]
      BY <2>1 DEF AccountsInv, AccountsType, Trackers
    <2>3. \A k \in Kinds : budget'.usage[k] = Cardinality(in_flight')
      BY <2>1 DEF AccountsInv, BudgetAccounting
    <2>4. QED
      BY <2>2, <2>3
  <1>7. QED
    BY <1>1, <1>4, <1>5, <1>6, UsageCounts

\* The same for a new attempt.
LEMMA IssueOpens ==
    ASSUME AccountsInv, NEW o \in Objects, NEW w \in Workers, IssueWarm(o, w)
    PROVE  /\ OpenAttempts' = OpenAttempts \cup
                 {[attempt |-> attempt_counter, object |-> o, worker |-> w]}
           /\ attempt_counter \in Nat /\ attempt_counter' = attempt_counter + 1
           /\ budget.usage' = [k \in Kinds |-> budget.usage[k] + 1]
  <1> DEFINE new == [attempt |-> attempt_counter, object |-> o, worker |-> w,
                     reservation_id |-> budget.next_id, op_reservation_id |-> budget.next_id + 1]
  <1>1. /\ in_flight' = in_flight \cup {new}
        /\ new.attempt = attempt_counter /\ new.object = o /\ new.worker = w
    BY DEF IssueWarm
  <1> HIDE DEF new
  <1>2. attempt_counter \in Nat /\ attempt_counter' = attempt_counter + 1
    BY DEF IssueWarm, AccountsInv, AccountsType
  <1>3. new \notin in_flight
    BY <1>1, <1>2 DEF AccountsInv
  <1>4. Cardinality(in_flight') = Cardinality(in_flight) + 1
    BY <1>1, <1>3, AccountsForm, FS_AddElement
  <1>5. budget'.usage = [k \in Kinds |-> Cardinality(in_flight')]
    <2>1. AccountsInv'
      BY IssueAccounts
    <2>2. budget'.usage \in [Kinds -> Nat]
      BY <2>1 DEF AccountsInv, AccountsType, Trackers
    <2>3. \A k \in Kinds : budget'.usage[k] = Cardinality(in_flight')
      BY <2>1 DEF AccountsInv, BudgetAccounting
    <2>4. QED
      BY <2>2, <2>3
  <1>6. OpenAttempts' = OpenAttempts \cup
           {[attempt |-> attempt_counter, object |-> o, worker |-> w]}
    BY <1>1 DEF OpenAttempts
  <1>7. QED
    BY <1>2, <1>4, <1>5, <1>6, UsageCounts

\* A step that settles nothing and stays in its epoch can only take readiness away.
LEMMA OtherStepsLose ==
    ASSUME "HOT" \notin ObservedStates, TypeOK, [Next]_vars, UNCHANGED <<epoch, accounts>>
    PROVE  \E S \in SUBSET Objects : Authority!Lose(S)
  <1> DEFINE S == {o \in Objects : ~Ready(o)'}
  <1>1. \A o \in Objects : Ready(o)' => Ready(o) /\ author'[o] = author[o]
    <2> SUFFICES ASSUME NEW o \in Objects, Ready(o)'
                 PROVE  Ready(o) /\ author'[o] = author[o]
      OBVIOUS
    <2>1. ~SettlesAttemptFor(o)
      BY DEF SettlesAttemptFor, accounts
    <2>2. QED
      BY <2>1, ReadinessStep
  <1>2. WarmIn' = [o \in Objects |-> IF o \in S THEN Authority!Never ELSE WarmIn[o]]
    BY <1>1 DEF WarmIn, NoEpoch, Authority!Never
  <1>3. OpenAttempts' = OpenAttempts /\ UNCHANGED <<epoch, attempt_counter, budget>>
    BY DEF accounts, OpenAttempts
  <1>4. Authority!Lose(S)
    BY <1>2, <1>3 DEF Authority!Lose
  <1>5. QED
    BY <1>4

\* A result that is accepted closes its attempt with success or failure.
LEMMA AcceptCloses ==
    ASSUME "HOT" \notin ObservedStates, TypeOK, AccountsInv, NEW c \in Conns, AcceptResult(c)
    PROVE  \E a \in OpenAttempts : Authority!Succeed(a) \/ Authority!Fail(a)
  <1> DEFINE m == Head(toCoord[c])
             x == m.object
             who == [worker |-> cs[c].id, boot |-> cs[c].boot, epoch |-> m.epoch]
  <1>1. epoch' = epoch /\ who.epoch = epoch
    BY DEF AcceptResult, Authorised, authority
  <1>2. PICK r \in in_flight : r.object = x /\ Settle(r)
    BY DEF AcceptResult, Answers
  <1>3. \/ /\ objects' = [objects EXCEPT ![x] = Warmed(@)]
           /\ author' = [author EXCEPT ![x] = who]
        \/ /\ objects' = [objects EXCEPT ![x] = IF @.state = "ABSENT" THEN @ ELSE Failed(@)]
           /\ author' = author
    BY DEF AcceptResult
  <1>4. x \in Objects /\ objects \in [Objects -> ObjectRecords] /\ author \in [Objects -> Authors]
    <2>1. r \in Attempts
      BY DEF TypeOK, AccountsType
    <2>2. QED
      BY <1>2, <2>1 DEF Attempts, TypeOK, ViewType
  <1> HIDE DEF m, x, who
  <1>5. CASE /\ objects' = [objects EXCEPT ![x] = Warmed(@)]
             /\ author' = [author EXCEPT ![x] = who]
    <2>1. is_execution_ready(Warmed(objects[x]).state)
      BY <1>4, WarmedType
    <2>2. WarmIn' = [WarmIn EXCEPT ![x] = epoch]
      BY <1>1, <1>4, <1>5, <2>1 DEF WarmIn, Ready
    <2>3. Authority!Succeed(Abstracted(r))
      BY <1>1, <1>2, <2>2, SettleCloses DEF Authority!Succeed, Authority!Close, Abstracted, Authority!Kinds, Kinds
    <2>4. QED
      BY <1>2, <2>3, SettleCloses
  <1>6. CASE /\ objects' = [objects EXCEPT ![x] = IF @.state = "ABSENT" THEN @ ELSE Failed(@)]
             /\ author' = author
    <2>1. ~is_execution_ready(Failed(objects[x]).state) /\ ~is_execution_ready("ABSENT")
      BY <1>4, OnlyWarmedIsReady DEF is_execution_ready
    <2>2. ~is_execution_ready(objects'[x].state)
      BY <1>4, <1>6, <2>1
    <2>3. WarmIn' = [WarmIn EXCEPT ![x] = Authority!Never]
      BY <1>4, <1>6, <2>2 DEF WarmIn, Ready, NoEpoch, Authority!Never
    <2>4. Authority!Fail(Abstracted(r))
      BY <1>1, <1>2, <2>3, SettleCloses DEF Authority!Fail, Authority!Close, Abstracted, Authority!Kinds, Kinds
    <2>5. QED
      BY <1>2, <2>4, SettleCloses
  <1>7. QED
    BY <1>3, <1>5, <1>6

\* A failed send closes its attempt and says nothing of the object.
LEMMA FailedSendAbandons ==
    ASSUME AccountsInv, NEW r \in in_flight, Settle(r), UNCHANGED <<epoch, objects, author>>,
           r.object \in Objects
    PROVE  \E a \in OpenAttempts : Authority!Abandon(a)
  <1>1. WarmIn' = WarmIn /\ WarmIn = [WarmIn EXCEPT ![r.object] = WarmIn[r.object]]
    BY DEF WarmIn, Ready
  <1>2. Authority!Abandon(Abstracted(r))
    BY <1>1, SettleCloses DEF Authority!Abandon, Authority!Close, Abstracted, Authority!Kinds, Kinds
  <1>3. QED
    BY <1>2, SettleCloses

\* roll_epoch starts a new era.
LEMMA RollIsNewEra ==
    ASSUME TypeOK, AccountsInv, RollEpoch
    PROVE  Authority!NewEra
  <1>1. in_flight' = {} /\ attempt_counter' = attempt_counter /\ epoch' = epoch + 1
    BY DEF RollEpoch
  <1>2. budget'.usage = [k \in Kinds |-> 0]
    <2>1. AccountsInv'
      BY RollAccounts
    <2>2. budget'.usage \in [Kinds -> Nat]
      BY <2>1 DEF AccountsInv, AccountsType, Trackers
    <2>3. \A k \in Kinds : budget'.usage[k] = Cardinality({})
      BY <1>1, <2>1 DEF AccountsInv, BudgetAccounting
    <2>4. QED
      BY <2>2, <2>3, FS_EmptySet
  <1>3. \A o \in Objects : ~is_execution_ready(objects'[o].state)
    <2> SUFFICES ASSUME NEW o \in Objects PROVE ~is_execution_ready(objects'[o].state)
      OBVIOUS
    <2>1. \/ objects'[o] = objects[o] /\ objects[o].state = "ABSENT"
          \/ objects'[o] = Revoked(objects[o])
      BY DEF RollEpoch
    <2>2. objects[o] \in ObjectRecords /\ ~is_execution_ready("ABSENT")
      BY DEF TypeOK, ViewType, is_execution_ready
    <2>3. QED
      BY <2>1, <2>2, OnlyWarmedIsReady
  <1>4. WarmIn' = [o \in Objects |-> Authority!Never] /\ OpenAttempts' = {}
    BY <1>1, <1>3 DEF WarmIn, Ready, NoEpoch, Authority!Never, OpenAttempts
  <1>5. QED
    BY <1>1, <1>2, <1>4 DEF Authority!NewEra, Authority!Kinds, Kinds

\* Every step of the coordinator is a step of WarmAuthority or changes nothing that
\* WarmAuthority sees.
LEMMA StepImplements ==
    ASSUME "HOT" \notin ObservedStates, TypeOK, AccountsInv, [Next]_vars
    PROVE  Authority!Next
  <1>1. CASE UNCHANGED <<epoch, accounts>>
    BY <1>1, OtherStepsLose DEF Authority!Next
  <1>2. ASSUME NEW c \in Conns, AcceptResult(c) PROVE Authority!Next
    BY <1>2, AcceptCloses DEF Authority!Next
  <1>3. ASSUME NEW o \in Objects, NEW w \in Workers, IssueWarm(o, w) PROVE Authority!Next
    <2>1. UNCHANGED <<epoch, objects, author>>
      BY <1>3 DEF IssueWarm, authority, history
    <2>2. WarmIn' = WarmIn
      BY <2>1 DEF WarmIn, Ready
    <2>3. attempt_counter \in Nat /\ attempt_counter' = attempt_counter + 1
      BY <1>3, IssueOpens
    <2>4. Authority!Open(o, w)
      BY <1>3, <2>1, <2>2, <2>3, IssueOpens DEF Authority!Open, Authority!Kinds, Kinds
    <2>5. QED
      BY <2>4 DEF Authority!Next
  <1>4. ASSUME NEW u \in unsent, SendTopicFails(u) PROVE Authority!Next
    <2>1. UNCHANGED <<epoch, objects, author>>
      BY <1>4 DEF SendTopicFails, authority, history
    <2>2. UNCHANGED accounts \/ \E r \in in_flight : Settle(r)
      BY <1>4 DEF SendTopicFails
    <2>3. \A r \in in_flight : r.object \in Objects
      BY DEF TypeOK, AccountsType, Attempts
    <2>4. QED
      BY <1>1, <2>1, <2>2, <2>3, FailedSendAbandons DEF Authority!Next
  <1>5. CASE RollEpoch
    BY <1>5, RollIsNewEra DEF Authority!Next
  <1>6. ASSUME NEW c \in Conns, ConnThread(c) PROVE Authority!Next
    <2>1. CASE HandleHello(c) \/ SendAck(c) \/ HandleReport(c) \/ DropResult(c) \/ Disconnect(c)
      <3>1. UNCHANGED <<epoch, accounts>>
        BY <2>1 DEF HandleHello, SendAck, HandleReport, DropResult, Disconnect, authority
      <3>2. QED
        BY <1>1, <3>1
    <2>2. QED
      BY <1>2, <1>6, <2>1 DEF ConnThread
  <1>7. CASE \/ \E c \in Conns : WorkerStep(c)
             \/ \E c \in Conns, w \in Workers, b \in Boots, obs \in HelloObservations :
                   Connect(c, w, b, obs)
             \/ \E c \in Conns, obs \in Observations : WorkerReport(c, obs)
             \/ \E c \in Conns : WorkerClose(c)
             \/ \E u \in unsent : SendTopic(u)
             \/ BumpDependencyGeneration
             \/ BumpWarmthGeneration
             \/ UNCHANGED vars
    <2>1. UNCHANGED <<epoch, accounts>>
      BY <1>7
      DEF WorkerStep, ConnectReply, WorkerWarm, WorkerIgnore, Connect, WorkerReport, WorkerClose,
          SendTopic, BumpDependencyGeneration, BumpWarmthGeneration, vars, authority
    <2>2. QED
      BY <1>1, <2>1
  <1>8. QED
    BY <1>3, <1>4, <1>5, <1>6, <1>7 DEF Next

\* The coordinator implements WarmAuthority in every instance, as long as no worker
\* reports an object as HOT: lost, late and duplicated frames, restarted workers and
\* racing settlements never show in what it promises.
THEOREM CoordinatorImplementsAuthority ==
    ASSUME "HOT" \notin ObservedStates
    PROVE  Spec => ImplementsAuthority
  <1>1. Init => Authority!Init
    <2> SUFFICES ASSUME Init PROVE Authority!Init
      OBVIOUS
    <2>1. WarmIn = [o \in Objects |-> Authority!Never]
      BY DEF Init, WarmIn, Ready, AbsentObject, is_execution_ready, NoEpoch, Authority!Never
    <2>2. OpenAttempts = {}
      BY DEF Init, OpenAttempts
    <2>3. QED
      BY <2>1, <2>2 DEF Init, EmptyTracker, Authority!Init, Authority!Kinds, Kinds
  <1>2. TypeOK /\ AccountsInv /\ [Next]_vars => [Authority!Next]_(Authority!vars)
    BY StepImplements
  <1>3. QED
    BY <1>1, <1>2, TypeCorrect, AccountsAlways, PTL DEF Spec, ImplementsAuthority, Authority!Spec

---------------------------------------------------------------------------
(* What connections do to the coordinator: registrations, the readiness that
   rests on them and the frames an attempt travels in. *)

---------------------------------------------------------------------------
(* Channels: the frames in transit, whatever their order. *)

Frames(s) == {s[i] : i \in DOMAIN s}

LEMMA FramesSent ==
    ASSUME NEW S, NEW s \in Seq(S), NEW x \in S
    PROVE  Frames(Append(s, x)) = Frames(s) \cup {x}
  <1>1. DOMAIN Append(s, x) = 1..(Len(s) + 1) /\ DOMAIN s = 1..Len(s) /\ Len(s) \in Nat
    OBVIOUS
  <1>2. \A i \in 1..Len(s) : Append(s, x)[i] = s[i]
    OBVIOUS
  <1>3. Append(s, x)[Len(s) + 1] = x
    OBVIOUS
  <1>4. ASSUME NEW i \in 1..(Len(s) + 1) PROVE Append(s, x)[i] \in Frames(s) \cup {x}
    <2>1. i \in 1..Len(s) \/ i = Len(s) + 1
      BY <1>1
    <2>2. QED
      BY <1>1, <1>2, <1>3, <2>1 DEF Frames
  <1>5. \A i \in 1..Len(s) : i \in 1..(Len(s) + 1)
    BY <1>1
  <1>6. Len(s) + 1 \in 1..(Len(s) + 1)
    BY <1>1
  <1>7. QED
    BY <1>1, <1>2, <1>3, <1>4, <1>5, <1>6 DEF Frames

LEMMA FramesTaken ==
    ASSUME NEW S, NEW s \in Seq(S), s # <<>>
    PROVE  /\ Head(s) \in S /\ Tail(s) \in Seq(S)
           /\ Frames(s) = {Head(s)} \cup Frames(Tail(s))
  <1>1. Head(s) \in S /\ Tail(s) \in Seq(S)
    OBVIOUS
  <1>2. /\ Len(s) \in Nat \ {0} /\ DOMAIN s = 1..Len(s)
        /\ DOMAIN Tail(s) = 1..(Len(s) - 1)
        /\ \A i \in 1..(Len(s) - 1) : Tail(s)[i] = s[i + 1]
        /\ Head(s) = s[1]
    OBVIOUS
  <1>3. ASSUME NEW i \in 1..Len(s) PROVE i = 1 \/ (i - 1 \in 1..(Len(s) - 1) /\ (i - 1) + 1 = i)
    BY <1>2
  <1>4. \A i \in 1..(Len(s) - 1) : i + 1 \in 1..Len(s)
    BY <1>2
  <1>5. 1 \in 1..Len(s)
    BY <1>2
  <1>6. ASSUME NEW i \in 1..Len(s) PROVE s[i] \in {Head(s)} \cup Frames(Tail(s))
    <2>1. CASE i = 1
      BY <1>2, <2>1
    <2>2. CASE i - 1 \in 1..(Len(s) - 1) /\ (i - 1) + 1 = i
      <3>1. Tail(s)[i - 1] = s[i]
        BY <1>2, <2>2
      <3>2. QED
        BY <1>2, <2>2, <3>1 DEF Frames
    <2>3. QED
      BY <1>3, <2>1, <2>2
  <1>7. QED
    BY <1>1, <1>2, <1>4, <1>5, <1>6 DEF Frames

LEMMA FramesLost ==
    ASSUME NEW S, NEW s \in Seq(S), NEW n \in 0..Len(s)
    PROVE  /\ SubSeq(s, 1, n) \in Seq(S)
           /\ Frames(SubSeq(s, 1, n)) \subseteq Frames(s)
           /\ Len(s) = 1 => SubSeq(s, 1, n) = s \/ SubSeq(s, 1, n) = <<>>
  <1>1. Len(s) \in Nat /\ DOMAIN s = 1..Len(s) /\ n \in Nat /\ n <= Len(s)
    OBVIOUS
  <1>2. /\ SubSeq(s, 1, n) \in Seq(S) /\ Len(SubSeq(s, 1, n)) = n
        /\ DOMAIN SubSeq(s, 1, n) = 1..n
        /\ \A i \in 1..n : SubSeq(s, 1, n)[i] = s[i]
    BY <1>1
  <1>3. Frames(SubSeq(s, 1, n)) \subseteq Frames(s)
    BY <1>1, <1>2 DEF Frames
  <1>4. ASSUME Len(s) = 1 PROVE SubSeq(s, 1, n) = s \/ SubSeq(s, 1, n) = <<>>
    BY <1>1, <1>2, <1>4
  <1>5. QED
    BY <1>2, <1>3, <1>4

LEMMA FramesOfOne ==
    ASSUME NEW S, NEW x \in S
    PROVE  /\ <<x>> \in Seq(S) /\ Len(<<x>>) = 1 /\ <<x>> # <<>>
           /\ Head(<<x>>) = x /\ Tail(<<x>>) = <<>>
           /\ Frames(<<x>>) = {x} /\ Append(<<>>, x) = <<x>>
  <1>1. DOMAIN <<x>> = {1} /\ <<x>>[1] = x
    OBVIOUS
  <1>2. Frames(<<x>>) = {x}
    BY <1>1 DEF Frames
  <1>3. QED
    BY <1>2

LEMMA NoFrames == Frames(<<>>) = {} /\ \A S : <<>> \in Seq(S)
  BY DEF Frames

---------------------------------------------------------------------------
(* The effect of each action on the connection it is about. *)

LEMMA ChannelTypes ==
    ASSUME TypeOK, NEW c \in Conns
    PROVE  /\ toCoord[c] \in Seq(CoordFrames) /\ toWorker[c] \in Seq(WorkerFrames)
           /\ DOMAIN toCoord = Conns /\ DOMAIN toWorker = Conns /\ DOMAIN client = Conns
           /\ DOMAIN cs = Conns /\ DOMAIN ack = Conns
           /\ client[c] \in Clients /\ cs[c] \in ConnStates /\ ack[c] \in PendingAcks
  <1>1. /\ toCoord \in [Conns -> Seq(CoordFrames)] /\ toWorker \in [Conns -> Seq(WorkerFrames)]
        /\ client \in [Conns -> Clients] /\ ack \in [Conns -> PendingAcks]
    BY DEF TypeOK, ExchangeType, CoordFrames, WorkerFrames
  <1>2. cs \in [Conns -> ConnStates]
    BY DEF TypeOK, RegistryType
  <1>3. QED
    BY <1>1, <1>2

\* What the coordinator sends reaches the channel of a connection that is open.
LEMMA SentFrames ==
    ASSUME TypeOK, NEW c \in Conns, NEW msg \in WorkerFrames, toWorker' = SentTo(c, msg)
    PROVE  /\ \A d \in Conns \ {c} : toWorker'[d] = toWorker[d]
           /\ Open(c) => Frames(toWorker'[c]) = Frames(toWorker[c]) \cup {msg}
           /\ ~Open(c) => toWorker'[c] = toWorker[c]
  <1>1. Frames(Append(toWorker[c], msg)) = Frames(toWorker[c]) \cup {msg}
    BY ChannelTypes, FramesSent
  <1>2. QED
    BY <1>1, ChannelTypes DEF SentTo

\* A thread takes the frame at the head of its channel and leaves the others.
LEMMA TakenFrames ==
    ASSUME TypeOK, NEW c \in Conns, toCoord[c] # <<>>,
           toCoord' = [toCoord EXCEPT ![c] = Tail(@)]
    PROVE  /\ \A d \in Conns \ {c} : toCoord'[d] = toCoord[d]
           /\ toCoord'[c] = Tail(toCoord[c])
           /\ Frames(toCoord[c]) = {Head(toCoord[c])} \cup Frames(toCoord'[c])
  <1>1. Frames(toCoord[c]) = {Head(toCoord[c])} \cup Frames(Tail(toCoord[c]))
    BY ChannelTypes, FramesTaken
  <1>2. QED
    BY <1>1, ChannelTypes

LEMMA WorkerTakenFrames ==
    ASSUME TypeOK, NEW c \in Conns, toWorker[c] # <<>>,
           toWorker' = [toWorker EXCEPT ![c] = Tail(@)]
    PROVE  /\ \A d \in Conns \ {c} : toWorker'[d] = toWorker[d]
           /\ Frames(toWorker[c]) = {Head(toWorker[c])} \cup Frames(toWorker'[c])
  <1>1. Frames(toWorker[c]) = {Head(toWorker[c])} \cup Frames(Tail(toWorker[c]))
    BY ChannelTypes, FramesTaken
  <1>2. QED
    BY <1>1, ChannelTypes

LEMMA WorkerSentFrames ==
    ASSUME TypeOK, NEW c \in Conns, NEW msg \in CoordFrames,
           toCoord' = [toCoord EXCEPT ![c] = Append(@, msg)]
    PROVE  /\ \A d \in Conns \ {c} : toCoord'[d] = toCoord[d]
           /\ toCoord'[c] = Append(toCoord[c], msg)
           /\ Frames(toCoord'[c]) = Frames(toCoord[c]) \cup {msg}
  <1>1. Frames(Append(toCoord[c], msg)) = Frames(toCoord[c]) \cup {msg}
    BY ChannelTypes, FramesSent
  <1>2. QED
    BY <1>1, ChannelTypes

LEMMA ConnectEffect ==
    ASSUME TypeOK, NEW c \in Conns, NEW w \in Workers, NEW b \in Boots,
           NEW obs \in HelloObservations, Connect(c, w, b, obs)
    PROVE  \E m \in HelloMsgs :
              /\ client[c].status = "unused"
              /\ m.worker = w /\ m.boot = b /\ m.type = "HELLO"
              /\ toCoord'[c] = Append(toCoord[c], m)
              /\ Frames(toCoord'[c]) = Frames(toCoord[c]) \cup {m}
              /\ client'[c].status = "connecting" /\ client'[c].worker = w /\ client'[c].boot = b
              /\ client'[c].epoch = client[c].epoch /\ client'[c].dep_gen = client[c].dep_gen
              /\ client'[c].warmth_gen = client[c].warmth_gen
              /\ \A d \in Conns \ {c} : toCoord'[d] = toCoord[d] /\ client'[d] = client[d]
  <1> DEFINE m == [type |-> "HELLO", worker |-> w, boot |-> b, observed |-> obs]
  <1>1. obs \in SUBSET Observations
    BY DEF HelloObservations
  <1>2. m \in HelloMsgs /\ m.worker = w /\ m.boot = b /\ m.type = "HELLO"
    BY <1>1 DEF HelloMsgs
  <1>3. toCoord' = [toCoord EXCEPT ![c] = Append(@, m)]
    BY DEF Connect
  <1> HIDE DEF m
  <1>4. m \in CoordFrames
    BY <1>2 DEF CoordFrames
  <1>5. /\ \A d \in Conns \ {c} : toCoord'[d] = toCoord[d]
        /\ toCoord'[c] = Append(toCoord[c], m)
        /\ Frames(toCoord'[c]) = Frames(toCoord[c]) \cup {m}
    BY <1>3, <1>4, WorkerSentFrames
  <1>6. client' = [client EXCEPT ![c] = [@ EXCEPT !.status = "connecting",
                                                  !.worker = w, !.boot = b]]
        /\ client[c].status = "unused"
    BY DEF Connect
  <1>7. client'[c] = [client[c] EXCEPT !.status = "connecting", !.worker = w, !.boot = b]
        /\ \A d \in Conns \ {c} : client'[d] = client[d]
    BY <1>6, ChannelTypes
  <1>8. client[c] \in Clients
    BY ChannelTypes
  <1>9. /\ client'[c].status = "connecting" /\ client'[c].worker = w /\ client'[c].boot = b
        /\ client'[c].epoch = client[c].epoch /\ client'[c].dep_gen = client[c].dep_gen
        /\ client'[c].warmth_gen = client[c].warmth_gen
    BY <1>7, <1>8 DEF Clients
  <1>10. QED
    BY <1>2, <1>5, <1>6, <1>7, <1>9

LEMMA ReplyEffect ==
    ASSUME TypeOK, NEW c \in Conns, ConnectReply(c)
    PROVE  /\ client[c].status = "connecting"
           /\ client'[c].worker = client[c].worker /\ client'[c].boot = client[c].boot
           /\ \A d \in Conns \ {c} : toWorker'[d] = toWorker[d] /\ client'[d] = client[d]
           /\ Frames(toWorker'[c]) \subseteq Frames(toWorker[c])
           /\ \/ client'[c].status = "failed" /\ client'[c].epoch = client[c].epoch
                 /\ client'[c].warmth_gen = client[c].warmth_gen
                 /\ client'[c].dep_gen = client[c].dep_gen
              \/ \E m \in Frames(toWorker[c]) :
                    /\ m.type = "HELLO_ACK" /\ m.accepted /\ client'[c].status = "running"
                    /\ client'[c].epoch = m.epoch /\ client'[c].dep_gen = m.dep_gen
                    /\ client'[c].warmth_gen = m.warmth_gen
                    /\ Frames(toWorker[c]) = Frames(toWorker'[c]) \cup {m}
  <1> DEFINE m == Head(toWorker[c])
  <1>1. \/ client' = [client EXCEPT ![c] = [@ EXCEPT !.status = "failed"]]
        \/ /\ m.type = "HELLO_ACK" /\ m.accepted
           /\ client' = [client EXCEPT ![c] =
                 [@ EXCEPT !.status = "running", !.epoch = m.epoch,
                           !.warmth_gen = m.warmth_gen, !.dep_gen = m.dep_gen]]
    BY DEF ConnectReply
  <1>2. client[c].status = "connecting" /\ toWorker[c] # <<>>
    BY DEF ConnectReply
  <1>3. /\ \A d \in Conns \ {c} : toWorker'[d] = toWorker[d]
        /\ Frames(toWorker[c]) = {m} \cup Frames(toWorker'[c])
    BY <1>2, WorkerTakenFrames DEF ConnectReply
  <1>4. client[c] \in Clients /\ DOMAIN client = Conns
    BY ChannelTypes
  <1> HIDE DEF m
  <1>5. CASE client' = [client EXCEPT ![c] = [@ EXCEPT !.status = "failed"]]
    <2>1. client'[c] = [client[c] EXCEPT !.status = "failed"]
          /\ \A d \in Conns \ {c} : client'[d] = client[d]
      BY <1>4, <1>5
    <2>2. /\ client'[c].status = "failed" /\ client'[c].epoch = client[c].epoch
          /\ client'[c].warmth_gen = client[c].warmth_gen
          /\ client'[c].dep_gen = client[c].dep_gen
          /\ client'[c].worker = client[c].worker /\ client'[c].boot = client[c].boot
      BY <1>4, <2>1 DEF Clients
    <2>3. QED
      BY <1>2, <1>3, <2>1, <2>2
  <1>6. CASE /\ m.type = "HELLO_ACK" /\ m.accepted
             /\ client' = [client EXCEPT ![c] =
                   [@ EXCEPT !.status = "running", !.epoch = m.epoch,
                             !.warmth_gen = m.warmth_gen, !.dep_gen = m.dep_gen]]
    <2>1. client'[c] = [client[c] EXCEPT !.status = "running", !.epoch = m.epoch,
                           !.warmth_gen = m.warmth_gen, !.dep_gen = m.dep_gen]
          /\ \A d \in Conns \ {c} : client'[d] = client[d]
      BY <1>4, <1>6
    <2>2. /\ client'[c].status = "running" /\ client'[c].epoch = m.epoch
          /\ client'[c].warmth_gen = m.warmth_gen /\ client'[c].dep_gen = m.dep_gen
          /\ client'[c].worker = client[c].worker /\ client'[c].boot = client[c].boot
      BY <1>4, <2>1 DEF Clients
    <2>3. QED
      BY <1>2, <1>3, <1>6, <2>1, <2>2
  <1>7. QED
    BY <1>1, <1>5, <1>6

\* A frame that carries the authority of the worker's end of c.
UnderClient(c, m) ==
    /\ m.type # "HELLO"
    /\ m.boot = client[c].boot /\ m.epoch = client[c].epoch
    /\ m.warmth_gen = client[c].warmth_gen /\ m.dep_gen = client[c].dep_gen

LEMMA WarmEffect ==
    ASSUME TypeOK, ClientsHaveBoots, NEW c \in Conns, NEW success \in BOOLEAN,
           WorkerWarm(c, success)
    PROVE  \E t \in Frames(toWorker[c]), m \in ResultMsgs :
              /\ client[c].status = "running"
              /\ t.type = "WARM_TOPIC" /\ Frames(toWorker[c]) = Frames(toWorker'[c]) \cup {t}
              /\ UnderClient(c, m) /\ m.type = "WARM_RESULT"
              /\ m.attempt = t.attempt /\ m.object = t.object
              /\ Frames(toCoord'[c]) = Frames(toCoord[c]) \cup {m}
              /\ \A d \in Conns \ {c} : toCoord'[d] = toCoord[d] /\ toWorker'[d] = toWorker[d]
  <1> DEFINE t == Head(toWorker[c])
             m == [type |-> "WARM_RESULT", boot |-> client[c].boot, epoch |-> client[c].epoch,
                   warmth_gen |-> client[c].warmth_gen, dep_gen |-> client[c].dep_gen,
                   object |-> t.object, attempt |-> t.attempt, success |-> success]
  <1>1. /\ client[c].status = "running" /\ toWorker[c] # <<>> /\ t.type = "WARM_TOPIC"
        /\ toCoord' = [toCoord EXCEPT ![c] = Append(@, m)]
        /\ toWorker' = [toWorker EXCEPT ![c] = Tail(@)]
    BY DEF WorkerWarm
  <1>2. t \in TopicMsgs
    BY <1>1, WorkerFrameTaken
  <1>3. t.object \in Objects /\ t.attempt \in Nat
    BY <1>2 DEF TopicMsgs
  <1>4. client[c].boot \in Boots
    BY <1>1 DEF ClientsHaveBoots
  <1>5. m \in ResultMsgs /\ UnderClient(c, m) /\ m.type = "WARM_RESULT"
        /\ m.attempt = t.attempt /\ m.object = t.object
    BY <1>3, <1>4, ClientFields DEF ResultMsgs, UnderClient
  <1> HIDE DEF t, m
  <1>6. m \in CoordFrames
    BY <1>5 DEF CoordFrames
  <1>7. /\ \A d \in Conns \ {c} : toCoord'[d] = toCoord[d]
        /\ Frames(toCoord'[c]) = Frames(toCoord[c]) \cup {m}
    BY <1>1, <1>6, WorkerSentFrames
  <1>8. /\ \A d \in Conns \ {c} : toWorker'[d] = toWorker[d]
        /\ Frames(toWorker[c]) = {t} \cup Frames(toWorker'[c])
    BY <1>1, WorkerTakenFrames DEF t
  <1>9. QED
    BY <1>1, <1>5, <1>7, <1>8

LEMMA WorkerReportEffect ==
    ASSUME TypeOK, ClientsHaveBoots, NEW c \in Conns, NEW obs \in Observations,
           WorkerReport(c, obs)
    PROVE  \E m \in ReportMsgs :
              /\ client[c].status = "running"
              /\ UnderClient(c, m) /\ m.type = "REPORT"
              /\ Frames(toCoord'[c]) = Frames(toCoord[c]) \cup {m}
              /\ \A d \in Conns \ {c} : toCoord'[d] = toCoord[d]
  <1> DEFINE m == [type |-> "REPORT", boot |-> client[c].boot, epoch |-> client[c].epoch,
                   warmth_gen |-> client[c].warmth_gen, dep_gen |-> client[c].dep_gen,
                   observed |-> obs]
  <1>1. /\ client[c].status = "running"
        /\ toCoord' = [toCoord EXCEPT ![c] = Append(@, m)]
    BY DEF WorkerReport
  <1>2. client[c].boot \in Boots
    BY <1>1 DEF ClientsHaveBoots
  <1>3. m \in ReportMsgs /\ UnderClient(c, m) /\ m.type = "REPORT"
    BY <1>2, ClientFields DEF ReportMsgs, UnderClient
  <1> HIDE DEF m
  <1>4. m \in CoordFrames
    BY <1>3 DEF CoordFrames
  <1>5. QED
    BY <1>1, <1>3, <1>4, WorkerSentFrames

LEMMA CloseEffect ==
    ASSUME TypeOK, NEW c \in Conns, WorkerClose(c)
    PROVE  /\ Open(c) /\ client'[c] = [client[c] EXCEPT !.status = "closed"]
           /\ client'[c].status = "closed"
           /\ client'[c].worker = client[c].worker /\ client'[c].boot = client[c].boot
           /\ client'[c].epoch = client[c].epoch /\ client'[c].dep_gen = client[c].dep_gen
           /\ client'[c].warmth_gen = client[c].warmth_gen
           /\ toWorker'[c] = <<>>
           /\ Frames(toCoord'[c]) \subseteq Frames(toCoord[c])
           /\ Len(toCoord[c]) = 1 => toCoord'[c] = toCoord[c] \/ toCoord'[c] = <<>>
           /\ \A d \in Conns \ {c} : /\ toCoord'[d] = toCoord[d] /\ toWorker'[d] = toWorker[d]
                                     /\ client'[d] = client[d]
  <1>1. PICK n \in 0..Len(toCoord[c]) : toCoord' = [toCoord EXCEPT ![c] = SubSeq(@, 1, n)]
    BY DEF WorkerClose
  <1>2. toCoord'[c] = SubSeq(toCoord[c], 1, n) /\ \A d \in Conns \ {c} : toCoord'[d] = toCoord[d]
    BY <1>1, ChannelTypes
  <1>3. /\ Frames(toCoord'[c]) \subseteq Frames(toCoord[c])
        /\ Len(toCoord[c]) = 1 => toCoord'[c] = toCoord[c] \/ toCoord'[c] = <<>>
    BY <1>2, ChannelTypes, FramesLost
  <1>4. toWorker'[c] = <<>> /\ \A d \in Conns \ {c} : toWorker'[d] = toWorker[d]
    BY ChannelTypes DEF WorkerClose
  <1>5. client'[c] = [client[c] EXCEPT !.status = "closed"]
        /\ \A d \in Conns \ {c} : client'[d] = client[d]
    BY ChannelTypes DEF WorkerClose
  <1>6. client[c] \in Clients
    BY ChannelTypes
  <1>7. /\ client'[c].status = "closed"
        /\ client'[c].worker = client[c].worker /\ client'[c].boot = client[c].boot
        /\ client'[c].epoch = client[c].epoch /\ client'[c].dep_gen = client[c].dep_gen
        /\ client'[c].warmth_gen = client[c].warmth_gen
    BY <1>5, <1>6 DEF Clients
  <1>8. Open(c)
    BY DEF WorkerClose
  <1>9. QED
    BY <1>2, <1>3, <1>4, <1>5, <1>7, <1>8

\* HELLO registers its connection, or is refused.
LEMMA HelloEffect ==
    ASSUME TypeOK, NEW c \in Conns, HandleHello(c)
    PROVE  \E m \in HelloMsgs :
              /\ m = Head(toCoord[c]) /\ toCoord[c] # <<>> /\ m.type = "HELLO"
              /\ toCoord'[c] = Tail(toCoord[c])
              /\ Frames(toCoord[c]) = {m} \cup Frames(toCoord'[c])
              /\ ack'[c].epoch = epoch /\ ack'[c].warmth_gen = warmth_gen
              /\ ack'[c].dep_gen = dep_gen
              /\ \/ /\ HelloRejected(m) /\ ack'[c].verdict = "reject"
                    /\ UNCHANGED <<objects, registry, cs, voucher>>
                 \/ /\ ~HelloRejected(m) /\ ack'[c].verdict = "accept"
                    /\ last_boot' = [last_boot EXCEPT ![m.worker] = m.boot]
                    /\ workers' = [workers EXCEPT ![m.worker] = c]
                    /\ cs' = [cs EXCEPT ![c] = [registered |-> TRUE, id |-> m.worker,
                                                boot |-> m.boot]]
              /\ \A d \in Conns \ {c} : toCoord'[d] = toCoord[d] /\ ack'[d] = ack[d]
  <1> DEFINE m == Head(toCoord[c])
  <1>1. m \in HelloMsgs /\ m.type = "HELLO" /\ toCoord[c] # <<>>
    BY FrameTaken DEF HandleHello, Receives
  <1>2. toCoord' = [toCoord EXCEPT ![c] = Tail(@)]
    BY DEF HandleHello
  <1>3. /\ toCoord'[c] = Tail(toCoord[c])
        /\ Frames(toCoord[c]) = {m} \cup Frames(toCoord'[c])
        /\ \A d \in Conns \ {c} : toCoord'[d] = toCoord[d]
    BY <1>1, <1>2, TakenFrames
  <1>4. \/ /\ HelloRejected(m) /\ UNCHANGED <<objects, registry, cs, voucher>>
           /\ ack' = [ack EXCEPT ![c] = [verdict |-> "reject", epoch |-> epoch,
                                         warmth_gen |-> warmth_gen, dep_gen |-> dep_gen]]
        \/ /\ ~HelloRejected(m)
           /\ ack' = [ack EXCEPT ![c] = [verdict |-> "accept", epoch |-> epoch,
                                         warmth_gen |-> warmth_gen, dep_gen |-> dep_gen]]
           /\ last_boot' = [last_boot EXCEPT ![m.worker] = m.boot]
           /\ workers' = [workers EXCEPT ![m.worker] = c]
           /\ cs' = [cs EXCEPT ![c] = [registered |-> TRUE, id |-> m.worker, boot |-> m.boot]]
    BY DEF HandleHello
  <1>5. DOMAIN ack = Conns
    BY ChannelTypes
  <1> HIDE DEF m
  <1>6. /\ ack'[c].epoch = epoch /\ ack'[c].warmth_gen = warmth_gen /\ ack'[c].dep_gen = dep_gen
        /\ \A d \in Conns \ {c} : ack'[d] = ack[d]
    BY <1>4, <1>5
  <1>7. /\ ack'[c].verdict \in {"accept", "reject"}
        /\ ack'[c].verdict = "reject" => HelloRejected(m)
        /\ ack'[c].verdict = "accept" => ~HelloRejected(m)
    BY <1>4, <1>5
  <1>8. QED
    BY <1>1, <1>3, <1>4, <1>5, <1>6, <1>7 DEF m

---------------------------------------------------------------------------
(* Registration.  RegistryIsLatestBoot is not inductive: that a HELLO does not
   take over the ConnState another registration rests on needs that a connection
   carries one HELLO, before anything else, and that its ConnState is the worker
   and the boot its own end was opened for. *)

\* The two ends of a connection agree about who is speaking.
EndsAgree(c) ==
    /\ client[c].status = "unused" => ~cs[c].registered /\ toCoord[c] = <<>>
    /\ client[c].status # "unused" => client[c].worker \in Workers
    /\ client[c].status \in {"unused", "closed"} => toWorker[c] = <<>>
    /\ client[c].status = "running" => cs[c].registered
    /\ cs[c].registered => cs[c].id = client[c].worker /\ cs[c].boot = client[c].boot
    /\ ack[c].verdict = "accept" => cs[c].registered

\* A frame from the worker: the HELLO, alone in the channel and before the
\* registration, or a frame under what the HELLO_ACK taught the worker.
FromWorker(c, m) ==
    \/ /\ m.type = "HELLO" /\ toCoord[c] = <<m>> /\ ~cs[c].registered
       /\ m.worker = client[c].worker /\ m.boot = client[c].boot
    \/ /\ UnderClient(c, m) /\ cs[c].registered
       /\ client[c].status \in {"running", "closed"}

\* An accepting HELLO_ACK is sent by a registration that is still there.
FromCoordinator(c, m) == m.type = "HELLO_ACK" /\ m.accepted => cs[c].registered

ConnInv(c) ==
    /\ EndsAgree(c)
    /\ \A m \in Frames(toCoord[c]) : FromWorker(c, m)
    /\ \A m \in Frames(toWorker[c]) : FromCoordinator(c, m)

ConnsInv == \A c \in Conns : ConnInv(c)

\* A step about other connections.
LEMMA ConnSame ==
    ASSUME NEW c \in Conns, ConnInv(c),
           toCoord'[c] = toCoord[c], toWorker'[c] = toWorker[c], cs'[c] = cs[c],
           ack'[c] = ack[c], client'[c] = client[c]
    PROVE  ConnInv(c)'
  BY DEF ConnInv, EndsAgree, FromWorker, UnderClient, FromCoordinator, Frames

\* A step that only takes frames from the channels of c, but not the HELLO.
LEMMA ConnFewer ==
    ASSUME NEW c \in Conns, ConnInv(c),
           Frames(toCoord'[c]) \subseteq Frames(toCoord[c]),
           cs[c].registered \/ toCoord'[c] = toCoord[c],
           Frames(toWorker'[c]) \subseteq Frames(toWorker[c]),
           toWorker[c] = <<>> => toWorker'[c] = <<>>,
           client[c].status = "unused" => toCoord'[c] = <<>>,
           cs'[c] = cs[c], ack'[c] = ack[c], client'[c] = client[c]
    PROVE  ConnInv(c)'
  BY DEF ConnInv, EndsAgree, FromWorker, UnderClient, FromCoordinator

LEMMA ConnWorkerStep ==
    ASSUME TypeOK, ClientsHaveBoots, NEW c \in Conns, ConnInv(c),
           \/ WorkerStep(c) \/ WorkerClose(c)
           \/ \E w \in Workers, b \in Boots, obs \in HelloObservations : Connect(c, w, b, obs)
           \/ \E obs \in Observations : WorkerReport(c, obs)
    PROVE  ConnInv(c)'
  <1>0. cs' = cs /\ ack' = ack
    BY DEF WorkerStep, ConnectReply, WorkerWarm, WorkerIgnore, WorkerClose, Connect,
           WorkerReport
  <1>1. CASE ConnectReply(c)
    <2>1. UNCHANGED toCoord /\ toWorker[c] # <<>>
      BY <1>1 DEF ConnectReply
    <2>2. /\ client[c].status = "connecting"
          /\ client'[c].worker = client[c].worker /\ client'[c].boot = client[c].boot
          /\ Frames(toWorker'[c]) \subseteq Frames(toWorker[c])
          /\ client'[c].status \in {"running", "failed"}
          /\ client'[c].status = "running" =>
                \E m \in Frames(toWorker[c]) : m.type = "HELLO_ACK" /\ m.accepted
      BY <1>1, ReplyEffect
    <2>3. EndsAgree(c)'
      BY <1>0, <2>1, <2>2 DEF ConnInv, EndsAgree, FromCoordinator
    <2>4. \A m \in Frames(toCoord'[c]) : FromWorker(c, m)'
      BY <1>0, <2>1, <2>2 DEF ConnInv, FromWorker
    <2>5. \A m \in Frames(toWorker'[c]) : FromCoordinator(c, m)'
      BY <1>0, <2>2 DEF ConnInv, FromCoordinator
    <2>6. QED
      BY <2>3, <2>4, <2>5 DEF ConnInv
  <1>2. ASSUME NEW success \in BOOLEAN, WorkerWarm(c, success) PROVE ConnInv(c)'
    <2>1. PICK m \in ResultMsgs :
              /\ client[c].status = "running" /\ UnderClient(c, m)
              /\ Frames(toWorker'[c]) \subseteq Frames(toWorker[c])
              /\ Frames(toCoord'[c]) = Frames(toCoord[c]) \cup {m}
      BY <1>2, WarmEffect
    <2>2. UNCHANGED client
      BY <1>2 DEF WorkerWarm
    <2>3. cs[c].registered
      BY <2>1 DEF ConnInv, EndsAgree
    <2>4. EndsAgree(c)'
      BY <1>0, <2>1, <2>2 DEF ConnInv, EndsAgree
    <2>5. \A x \in Frames(toCoord'[c]) : FromWorker(c, x)'
      BY <1>0, <2>1, <2>2, <2>3 DEF ConnInv, FromWorker, UnderClient
    <2>6. \A x \in Frames(toWorker'[c]) : FromCoordinator(c, x)'
      BY <1>0, <2>1 DEF ConnInv, FromCoordinator
    <2>7. QED
      BY <2>4, <2>5, <2>6 DEF ConnInv
  <1>3. CASE WorkerIgnore(c)
    <2>1. UNCHANGED <<client, toCoord>> /\ toWorker[c] # <<>> /\ client[c].status = "running"
      BY <1>3 DEF WorkerIgnore
    <2>2. Frames(toWorker'[c]) \subseteq Frames(toWorker[c])
      BY <1>3, <2>1, WorkerTakenFrames DEF WorkerIgnore
    <2>3. QED
      BY <1>0, <2>1, <2>2, ConnFewer
  <1>4. CASE WorkerClose(c)
    <2>1. EndsAgree(c)'
      BY <1>0, <1>4, CloseEffect DEF ConnInv, EndsAgree, Open
    <2>2. ASSUME NEW m \in Frames(toCoord'[c]) PROVE FromWorker(c, m)'
      <3>1. m \in Frames(toCoord[c]) /\ FromWorker(c, m)
        BY <1>4, CloseEffect DEF ConnInv
      <3>2. CASE toCoord[c] = <<m>>
        <4>1. Len(toCoord[c]) = 1
          BY <3>2
        <4>2. toCoord'[c] = <<m>>
          BY <1>4, <3>2, <4>1, CloseEffect, NoFrames
        <4>3. QED
          BY <1>0, <1>4, <3>1, <4>2, CloseEffect DEF FromWorker, UnderClient
      <3>3. CASE ~(toCoord[c] = <<m>>)
        BY <1>0, <1>4, <3>1, <3>3, CloseEffect DEF FromWorker, UnderClient
      <3>4. QED
        BY <3>2, <3>3
    <2>3. Frames(toWorker'[c]) = {}
      BY <1>4, CloseEffect, NoFrames
    <2>4. QED
      BY <2>1, <2>2, <2>3 DEF ConnInv
  <1>5. ASSUME NEW w \in Workers, NEW b \in Boots, NEW obs \in HelloObservations,
               Connect(c, w, b, obs)
        PROVE  ConnInv(c)'
    <2>1. PICK m \in HelloMsgs :
              /\ client[c].status = "unused"
              /\ m.worker = w /\ m.boot = b /\ m.type = "HELLO"
              /\ toCoord'[c] = Append(toCoord[c], m)
              /\ client'[c].status = "connecting" /\ client'[c].worker = w /\ client'[c].boot = b
      BY <1>5, ConnectEffect
    <2>2. toWorker' = toWorker
      BY <1>5 DEF Connect
    <2>3. toCoord[c] = <<>> /\ toWorker[c] = <<>> /\ ~cs[c].registered
          /\ ack[c].verdict # "accept"
      BY <2>1 DEF ConnInv, EndsAgree
    <2>4. toCoord'[c] = <<m>> /\ Frames(toCoord'[c]) = {m}
      BY <2>1, <2>3, FramesOfOne
    <2>5. QED
      BY <1>0, <2>1, <2>2, <2>3, <2>4, NoFrames DEF ConnInv, EndsAgree, FromWorker
  <1>6. ASSUME NEW obs \in Observations, WorkerReport(c, obs) PROVE ConnInv(c)'
    <2>1. PICK m \in ReportMsgs :
              /\ client[c].status = "running" /\ UnderClient(c, m)
              /\ Frames(toCoord'[c]) = Frames(toCoord[c]) \cup {m}
      BY <1>6, WorkerReportEffect
    <2>2. UNCHANGED <<client, toWorker>>
      BY <1>6 DEF WorkerReport
    <2>3. cs[c].registered
      BY <2>1 DEF ConnInv, EndsAgree
    <2>4. \A x \in Frames(toCoord'[c]) : FromWorker(c, x)'
      BY <1>0, <2>1, <2>2, <2>3 DEF ConnInv, FromWorker, UnderClient
    <2>5. QED
      BY <1>0, <2>1, <2>2, <2>4 DEF ConnInv, EndsAgree, FromCoordinator
  <1>7. QED
    BY <1>1, <1>2, <1>3, <1>4, <1>5, <1>6 DEF WorkerStep

\* What a thread sends is a frame for the worker.
LEMMA AckEffect ==
    ASSUME TypeOK, NEW c \in Conns, SendAck(c)
    PROVE  \E m \in AckMsgs :
              /\ m.type = "HELLO_ACK"
              /\ m.accepted => ack[c].verdict = "accept"
              /\ m.epoch <= epoch /\ m.warmth_gen <= warmth_gen /\ m.dep_gen <= dep_gen
              /\ Frames(toWorker'[c]) \subseteq Frames(toWorker[c]) \cup {m}
              /\ Frames(toWorker[c]) \subseteq Frames(toWorker'[c])
              /\ ~Open(c) => toWorker'[c] = toWorker[c]
              /\ \A d \in Conns \ {c} : toWorker'[d] = toWorker[d] /\ ack'[d] = ack[d]
              /\ ack'[c] = NoAck
  <1>1. PICK e \in ack[c].epoch..epoch, g \in ack[c].warmth_gen..warmth_gen,
             d \in ack[c].dep_gen..dep_gen :
          toWorker' = SentTo(c, [type |-> "HELLO_ACK", accepted |-> ack[c].verdict = "accept",
                                 epoch |-> e, warmth_gen |-> g, dep_gen |-> d])
    BY DEF SendAck
  <1> DEFINE m == [type |-> "HELLO_ACK", accepted |-> ack[c].verdict = "accept",
                   epoch |-> e, warmth_gen |-> g, dep_gen |-> d]
  <1>2. /\ ack[c].epoch \in Nat /\ ack[c].warmth_gen \in Nat /\ ack[c].dep_gen \in Nat
        /\ epoch \in Nat /\ warmth_gen \in Nat /\ dep_gen \in Nat
    BY ChannelTypes DEF PendingAcks, TypeOK, AuthorityType
  <1>3. e \in Nat /\ e <= epoch /\ g \in Nat /\ g <= warmth_gen /\ d \in Nat /\ d <= dep_gen
    BY <1>2
  <1>4. m \in AckMsgs /\ m.type = "HELLO_ACK" /\ m.accepted = (ack[c].verdict = "accept")
        /\ m.epoch = e /\ m.warmth_gen = g /\ m.dep_gen = d
    BY <1>3 DEF AckMsgs
  <1>5. toWorker' = SentTo(c, m)
    BY <1>1
  <1> HIDE DEF m
  <1>6. m \in WorkerFrames
    BY <1>4 DEF WorkerFrames
  <1>7. /\ Frames(toWorker'[c]) \subseteq Frames(toWorker[c]) \cup {m}
        /\ Frames(toWorker[c]) \subseteq Frames(toWorker'[c])
        /\ ~Open(c) => toWorker'[c] = toWorker[c]
        /\ \A f \in Conns \ {c} : toWorker'[f] = toWorker[f]
    BY <1>5, <1>6, SentFrames
  <1>8. ack'[c] = NoAck /\ \A f \in Conns \ {c} : ack'[f] = ack[f]
    BY ChannelTypes DEF SendAck
  <1>9. QED
    BY <1>3, <1>4, <1>7, <1>8

\* A thread takes a frame that is not a HELLO, and may answer ERROR.
LEMMA TakeEffect ==
    ASSUME TypeOK, NEW c \in Conns, HandleReport(c) \/ AcceptResult(c) \/ DropResult(c)
    PROVE  /\ toCoord[c] # <<>> /\ Head(toCoord[c]).type \in {"REPORT", "WARM_RESULT"}
           /\ Frames(toCoord[c]) = {Head(toCoord[c])} \cup Frames(toCoord'[c])
           /\ \A m \in Frames(toWorker'[c]) : m \in Frames(toWorker[c]) \/ m.type = "ERROR"
           /\ Frames(toWorker[c]) \subseteq Frames(toWorker'[c])
           /\ ~Open(c) => toWorker'[c] = toWorker[c]
           /\ \A d \in Conns \ {c} : toWorker'[d] = toWorker[d] /\ toCoord'[d] = toCoord[d]
           /\ UNCHANGED <<cs, ack, client, workers, last_boot>>
  <1>1. toCoord[c] # <<>> /\ Head(toCoord[c]).type \in {"REPORT", "WARM_RESULT"}
    BY DEF HandleReport, AcceptResult, DropResult, Receives
  <1>2. toCoord' = [toCoord EXCEPT ![c] = Tail(@)] /\ UNCHANGED <<cs, ack, client, workers, last_boot>>
    BY DEF HandleReport, AcceptResult, DropResult, registry
  <1>3. /\ Frames(toCoord[c]) = {Head(toCoord[c])} \cup Frames(toCoord'[c])
        /\ \A d \in Conns \ {c} : toCoord'[d] = toCoord[d]
    BY <1>1, <1>2, TakenFrames
  <1>4. \/ UNCHANGED toWorker
        \/ toWorker' = SentTo(c, [type |-> "ERROR"])
    BY DEF HandleReport, AcceptResult, DropResult
  <1>5. CASE UNCHANGED toWorker
    BY <1>1, <1>2, <1>3, <1>5
  <1>6. CASE toWorker' = SentTo(c, [type |-> "ERROR"])
    <2> DEFINE e == [type |-> "ERROR"]
    <2>1. e \in WorkerFrames /\ e.type = "ERROR" /\ toWorker' = SentTo(c, e)
      BY <1>6 DEF WorkerFrames, ErrorMsgs
    <2> HIDE DEF e
    <2>2. /\ \A d \in Conns \ {c} : toWorker'[d] = toWorker[d]
          /\ Frames(toWorker'[c]) \subseteq Frames(toWorker[c]) \cup {e}
          /\ Frames(toWorker[c]) \subseteq Frames(toWorker'[c])
          /\ ~Open(c) => toWorker'[c] = toWorker[c]
      BY <2>1, SentFrames
    <2>3. QED
      BY <1>1, <1>2, <1>3, <2>1, <2>2
  <1>7. QED
    BY <1>4, <1>5, <1>6

\* A frame WARM_TOPIC to the connection issue_warm found registered.
LEMMA TopicEffect ==
    ASSUME TypeOK, NEW u \in unsent, SendTopic(u)
    PROVE  \E m \in TopicMsgs :
              /\ m.type = "WARM_TOPIC" /\ m.object = u.object /\ m.attempt = u.attempt
              /\ u.conn \in Conns /\ u.object \in Objects /\ u.attempt \in Nat
              /\ u = [attempt |-> u.attempt, object |-> u.object, conn |-> u.conn]
              /\ \A d \in Conns \ {u.conn} : toWorker'[d] = toWorker[d]
              /\ Open(u.conn) => Frames(toWorker'[u.conn]) = Frames(toWorker[u.conn]) \cup {m}
              /\ ~Open(u.conn) => toWorker'[u.conn] = toWorker[u.conn]
  <1> DEFINE m == [type |-> "WARM_TOPIC", object |-> u.object, attempt |-> u.attempt]
  <1>1. u \in [attempt : Nat, object : Objects, conn : Conns]
    BY DEF TypeOK, ExchangeType
  <1>2. u.conn \in Conns /\ u.object \in Objects /\ u.attempt \in Nat
        /\ u = [attempt |-> u.attempt, object |-> u.object, conn |-> u.conn]
    BY <1>1
  <1>3. m \in TopicMsgs /\ m.type = "WARM_TOPIC" /\ m.object = u.object /\ m.attempt = u.attempt
    BY <1>2 DEF TopicMsgs
  <1>4. toWorker' = SentTo(u.conn, m)
    BY DEF SendTopic
  <1> HIDE DEF m
  <1>5. m \in WorkerFrames
    BY <1>3 DEF WorkerFrames
  <1>6. QED
    BY <1>2, <1>3, <1>4, <1>5, SentFrames

LEMMA DisconnectEffect ==
    ASSUME TypeOK, NEW c \in Conns, Disconnect(c)
    PROVE  /\ client[c].status = "closed" /\ toCoord[c] = <<>> /\ ack[c].verdict = "none"
           /\ cs[c].registered /\ cs'[c].registered = FALSE
           /\ cs'[c].id = cs[c].id /\ cs'[c].boot = cs[c].boot
           /\ \A d \in Conns \ {c} : cs'[d] = cs[d]
           /\ UNCHANGED <<toCoord, toWorker, client, ack, last_boot>>
  <1>1. cs' = [cs EXCEPT ![c] = [@ EXCEPT !.registered = FALSE]]
    BY DEF Disconnect
  <1>2. cs'[c] = [cs[c] EXCEPT !.registered = FALSE] /\ \A d \in Conns \ {c} : cs'[d] = cs[d]
    BY <1>1, ChannelTypes
  <1>3. cs[c] \in ConnStates
    BY ChannelTypes
  <1>4. cs'[c].registered = FALSE /\ cs'[c].id = cs[c].id /\ cs'[c].boot = cs[c].boot
    BY <1>2, <1>3 DEF ConnStates
  <1>5. QED
    BY <1>2, <1>4 DEF Disconnect, channels

LEMMA ConnThreadStep ==
    ASSUME TypeOK, NEW c \in Conns, ConnInv(c), ConnThread(c)
    PROVE  ConnInv(c)'
  <1>1. CASE HandleHello(c)
    <2>1. PICK m \in HelloMsgs :
              /\ m \in Frames(toCoord[c]) /\ m.type = "HELLO"
              /\ toCoord'[c] = Tail(toCoord[c])
              /\ \/ /\ ack'[c].verdict = "reject" /\ cs' = cs
                 \/ /\ ack'[c].verdict = "accept"
                    /\ cs' = [cs EXCEPT ![c] = [registered |-> TRUE, id |-> m.worker,
                                                boot |-> m.boot]]
      BY <1>1, HelloEffect
    <2>2. UNCHANGED <<client, toWorker>>
      BY <1>1 DEF HandleHello
    <2>3. /\ toCoord[c] = <<m>> /\ ~cs[c].registered
          /\ m.worker = client[c].worker /\ m.boot = client[c].boot
      BY <2>1 DEF ConnInv, FromWorker, UnderClient
    <2>4. toCoord'[c] = <<>> /\ Frames(toCoord'[c]) = {}
      BY <2>1, <2>3, FramesOfOne, NoFrames
    <2>5. client[c].status # "unused"
      BY <2>3 DEF ConnInv, EndsAgree
    <2>6. CASE ack'[c].verdict = "reject" /\ cs' = cs
      BY <2>2, <2>4, <2>6 DEF ConnInv, EndsAgree, FromCoordinator
    <2>7. CASE /\ ack'[c].verdict = "accept"
               /\ cs' = [cs EXCEPT ![c] = [registered |-> TRUE, id |-> m.worker,
                                           boot |-> m.boot]]
      <3>1. cs'[c].registered /\ cs'[c].id = client[c].worker /\ cs'[c].boot = client[c].boot
        BY <2>3, <2>7, ChannelTypes
      <3>2. QED
        BY <2>2, <2>4, <2>5, <3>1 DEF ConnInv, EndsAgree, FromCoordinator
    <2>8. QED
      BY <2>1, <2>6, <2>7
  <1>2. CASE SendAck(c)
    <2>1. PICK m \in AckMsgs :
              /\ m.type = "HELLO_ACK"
              /\ m.accepted => ack[c].verdict = "accept"
              /\ Frames(toWorker'[c]) \subseteq Frames(toWorker[c]) \cup {m}
              /\ ~Open(c) => toWorker'[c] = toWorker[c]
              /\ ack'[c] = NoAck
      BY <1>2, AckEffect
    <2>2. UNCHANGED <<client, toCoord, cs>>
      BY <1>2 DEF SendAck
    <2>3. ack'[c].verdict = "none"
      BY <2>1 DEF NoAck
    <2>4. EndsAgree(c)'
      BY <2>1, <2>2, <2>3 DEF ConnInv, EndsAgree, Open
    <2>5. \A x \in Frames(toCoord'[c]) : FromWorker(c, x)'
      BY <2>2 DEF ConnInv, FromWorker, UnderClient
    <2>6. \A x \in Frames(toWorker'[c]) : FromCoordinator(c, x)'
      BY <2>1, <2>2 DEF ConnInv, EndsAgree, FromCoordinator
    <2>7. QED
      BY <2>4, <2>5, <2>6 DEF ConnInv
  <1>3. CASE HandleReport(c) \/ AcceptResult(c) \/ DropResult(c)
    <2>1. /\ toCoord[c] # <<>> /\ Head(toCoord[c]).type # "HELLO"
          /\ Head(toCoord[c]) \in Frames(toCoord[c])
          /\ Frames(toCoord'[c]) \subseteq Frames(toCoord[c])
          /\ \A m \in Frames(toWorker'[c]) : m \in Frames(toWorker[c]) \/ m.type = "ERROR"
          /\ ~Open(c) => toWorker'[c] = toWorker[c]
          /\ UNCHANGED <<cs, ack, client>>
      BY <1>3, TakeEffect
    <2>2. cs[c].registered
      BY <2>1 DEF ConnInv, FromWorker
    <2>3. EndsAgree(c)'
      BY <2>1, <2>2 DEF ConnInv, EndsAgree, Open
    <2>4. \A x \in Frames(toCoord'[c]) : FromWorker(c, x)'
      BY <2>1, <2>2 DEF ConnInv, FromWorker, UnderClient
    <2>5. \A x \in Frames(toWorker'[c]) : FromCoordinator(c, x)'
      BY <2>1 DEF ConnInv, FromCoordinator
    <2>6. QED
      BY <2>3, <2>4, <2>5 DEF ConnInv
  <1>4. CASE Disconnect(c)
    <2>1. toWorker[c] = <<>>
      BY <1>4, DisconnectEffect DEF ConnInv, EndsAgree
    <2>2. Frames(toWorker'[c]) = {} /\ Frames(toCoord'[c]) = {}
      BY <1>4, <2>1, DisconnectEffect, NoFrames
    <2>3. EndsAgree(c)'
      BY <1>4, <2>1, DisconnectEffect DEF ConnInv, EndsAgree
    <2>4. QED
      BY <2>2, <2>3 DEF ConnInv
  <1>5. QED
    BY <1>1, <1>2, <1>3, <1>4 DEF ConnThread

\* A step about c leaves the two ends and the channels of every other connection.
LEMMA OthersSame ==
    ASSUME TypeOK, ClientsHaveBoots, NEW c \in Conns, NEW d \in Conns \ {c},
           \/ ConnThread(c) \/ WorkerStep(c) \/ WorkerClose(c)
           \/ \E w \in Workers, b \in Boots, obs \in HelloObservations : Connect(c, w, b, obs)
           \/ \E obs \in Observations : WorkerReport(c, obs)
    PROVE  /\ toCoord'[d] = toCoord[d] /\ toWorker'[d] = toWorker[d] /\ cs'[d] = cs[d]
           /\ ack'[d] = ack[d] /\ client'[d] = client[d]
  <1>1. CASE HandleHello(c)
    <2>1. UNCHANGED <<client, toWorker>>
      BY <1>1 DEF HandleHello
    <2>2. toCoord'[d] = toCoord[d] /\ ack'[d] = ack[d] /\ cs'[d] = cs[d]
      BY <1>1, HelloEffect, ChannelTypes
    <2>3. QED
      BY <2>1, <2>2
  <1>2. CASE SendAck(c)
    BY <1>2, AckEffect DEF SendAck
  <1>3. CASE HandleReport(c) \/ AcceptResult(c) \/ DropResult(c)
    BY <1>3, TakeEffect
  <1>4. CASE Disconnect(c)
    BY <1>4, DisconnectEffect
  <1>5. CASE ConnectReply(c)
    BY <1>5, ReplyEffect DEF ConnectReply
  <1>6. ASSUME NEW success \in BOOLEAN, WorkerWarm(c, success)
        PROVE  /\ toCoord'[d] = toCoord[d] /\ toWorker'[d] = toWorker[d] /\ cs'[d] = cs[d]
               /\ ack'[d] = ack[d] /\ client'[d] = client[d]
    BY <1>6, WarmEffect DEF WorkerWarm
  <1>7. CASE WorkerIgnore(c)
    BY <1>7, WorkerTakenFrames DEF WorkerIgnore
  <1>8. CASE WorkerClose(c)
    BY <1>8, CloseEffect DEF WorkerClose
  <1>9. ASSUME NEW w \in Workers, NEW b \in Boots, NEW obs \in HelloObservations,
               Connect(c, w, b, obs)
        PROVE  /\ toCoord'[d] = toCoord[d] /\ toWorker'[d] = toWorker[d] /\ cs'[d] = cs[d]
               /\ ack'[d] = ack[d] /\ client'[d] = client[d]
    <2>1. toCoord'[d] = toCoord[d] /\ client'[d] = client[d]
      BY <1>9, ConnectEffect
    <2>2. UNCHANGED <<toWorker, cs, ack>>
      BY <1>9 DEF Connect
    <2>3. QED
      BY <2>1, <2>2
  <1>10. ASSUME NEW obs \in Observations, WorkerReport(c, obs)
         PROVE  /\ toCoord'[d] = toCoord[d] /\ toWorker'[d] = toWorker[d] /\ cs'[d] = cs[d]
                /\ ack'[d] = ack[d] /\ client'[d] = client[d]
    BY <1>10, WorkerReportEffect DEF WorkerReport
  <1>11. QED
    BY <1>1, <1>2, <1>3, <1>4, <1>5, <1>6, <1>7, <1>8, <1>9, <1>10 DEF ConnThread, WorkerStep

\* A step of a caller of issue_warm, a bump or a roll touches no connection, but
\* for the WARM_TOPIC it sends.
CallerStep ==
    \/ \E o \in Objects, w \in Workers : IssueWarm(o, w)
    \/ \E u \in unsent : SendTopicFails(u)
    \/ BumpDependencyGeneration \/ BumpWarmthGeneration \/ RollEpoch

LEMMA CallersSame ==
    ASSUME CallerStep
    PROVE  UNCHANGED <<toCoord, toWorker, cs, ack, client, workers, last_boot, worker_objects>>
  BY DEF CallerStep, IssueWarm, SendTopicFails, BumpDependencyGeneration,
         BumpWarmthGeneration, RollEpoch, channels, registry

\* A step is about one connection, sends a WARM_TOPIC, or touches no connection.
LEMMA StepKinds ==
    ASSUME [Next]_vars
    PROVE  \/ \E c \in Conns : ConnThread(c)
           \/ \E c \in Conns : \/ WorkerStep(c) \/ WorkerClose(c)
                               \/ \E w \in Workers, b \in Boots, obs \in HelloObservations :
                                     Connect(c, w, b, obs)
                               \/ \E obs \in Observations : WorkerReport(c, obs)
           \/ \E u \in unsent : SendTopic(u)
           \/ CallerStep
           \/ UNCHANGED vars
  BY DEF Next, CallerStep

LEMMA ConnsStep ==
    ASSUME TypeOK, ClientsHaveBoots, ConnsInv, [Next]_vars
    PROVE  ConnsInv'
  <1> SUFFICES ASSUME NEW d \in Conns PROVE ConnInv(d)'
    BY DEF ConnsInv
  <1>0. ConnInv(d)
    BY DEF ConnsInv
  <1>1. ASSUME NEW c \in Conns, ConnThread(c) PROVE ConnInv(d)'
    BY <1>0, <1>1, ConnThreadStep, OthersSame, ConnSame
  <1>2. ASSUME NEW c \in Conns,
               \/ WorkerStep(c) \/ WorkerClose(c)
               \/ \E w \in Workers, b \in Boots, obs \in HelloObservations : Connect(c, w, b, obs)
               \/ \E obs \in Observations : WorkerReport(c, obs)
        PROVE  ConnInv(d)'
    BY <1>0, <1>2, ConnWorkerStep, OthersSame, ConnSame
  <1>3. ASSUME NEW u \in unsent, SendTopic(u) PROVE ConnInv(d)'
    <2>1. UNCHANGED <<toCoord, cs, ack, client>>
      BY <1>3 DEF SendTopic
    <2>2. PICK m \in TopicMsgs :
              /\ m.type = "WARM_TOPIC"
              /\ Frames(toWorker'[d]) \subseteq Frames(toWorker[d]) \cup {m}
              /\ ~Open(d) => toWorker'[d] = toWorker[d]
      BY <1>3, TopicEffect
    <2>3. EndsAgree(d)'
      BY <1>0, <2>1, <2>2 DEF ConnInv, EndsAgree, Open
    <2>4. \A x \in Frames(toCoord'[d]) : FromWorker(d, x)'
      BY <1>0, <2>1 DEF ConnInv, FromWorker, UnderClient
    <2>5. \A x \in Frames(toWorker'[d]) : FromCoordinator(d, x)'
      BY <1>0, <2>1, <2>2 DEF ConnInv, FromCoordinator
    <2>6. QED
      BY <2>3, <2>4, <2>5 DEF ConnInv
  <1>4. CASE CallerStep
    BY <1>0, <1>4, CallersSame, ConnSame
  <1>5. CASE UNCHANGED vars
    BY <1>0, <1>5, ConnSame DEF vars, channels
  <1>6. QED
    BY <1>1, <1>2, <1>3, <1>4, <1>5, StepKinds

LEMMA ConnsInit == Init => ConnsInv
  <1> SUFFICES ASSUME Init, NEW c \in Conns PROVE ConnInv(c)
    BY DEF ConnsInv
  <1>1. /\ client[c].status = "unused" /\ ~cs[c].registered /\ ack[c].verdict = "none"
        /\ toCoord[c] = <<>> /\ toWorker[c] = <<>>
    BY DEF Init, NoAck
  <1>2. QED
    BY <1>1, NoFrames DEF ConnInv, EndsAgree

\* The types, with what a frame of a worker needs, and the connections.
BaseInv == TypeOK /\ ClientsHaveBoots /\ AccountsInv /\ ConnsInv

LEMMA BaseAlways == Spec => []BaseInv
  <1>1. Init => TypeOK /\ ClientsHaveBoots /\ ConnsInv
    BY TypeInit, ConnsInit
  <1>2. /\ TypeOK /\ ClientsHaveBoots /\ ConnsInv /\ AccountsInv' /\ [Next]_vars
        => (TypeOK /\ ClientsHaveBoots /\ ConnsInv)'
    BY TypeStep, BootsStep, ConnsStep
  <1>3. QED
    BY <1>1, <1>2, AccountsAlways, PTL DEF Spec, BaseInv

\* What a step does to the registry.
LEMMA RegistryMoves ==
    ASSUME BaseInv, [Next]_vars
    PROVE  \/ UNCHANGED <<workers, last_boot, cs>>
           \/ \E c \in Conns : HandleHello(c) \/ Disconnect(c)
  <1>1. ASSUME NEW c \in Conns, ConnThread(c)
        PROVE  UNCHANGED <<workers, last_boot, cs>> \/ HandleHello(c) \/ Disconnect(c)
    BY <1>1 DEF ConnThread, SendAck, HandleReport, AcceptResult, DropResult, registry
  <1>2. ASSUME NEW c \in Conns,
               \/ WorkerStep(c) \/ WorkerClose(c)
               \/ \E w \in Workers, b \in Boots, obs \in HelloObservations : Connect(c, w, b, obs)
               \/ \E obs \in Observations : WorkerReport(c, obs)
        PROVE  UNCHANGED <<workers, last_boot, cs>>
    BY <1>2 DEF WorkerStep, ConnectReply, WorkerWarm, WorkerIgnore, WorkerClose, Connect,
                WorkerReport, registry
  <1>3. ASSUME NEW u \in unsent, SendTopic(u) PROVE UNCHANGED <<workers, last_boot, cs>>
    BY <1>3 DEF SendTopic, registry
  <1>4. QED
    BY <1>1, <1>2, <1>3, StepKinds, CallersSame DEF vars, registry

LEMMA RegistryFields ==
    ASSUME TypeOK
    PROVE  /\ workers \in [Workers -> Conns \cup {NoConn}]
           /\ last_boot \in [Workers -> Boots \cup {NoBoot}]
           /\ worker_objects \in [Workers -> SUBSET Objects]
           /\ cs \in [Conns -> ConnStates]
  BY DEF TypeOK, RegistryType

\* HELLO, in terms of the registry: c was not registered and speaks for its own end.
LEMMA HelloRegisters ==
    ASSUME BaseInv, NEW c \in Conns, HandleHello(c)
    PROVE  \/ UNCHANGED <<workers, last_boot, cs>> /\ UNCHANGED <<objects, voucher, worker_objects>>
           \/ \E w \in Workers, b \in Boots :
                 /\ w = client[c].worker /\ b = client[c].boot /\ ~cs[c].registered
                 /\ w = Head(toCoord[c]).worker /\ b = Head(toCoord[c]).boot
                 /\ workers[w] # NoConn => cs[workers[w]].boot = b
                 /\ last_boot' = [last_boot EXCEPT ![w] = b]
                 /\ workers' = [workers EXCEPT ![w] = c]
                 /\ cs'[c] = [registered |-> TRUE, id |-> w, boot |-> b]
                 /\ \A d \in Conns \ {c} : cs'[d] = cs[d]
  <1>1. TypeOK /\ ConnInv(c)
    BY DEF BaseInv, ConnsInv
  <1>2. PICK m \in HelloMsgs :
              /\ m \in Frames(toCoord[c]) /\ m.type = "HELLO" /\ m = Head(toCoord[c])
              /\ \/ UNCHANGED <<objects, registry, cs, voucher>>
                 \/ /\ ~HelloRejected(m)
                    /\ last_boot' = [last_boot EXCEPT ![m.worker] = m.boot]
                    /\ workers' = [workers EXCEPT ![m.worker] = c]
                    /\ cs' = [cs EXCEPT ![c] = [registered |-> TRUE, id |-> m.worker,
                                                boot |-> m.boot]]
    BY <1>1, HelloEffect
  <1>3. /\ ~cs[c].registered /\ m.worker = client[c].worker /\ m.boot = client[c].boot
    BY <1>1, <1>2 DEF ConnInv, FromWorker, UnderClient
  <1>4. m.worker \in Workers /\ m.boot \in Boots
    BY DEF HelloMsgs
  <1>5. CASE UNCHANGED <<objects, registry, cs, voucher>>
    BY <1>5 DEF registry
  <1>6. CASE /\ ~HelloRejected(m)
             /\ last_boot' = [last_boot EXCEPT ![m.worker] = m.boot]
             /\ workers' = [workers EXCEPT ![m.worker] = c]
             /\ cs' = [cs EXCEPT ![c] = [registered |-> TRUE, id |-> m.worker,
                                         boot |-> m.boot]]
    <2>1. cs'[c] = [registered |-> TRUE, id |-> m.worker, boot |-> m.boot]
          /\ \A d \in Conns \ {c} : cs'[d] = cs[d]
      BY <1>1, <1>6, RegistryFields
    <2>2. workers[m.worker] # NoConn => cs[workers[m.worker]].boot = m.boot
      BY <1>6 DEF HelloRejected
    <2>3. QED
      BY <1>2, <1>3, <1>4, <1>6, <2>1, <2>2
  <1>7. QED
    BY <1>2, <1>5, <1>6

\* A registered worker is the one its connection's ConnState names, under its
\* latest boot.
RegisteredAs(w) ==
    workers[w] # NoConn =>
        /\ cs[workers[w]].registered
        /\ cs[workers[w]].id = w
        /\ cs[workers[w]].boot = last_boot[w]

LEMMA RegistryStep ==
    ASSUME BaseInv, RegistryIsLatestBoot, [Next]_vars
    PROVE  RegistryIsLatestBoot'
  <1> SUFFICES ASSUME NEW v \in Workers PROVE RegisteredAs(v)'
    BY DEF RegistryIsLatestBoot, RegisteredAs
  <1>0. RegisteredAs(v) /\ TypeOK
    BY DEF RegistryIsLatestBoot, RegisteredAs, BaseInv
  <1>00. workers[v] \in Conns \cup {NoConn}
    BY <1>0, RegistryFields
  <1>1. CASE UNCHANGED <<workers, last_boot, cs>>
    BY <1>0, <1>1 DEF RegisteredAs
  <1>2. ASSUME NEW c \in Conns, HandleHello(c) PROVE RegisteredAs(v)'
    <2>1. SUFFICES ASSUME NEW w \in Workers, NEW b \in Boots, ~cs[c].registered,
                    last_boot' = [last_boot EXCEPT ![w] = b],
                    workers' = [workers EXCEPT ![w] = c],
                    cs'[c] = [registered |-> TRUE, id |-> w, boot |-> b],
                    \A d \in Conns \ {c} : cs'[d] = cs[d]
             PROVE  RegisteredAs(v)'
      BY <1>1, <1>2, HelloRegisters
    <2>2. CASE v = w
      <3>1. workers'[v] = c /\ last_boot'[v] = b
        BY <1>0, <2>1, <2>2, RegistryFields
      <3>2. QED
        BY <2>1, <2>2, <3>1 DEF RegisteredAs
    <2>3. CASE v # w
      <3>1. workers'[v] = workers[v] /\ last_boot'[v] = last_boot[v]
        BY <1>0, <2>1, <2>3, RegistryFields
      <3>2. workers[v] # NoConn => workers[v] \in Conns \ {c}
        BY <1>0, <1>00, <2>1 DEF RegisteredAs
      <3>3. QED
        BY <1>0, <2>1, <3>1, <3>2 DEF RegisteredAs
    <2>4. QED
      BY <2>2, <2>3
  <1>3. ASSUME NEW c \in Conns, Disconnect(c) PROVE RegisteredAs(v)'
    <2>1. workers' = [workers EXCEPT ![cs[c].id] = Unregistered(cs[c].id, c)]
      BY <1>3 DEF Disconnect
    <2>2. /\ \A d \in Conns \ {c} : cs'[d] = cs[d]
          /\ UNCHANGED last_boot
      BY <1>0, <1>3, DisconnectEffect
    <2>3. workers'[v] = workers[v] \/ workers'[v] = NoConn
      BY <1>0, <2>1, RegistryFields DEF Unregistered
    <2>4. workers[v] = c => workers'[v] = NoConn
      <3>1. SUFFICES ASSUME workers[v] = c PROVE workers'[v] = NoConn
        OBVIOUS
      <3>2. cs[c].id = v
        BY <1>0, <3>1, SentinelAssumption DEF RegisteredAs
      <3>3. QED
        BY <1>0, <2>1, <3>1, <3>2, RegistryFields DEF Unregistered
    <2>5. QED
      BY <1>0, <1>00, <2>2, <2>3, <2>4 DEF RegisteredAs
  <1>4. QED
    BY <1>1, <1>2, <1>3, RegistryMoves

LEMMA RegistryAlways == Spec => [](BaseInv /\ RegistryIsLatestBoot)
  <1>1. Init => RegistryIsLatestBoot
    BY DEF Init, RegistryIsLatestBoot
  <1>2. BaseInv /\ RegistryIsLatestBoot /\ [Next]_vars => RegistryIsLatestBoot'
    BY RegistryStep
  <1>3. QED
    BY <1>1, <1>2, BaseAlways, PTL DEF Spec

\* The registered connection of a worker is the one of its latest boot and its
\* ConnState says so, however HELLOs, disconnects and connections of the same boot
\* overtake each other.
THEOREM RegistryIsLatestBootHolds == Spec => []RegistryIsLatestBoot
  BY RegistryAlways, PTL

---------------------------------------------------------------------------
(* A success that is settled.  Only the thread of a connection takes a frame of
   it, so the step the property is about is AcceptResult. *)

LEMMA TailDiffers ==
    ASSUME NEW S, NEW s \in Seq(S), s # <<>>
    PROVE  Tail(s) # s
  <1>1. Len(s) \in Nat /\ Len(Tail(s)) = Len(s) - 1
    OBVIOUS
  <1>2. \A n \in Nat : n - 1 # n
    OBVIOUS
  <1>3. QED
    BY <1>1, <1>2, Zenon

\* A successful result that settles an attempt leaves its object execution-ready
\* whatever happened to the object since the attempt was issued: lost worker, new
\* report, failure, or nothing known of it at all.
THEOREM SettledSuccessIsReadyHolds == Spec => SettledSuccessIsReady
  <1> DEFINE Settled(c) ==
                /\ toCoord[c] # <<>> /\ Head(toCoord[c]).type = "WARM_RESULT"
                /\ Head(toCoord[c]).success
                /\ toCoord'[c] = Tail(toCoord[c]) /\ in_flight' # in_flight
  <1>1. ASSUME BaseInv, [Next]_vars, NEW c \in Conns, Settled(c)
        PROVE  is_execution_ready(objects'[Head(toCoord[c]).object].state)
    <2>1. TypeOK
      BY <1>1 DEF BaseInv
    <2>2. toCoord'[c] # toCoord[c]
      BY <1>1, <2>1, ChannelTypes, TailDiffers
    <2> DEFINE goal == is_execution_ready(objects'[Head(toCoord[c]).object].state)
    <2>3. ASSUME NEW d \in Conns, ConnThread(d) PROVE goal
      <3>1. d = c
        BY <1>1, <2>1, <2>2, <2>3, OthersSame DEF BaseInv
      <3>2. AcceptResult(c)
        BY <1>1, <2>3, <3>1
        DEF ConnThread, HandleHello, SendAck, HandleReport, DropResult, Disconnect, accounts
      <3>3. Head(toCoord[c]) \in ResultMsgs
        BY <2>1, <3>2, FrameTaken DEF AcceptResult
      <3>4. Head(toCoord[c]).object \in Objects
        BY <3>3 DEF ResultMsgs
      <3>5. objects \in [Objects -> ObjectRecords]
        BY <2>1 DEF TypeOK, ViewType
      <3>6. objects' = [objects EXCEPT ![Head(toCoord[c]).object] = Warmed(@)]
        BY <1>1, <3>2 DEF AcceptResult
      <3>7. objects'[Head(toCoord[c]).object] = Warmed(objects[Head(toCoord[c]).object])
        BY <3>4, <3>5, <3>6
      <3>8. QED
        BY <3>4, <3>5, <3>7, WarmedType
    <2>4. ASSUME NEW d \in Conns,
               \/ WorkerStep(d) \/ WorkerClose(d)
               \/ \E w \in Workers, b \in Boots, obs \in HelloObservations : Connect(d, w, b, obs)
               \/ \E obs \in Observations : WorkerReport(d, obs)
          PROVE goal
      <3>1. UNCHANGED in_flight
        BY <2>4 DEF WorkerStep, ConnectReply, WorkerWarm, WorkerIgnore, WorkerClose, Connect,
                    WorkerReport, accounts
      <3>2. QED
        BY <1>1, <3>1
    <2>5. ASSUME NEW u \in unsent, SendTopic(u) PROVE goal
      BY <1>1, <2>5 DEF SendTopic, accounts
    <2>6. CASE CallerStep
      BY <2>2, <2>6, CallersSame
    <2>7. CASE UNCHANGED vars
      BY <2>2, <2>7 DEF vars, channels
    <2>8. QED
      BY <1>1, <2>3, <2>4, <2>5, <2>6, <2>7, StepKinds
  <1>2. BaseInv /\ [Next]_vars =>
           [\A c \in Conns :
               /\ toCoord[c] # <<>> /\ Head(toCoord[c]).type = "WARM_RESULT"
               /\ Head(toCoord[c]).success
               /\ toCoord'[c] = Tail(toCoord[c]) /\ in_flight' # in_flight
               => is_execution_ready(objects'[Head(toCoord[c]).object].state)]_vars
    BY <1>1
  <1>3. QED
    BY <1>2, BaseAlways, PTL DEF Spec, SettledSuccessIsReady

---------------------------------------------------------------------------
(* Registrations that rest on one connection.  Where a boot opens one connection
   only, as a worker process does, the registered connections are exactly the ones
   workers_ names. *)

DistinctBoots ==
    \A c, d \in Conns : /\ client[c].status # "unused" /\ client[d].status # "unused"
                        /\ client[c].worker = client[d].worker
                        /\ client[c].boot = client[d].boot
                        => c = d

SoleRegistration == \A c \in Conns : cs[c].registered => workers[cs[c].id] = c

\* The worker and the boot of a connection are those it was opened with.
LEMMA ClientKeeps ==
    ASSUME BaseInv, [Next]_vars, NEW c \in Conns
    PROVE  \/ /\ client'[c].worker = client[c].worker /\ client'[c].boot = client[c].boot
              /\ client'[c].status = "unused" <=> client[c].status = "unused"
           \/ \E w \in Workers, b \in Boots, obs \in HelloObservations : Connect(c, w, b, obs)
  <1>0. TypeOK /\ ClientsHaveBoots
    BY DEF BaseInv
  <1>1. ASSUME NEW d \in Conns, ConnThread(d) PROVE UNCHANGED client
    BY <1>1 DEF ConnThread, HandleHello, SendAck, HandleReport, AcceptResult, DropResult,
                Disconnect
  <1>2. ASSUME NEW d \in Conns,
               \/ WorkerStep(d) \/ WorkerClose(d)
               \/ \E w \in Workers, b \in Boots, obs \in HelloObservations : Connect(d, w, b, obs)
               \/ \E obs \in Observations : WorkerReport(d, obs)
        PROVE  \/ /\ client'[c].worker = client[c].worker /\ client'[c].boot = client[c].boot
                  /\ client'[c].status = "unused" <=> client[c].status = "unused"
               \/ \E w \in Workers, b \in Boots, obs \in HelloObservations : Connect(c, w, b, obs)
    <2>1. CASE d # c
      BY <1>0, <1>2, <2>1, OthersSame
    <2>2. CASE ConnectReply(c)
      BY <1>0, <2>2, ReplyEffect
    <2>3. CASE WorkerClose(c)
      BY <1>0, <2>3, CloseEffect DEF Open
    <2>4. CASE \/ \E success \in BOOLEAN : WorkerWarm(c, success)
               \/ WorkerIgnore(c) \/ \E obs \in Observations : WorkerReport(c, obs)
      BY <2>4 DEF WorkerWarm, WorkerIgnore, WorkerReport
    <2>5. QED
      BY <1>2, <2>1, <2>2, <2>3, <2>4 DEF WorkerStep
  <1>3. ASSUME NEW u \in unsent, SendTopic(u) PROVE UNCHANGED client
    BY <1>3 DEF SendTopic
  <1>4. QED
    BY <1>1, <1>2, <1>3, StepKinds, CallersSame DEF vars

LEMMA DistinctStep ==
    ASSUME ~ReconnectSameBoot, BaseInv, DistinctBoots, [Next]_vars
    PROVE  DistinctBoots'
  <1>1. ASSUME NEW c \in Conns, NEW w \in Workers, NEW b \in Boots, NEW obs \in HelloObservations,
               Connect(c, w, b, obs)
        PROVE  DistinctBoots'
    <2>1. client'[c].worker = w /\ client'[c].boot = b
          /\ \A d \in Conns \ {c} : client'[d] = client[d]
      BY <1>1, ConnectEffect DEF BaseInv
    <2>2. \A d \in Conns : client[d].worker # w \/ client[d].boot # b
      BY <1>1 DEF Connect
    <2>3. ASSUME NEW d \in Conns, NEW e \in Conns,
                 client'[d].status # "unused", client'[e].status # "unused",
                 client'[d].worker = client'[e].worker, client'[d].boot = client'[e].boot
          PROVE  d = e
      BY <2>1, <2>2, <2>3 DEF DistinctBoots
    <2>4. QED
      BY <2>3 DEF DistinctBoots
  <1>2. CASE \A c \in Conns : /\ client'[c].worker = client[c].worker
                              /\ client'[c].boot = client[c].boot
                              /\ client'[c].status = "unused" <=> client[c].status = "unused"
    BY <1>2 DEF DistinctBoots
  <1>3. QED
    BY <1>1, <1>2, ClientKeeps

LEMMA SoleStep ==
    ASSUME BaseInv, RegistryIsLatestBoot, DistinctBoots, SoleRegistration, [Next]_vars
    PROVE  SoleRegistration'
  <1>0. TypeOK /\ ConnsInv
    BY DEF BaseInv
  <1>1. CASE UNCHANGED <<workers, last_boot, cs>>
    BY <1>1 DEF SoleRegistration
  <1>2. ASSUME NEW c \in Conns, HandleHello(c) PROVE SoleRegistration'
    <2>1. SUFFICES ASSUME NEW w \in Workers, NEW b \in Boots,
                    w = client[c].worker, b = client[c].boot,
                    ~cs[c].registered,
                    workers[w] # NoConn => cs[workers[w]].boot = b,
                    workers' = [workers EXCEPT ![w] = c],
                    cs'[c] = [registered |-> TRUE, id |-> w, boot |-> b],
                    \A d \in Conns \ {c} : cs'[d] = cs[d]
             PROVE  SoleRegistration'
      BY <1>1, <1>2, HelloRegisters
    <2>2. workers'[w] = c /\ \A v \in Workers \ {w} : workers'[v] = workers[v]
      BY <1>0, <2>1, RegistryFields
    <2>3. client[c].status # "unused"
      <3>1. toCoord[c] # <<>>
        BY <1>2 DEF HandleHello, Receives
      <3>2. QED
        BY <1>0, <3>1 DEF ConnsInv, ConnInv, EndsAgree
    <2>4. ASSUME NEW d \in Conns \ {c}, cs[d].registered PROVE workers'[cs[d].id] = d
      <3>1. /\ cs[d].id = client[d].worker /\ cs[d].boot = client[d].boot
            /\ client[d].status # "unused" /\ client[d].worker \in Workers
        BY <1>0, <2>4 DEF ConnsInv, ConnInv, EndsAgree
      <3>2. workers[cs[d].id] = d
        BY <2>4 DEF SoleRegistration
      <3>3. d # NoConn
        BY SentinelAssumption
      <3>4. cs[d].id # w
        BY <2>1, <2>3, <3>1, <3>2, <3>3 DEF DistinctBoots
      <3>5. QED
        BY <2>2, <3>1, <3>2, <3>4
    <2>5. QED
      BY <2>1, <2>2, <2>4 DEF SoleRegistration
  <1>3. ASSUME NEW c \in Conns, Disconnect(c) PROVE SoleRegistration'
    <2>1. workers' = [workers EXCEPT ![cs[c].id] = Unregistered(cs[c].id, c)]
      BY <1>3 DEF Disconnect
    <2>2. /\ cs[c].registered /\ cs'[c].registered = FALSE
          /\ \A d \in Conns \ {c} : cs'[d] = cs[d]
      BY <1>0, <1>3, DisconnectEffect
    <2>3. ASSUME NEW d \in Conns \ {c}, cs[d].registered PROVE workers'[cs[d].id] = d
      <3>1. workers[cs[d].id] = d /\ workers[cs[c].id] = c
        BY <2>2, <2>3 DEF SoleRegistration
      <3>2. QED
        BY <1>0, <2>1, <3>1, RegistryFields
    <2>4. QED
      BY <2>2, <2>3 DEF SoleRegistration
  <1>4. QED
    BY <1>1, <1>2, <1>3, RegistryMoves

---------------------------------------------------------------------------
(* Backing.  That an object loses its readiness and its dimensions with its worker
   needs that worker_objects_ has it under that worker. *)

Backed(a, o) == Live(a) /\ o \in worker_objects[a.worker]

\* HELLO, in terms of objects_ and worker_objects_.
LEMMA HelloView ==
    ASSUME TypeOK, NEW c \in Conns, HandleHello(c)
    PROVE  \/ UNCHANGED <<workers, last_boot, cs>> /\ UNCHANGED <<objects, voucher, worker_objects>>
           \/ LET w == Head(toCoord[c]).worker
                  b == Head(toCoord[c]).boot
              IN  /\ w \in Workers /\ b \in Boots
                  /\ \A v \in Workers \ {w} : worker_objects'[v] = worker_objects[v]
                  /\ last_boot[w] = b => worker_objects[w] \subseteq worker_objects'[w]
                  /\ \A o \in Objects :
                        \/ /\ objects'[o] \in {objects[o], Revoked(objects[o])}
                           /\ voucher'[o] = voucher[o]
                        \/ /\ \E obs \in Observations : objects'[o] = Discovered(obs)
                           /\ voucher'[o] = [worker |-> w, boot |-> b, epoch |-> epoch]
                           /\ o \in worker_objects'[w]
  <1> DEFINE m == Head(toCoord[c])
             w == m.worker
             bootChanged == last_boot[w] # NoBoot /\ last_boot[w] # m.boot
             kept == [o \in Objects |->
                         IF bootChanged /\ o \in worker_objects[w] /\ objects[o].state # "ABSENT"
                         THEN Revoked(objects[o])
                         ELSE objects[o]]
             fresh == {obs \in m.observed : kept[obs.object].state = "ABSENT"}
  <1>1. m \in HelloMsgs
    BY FrameTaken DEF HandleHello
  <1>2. w \in Workers /\ m.boot \in Boots /\ m.observed \in SUBSET Observations
    BY <1>1 DEF HelloMsgs
  <1>3. \/ UNCHANGED <<objects, registry, cs, voucher>>
        \/ /\ objects' = [o \in Objects |->
                 IF \E obs \in fresh : obs.object = o
                 THEN Discovered(CHOOSE obs \in fresh : obs.object = o)
                 ELSE kept[o]]
           /\ worker_objects' = [worker_objects EXCEPT ![w] =
                 (IF bootChanged THEN {} ELSE @) \cup {obs.object : obs \in m.observed}]
           /\ voucher' = [o \in Objects |->
                 IF \E obs \in fresh : obs.object = o
                 THEN [worker |-> w, boot |-> m.boot, epoch |-> epoch]
                 ELSE voucher[o]]
    BY DEF HandleHello
  <1>4. CASE UNCHANGED <<objects, registry, cs, voucher>>
    BY <1>4 DEF registry
  <1>5. CASE /\ objects' = [o \in Objects |->
                   IF \E obs \in fresh : obs.object = o
                   THEN Discovered(CHOOSE obs \in fresh : obs.object = o)
                   ELSE kept[o]]
             /\ worker_objects' = [worker_objects EXCEPT ![w] =
                   (IF bootChanged THEN {} ELSE @) \cup {obs.object : obs \in m.observed}]
             /\ voucher' = [o \in Objects |->
                   IF \E obs \in fresh : obs.object = o
                   THEN [worker |-> w, boot |-> m.boot, epoch |-> epoch]
                   ELSE voucher[o]]
    <2>1. \A o \in Objects : kept[o] \in {objects[o], Revoked(objects[o])}
      OBVIOUS
    <2>2. fresh \subseteq m.observed
      OBVIOUS
    <2>3. last_boot[w] = m.boot => ~bootChanged
      OBVIOUS
    <2> HIDE DEF kept, fresh, bootChanged, m
    <2>4. worker_objects \in [Workers -> SUBSET Objects]
      BY RegistryFields
    <2>5. /\ \A v \in Workers \ {w} : worker_objects'[v] = worker_objects[v]
          /\ worker_objects'[w] = (IF bootChanged THEN {} ELSE worker_objects[w])
                                     \cup {obs.object : obs \in m.observed}
      BY <1>2, <1>5, <2>4
    <2>6. ASSUME NEW o \in Objects
          PROVE  \/ /\ objects'[o] \in {objects[o], Revoked(objects[o])}
                    /\ voucher'[o] = voucher[o]
                 \/ /\ \E obs \in Observations : objects'[o] = Discovered(obs)
                    /\ voucher'[o] = [worker |-> w, boot |-> m.boot, epoch |-> epoch]
                    /\ o \in worker_objects'[w]
      <3>1. CASE \E obs \in fresh : obs.object = o
        <4>1. PICK obs \in fresh : obs.object = o /\ objects'[o] = Discovered(obs)
          BY <1>5, <3>1
        <4>2. voucher'[o] = [worker |-> w, boot |-> m.boot, epoch |-> epoch]
          BY <1>5, <3>1
        <4>3. obs \in m.observed /\ obs \in Observations
          BY <1>2, <2>2
        <4>4. o \in worker_objects'[w]
          BY <2>5, <4>1, <4>3
        <4>5. QED
          BY <4>1, <4>2, <4>3, <4>4
      <3>2. CASE ~\E obs \in fresh : obs.object = o
        BY <1>5, <2>1, <3>2
      <3>3. QED
        BY <3>1, <3>2
    <2>7. last_boot[w] = m.boot => worker_objects[w] \subseteq worker_objects'[w]
      BY <2>3, <2>5
    <2>8. QED
      BY <1>2, <2>5, <2>6, <2>7 DEF m
  <1>6. QED
    BY <1>3, <1>4, <1>5

\* A worker process that backs objects goes on doing so, unless it is disconnected.
LEMMA BackingStays ==
    ASSUME BaseInv, RegistryIsLatestBoot, [Next]_vars, NEW a, Live(a)
    PROVE  \/ Live(a)' /\ worker_objects[a.worker] \subseteq worker_objects'[a.worker]
           \/ \E c \in Conns : Disconnect(c) /\ cs[c].id = a.worker
  <1>0. TypeOK /\ a.worker \in Workers /\ RegisteredAs(a.worker) /\ workers[a.worker] \in Conns
        /\ cs[workers[a.worker]].boot = a.boot
    BY RegistryFields DEF BaseInv, Live, RegistryIsLatestBoot, RegisteredAs
  <1>1. ASSUME UNCHANGED <<workers, cs>>,
               worker_objects[a.worker] \subseteq worker_objects'[a.worker]
        PROVE  Live(a)' /\ worker_objects[a.worker] \subseteq worker_objects'[a.worker]
    BY <1>1 DEF Live
  <1>2. ASSUME NEW c \in Conns, HandleHello(c)
        PROVE  Live(a)' /\ worker_objects[a.worker] \subseteq worker_objects'[a.worker]
    <2> DEFINE w == Head(toCoord[c]).worker
               b == Head(toCoord[c]).boot
    <2>1. CASE UNCHANGED <<workers, cs, worker_objects>>
      BY <1>1, <2>1
    <2>2. CASE /\ w \in Workers /\ ~cs[c].registered
               /\ workers[w] # NoConn => cs[workers[w]].boot = b
               /\ workers' = [workers EXCEPT ![w] = c]
               /\ cs'[c] = [registered |-> TRUE, id |-> w, boot |-> b]
               /\ \A d \in Conns \ {c} : cs'[d] = cs[d]
      <3>1. workers'[w] = c /\ \A v \in Workers \ {w} : workers'[v] = workers[v]
        BY <1>0, <2>2, RegistryFields
      <3>2. c # NoConn /\ a.worker \in Workers
        BY <1>0, SentinelAssumption
      <3>3. CASE a.worker = w
        <4>1. a.boot = b /\ last_boot[w] = b
          BY <1>0, <2>2, <3>3, SentinelAssumption DEF RegisteredAs
        <4>2. worker_objects[w] \subseteq worker_objects'[w]
          BY <1>0, <1>2, <4>1, HelloView
        <4>3. cs'[c].boot = b
          BY <2>2
        <4>4. QED
          BY <3>1, <3>2, <3>3, <4>1, <4>2, <4>3 DEF Live
      <3>4. CASE a.worker # w
        <4>1. workers[a.worker] \in Conns \ {c}
          BY <1>0, <2>2, SentinelAssumption DEF RegisteredAs
        <4>2. worker_objects'[a.worker] = worker_objects[a.worker]
          BY <1>0, <1>2, <3>4, HelloView
        <4>3. workers'[a.worker] = workers[a.worker]
              /\ cs'[workers[a.worker]] = cs[workers[a.worker]]
          BY <1>0, <2>2, <3>1, <3>4, <4>1
        <4>4. QED
          BY <1>0, <4>1, <4>2, <4>3, SentinelAssumption DEF Live
      <3>5. QED
        BY <3>3, <3>4
    <2>3. QED
      BY <1>2, <2>1, <2>2, HelloRegisters
  <1>3. ASSUME NEW c \in Conns, Disconnect(c), cs[c].id # a.worker
        PROVE  Live(a)' /\ worker_objects[a.worker] \subseteq worker_objects'[a.worker]
    <2>1. workers' = [workers EXCEPT ![cs[c].id] = Unregistered(cs[c].id, c)]
          /\ worker_objects' = worker_objects
      BY <1>3 DEF Disconnect
    <2>2. \A d \in Conns \ {c} : cs'[d] = cs[d]
      BY <1>0, <1>3, DisconnectEffect
    <2>3. workers'[a.worker] = workers[a.worker]
      BY <1>0, <1>3, <2>1, RegistryFields
    <2>4. workers[a.worker] # c
      BY <1>0, <1>3, SentinelAssumption DEF RegisteredAs
    <2>5. QED
      BY <1>0, <2>1, <2>2, <2>3, <2>4, SentinelAssumption DEF Live
  <1>4. ASSUME NEW c \in Conns, HandleReport(c) \/ AcceptResult(c)
        PROVE  Live(a)' /\ worker_objects[a.worker] \subseteq worker_objects'[a.worker]
    <2>1. UNCHANGED <<workers, cs>>
      BY <1>4 DEF HandleReport, AcceptResult
    <2>2. \/ UNCHANGED worker_objects
          \/ \E o : worker_objects' = [worker_objects EXCEPT ![cs[c].id] = @ \cup {o}]
      BY <1>4 DEF HandleReport, AcceptResult
    <2>3. worker_objects[a.worker] \subseteq worker_objects'[a.worker]
      BY <1>0, <2>2, RegistryFields
    <2>4. QED
      BY <1>1, <2>1, <2>3
  <1>5. ASSUME NEW c \in Conns, SendAck(c) \/ DropResult(c)
        PROVE  Live(a)' /\ worker_objects[a.worker] \subseteq worker_objects'[a.worker]
    BY <1>1, <1>5 DEF SendAck, DropResult, registry
  <1>6. ASSUME NEW c \in Conns,
               \/ WorkerStep(c) \/ WorkerClose(c)
               \/ \E w \in Workers, b \in Boots, obs \in HelloObservations : Connect(c, w, b, obs)
               \/ \E obs \in Observations : WorkerReport(c, obs)
        PROVE  Live(a)' /\ worker_objects[a.worker] \subseteq worker_objects'[a.worker]
    <2>1. UNCHANGED <<workers, cs, worker_objects>>
      BY <1>6 DEF WorkerStep, ConnectReply, WorkerWarm, WorkerIgnore, WorkerClose, Connect,
                  WorkerReport, registry
    <2>2. QED
      BY <1>1, <2>1
  <1>7. ASSUME NEW u \in unsent, SendTopic(u)
        PROVE  Live(a)' /\ worker_objects[a.worker] \subseteq worker_objects'[a.worker]
    BY <1>1, <1>7 DEF SendTopic, registry
  <1>8. CASE CallerStep \/ UNCHANGED vars
    <2>1. UNCHANGED <<workers, cs, worker_objects>>
      BY <1>8, CallersSame DEF vars, registry
    <2>2. QED
      BY <1>1, <2>1
  <1>9. QED
    BY <1>2, <1>3, <1>4, <1>5, <1>6, <1>7, <1>8, StepKinds DEF ConnThread

\* What the coordinator writes under the authority of a connection is backed by it.
LEMMA SpeakerIsLive ==
    ASSUME BaseInv, SoleRegistration, NEW c \in Conns, cs[c].registered,
           UNCHANGED <<workers, cs>>,
           NEW a, a.worker = cs[c].id, a.boot = cs[c].boot
    PROVE  cs[c].id \in Workers /\ Live(a)'
  <1>1. ConnInv(c)
    BY DEF BaseInv, ConnsInv
  <1>2. cs[c].id \in Workers
    BY <1>1 DEF ConnInv, EndsAgree
  <1>3. workers[cs[c].id] = c /\ c # NoConn
    BY SentinelAssumption DEF SoleRegistration
  <1>4. QED
    BY <1>2, <1>3 DEF Live

RegistryInv ==
    BaseInv /\ RegistryIsLatestBoot /\ DistinctBoots /\ SoleRegistration

LEMMA RegistryInvAlways ==
    ASSUME ~ReconnectSameBoot
    PROVE  Spec => []RegistryInv
  <1>1. Init => DistinctBoots /\ SoleRegistration
    BY DEF Init, DistinctBoots, SoleRegistration
  <1>2. /\ BaseInv /\ RegistryIsLatestBoot /\ DistinctBoots /\ SoleRegistration /\ [Next]_vars
        => (DistinctBoots /\ SoleRegistration)'
    BY DistinctStep, SoleStep
  <1>3. QED
    BY <1>1, <1>2, RegistryAlways, PTL DEF Spec, RegistryInv

\* A disconnect orphans what its worker holds.
LEMMA DisconnectOrphans ==
    ASSUME NEW c \in Conns, Disconnect(c), NEW o \in Objects, o \in worker_objects[cs[c].id],
           objects[o].state # "ABSENT"
    PROVE  objects'[o] = Orphaned(objects[o])
  BY DEF Disconnect

ReadyIsBacked == \A o \in Objects : Ready(o) => Backed(author[o], o)

\* Outside AcceptResult an object is execution-ready only if it was.
LEMMA ReadyKept ==
    ASSUME "HOT" \notin ObservedStates, TypeOK, [Next]_vars, \A c \in Conns : ~AcceptResult(c),
           NEW o \in Objects, Ready(o)'
    PROVE  Ready(o) /\ author'[o] = author[o]
  <1>1. UNCHANGED <<objects, author>> \/ UNCHANGED in_flight \/ RollEpoch
    <2>1. ASSUME NEW c \in Conns, ConnThread(c) PROVE UNCHANGED in_flight
      BY <2>1 DEF ConnThread, HandleHello, SendAck, HandleReport, DropResult, Disconnect, accounts
    <2>2. ASSUME NEW c \in Conns,
                 \/ WorkerStep(c) \/ WorkerClose(c)
                 \/ \E w \in Workers, b \in Boots, obs \in HelloObservations : Connect(c, w, b, obs)
                 \/ \E obs \in Observations : WorkerReport(c, obs)
          PROVE  UNCHANGED in_flight
      BY <2>2 DEF WorkerStep, ConnectReply, WorkerWarm, WorkerIgnore, WorkerClose, Connect,
                  WorkerReport, accounts
    <2>3. ASSUME NEW u \in unsent, SendTopic(u) PROVE UNCHANGED in_flight
      BY <2>3 DEF SendTopic, accounts
    <2>4. CASE CallerStep
      BY <2>4 DEF CallerStep, IssueWarm, SendTopicFails, BumpDependencyGeneration,
                  BumpWarmthGeneration, history
    <2>5. CASE UNCHANGED vars
      BY <2>5 DEF vars, accounts
    <2>6. QED
      BY <2>1, <2>2, <2>3, <2>4, <2>5, StepKinds
  <1>2. CASE UNCHANGED <<objects, author>>
    BY <1>2 DEF Ready
  <1>3. CASE UNCHANGED in_flight
    BY <1>3, ReadinessStep DEF SettlesAttemptFor
  <1>4. CASE RollEpoch
    <2>1. epoch' = epoch + 1 /\ epoch \in Nat
      BY <1>4 DEF RollEpoch, TypeOK, AuthorityType
    <2>2. epoch' = epoch
      BY ReadinessStep
    <2>3. QED
      BY <2>1, <2>2
  <1>5. QED
    BY <1>1, <1>2, <1>3, <1>4

LEMMA ReadyBackedStep ==
    ASSUME "HOT" \notin ObservedStates, RegistryInv, ReadyIsBacked, [Next]_vars
    PROVE  ReadyIsBacked'
  <1> SUFFICES ASSUME NEW o \in Objects, Ready(o)' PROVE Backed(author[o], o)'
    BY DEF ReadyIsBacked
  <1>0. /\ BaseInv /\ RegistryIsLatestBoot /\ SoleRegistration /\ TypeOK
        /\ objects[o] \in ObjectRecords
    BY DEF RegistryInv, BaseInv, TypeOK, ViewType
  <1>1. ASSUME Ready(o), author'[o] = author[o] PROVE Backed(author[o], o)'
    <2> DEFINE a == author[o]
    <2>1. Live(a) /\ o \in worker_objects[a.worker]
      BY <1>1 DEF ReadyIsBacked, Backed
    <2>2. CASE \E c \in Conns : Disconnect(c) /\ cs[c].id = a.worker
      <3>1. PICK c \in Conns : Disconnect(c) /\ cs[c].id = a.worker
        BY <2>2
      <3>2. objects[o].state # "ABSENT"
        BY <1>1 DEF Ready, is_execution_ready
      <3>3. objects'[o] = Orphaned(objects[o])
        BY <2>1, <3>1, <3>2, DisconnectOrphans
      <3>4. QED
        BY <1>0, <3>3, OnlyWarmedIsReady DEF Ready
    <2>3. PICK x : x = author[o]
      OBVIOUS
    <2>4. CASE Live(x)' /\ worker_objects[x.worker] \subseteq worker_objects'[x.worker]
      BY <1>1, <2>1, <2>3, <2>4 DEF Backed
    <2>5. QED
      BY <1>0, <2>1, <2>2, <2>3, <2>4, BackingStays
  <1>2. ASSUME NEW c \in Conns, AcceptResult(c) PROVE Backed(author[o], o)'
    <2> DEFINE m == Head(toCoord[c])
               who == [worker |-> cs[c].id, boot |-> cs[c].boot, epoch |-> m.epoch]
    <2>1. cs[c].registered /\ UNCHANGED <<workers, cs>>
      BY <1>2 DEF AcceptResult, Authorised
    <2>2. PICK x : x = who
      OBVIOUS
    <2>3. x.worker = cs[c].id /\ cs[c].id \in Workers /\ Live(x)'
      BY <1>0, <2>1, <2>2, SpeakerIsLive
    <2>4. \/ /\ objects' = [objects EXCEPT ![m.object] = Warmed(@)]
             /\ worker_objects' = [worker_objects EXCEPT ![cs[c].id] = @ \cup {m.object}]
             /\ author' = [author EXCEPT ![m.object] = who]
          \/ /\ objects' = [objects EXCEPT ![m.object] =
                               IF @.state = "ABSENT" THEN @ ELSE Failed(@)]
             /\ author' = author
      BY <1>2 DEF AcceptResult
    <2>5. author \in [Objects -> Authors] /\ objects \in [Objects -> ObjectRecords]
      BY <1>0 DEF TypeOK, ViewType
    <2> HIDE DEF m, who
    <2>7. CASE author'[o] = author[o] /\ objects'[o] = objects[o]
      BY <1>1, <2>7 DEF Ready
    <2>8. CASE objects'[o] = Failed(objects[o])
      BY <1>0, <2>8, OnlyWarmedIsReady DEF Ready
    <2>9. CASE /\ o = m.object /\ author' = [author EXCEPT ![m.object] = who]
               /\ worker_objects' = [worker_objects EXCEPT ![cs[c].id] = @ \cup {m.object}]
      <3>1. author'[o] = x
        BY <2>2, <2>5, <2>9
      <3>2. o \in worker_objects'[cs[c].id]
        BY <1>0, <2>3, <2>9, RegistryFields
      <3>3. QED
        BY <2>3, <3>1, <3>2 DEF Backed
    <2>10. QED
      BY <2>4, <2>5, <2>7, <2>8, <2>9
  <1>3. CASE \A c \in Conns : ~AcceptResult(c)
    BY <1>0, <1>1, <1>3, ReadyKept
  <1>4. QED
    BY <1>2, <1>3

\* An execution-ready object was warmed by a worker process that is registered
\* now: no interleaving of results, disconnects and restarts leaves readiness
\* behind.  Two hypotheses: a boot opens one connection
\* (a displaced connection of the same boot could settle an attempt after the one
\* that displaced it has gone), and no observation is HOT.
THEOREM ReadyIsBackedByLiveBootHolds ==
    ASSUME ~ReconnectSameBoot, "HOT" \notin ObservedStates
    PROVE  Spec => []ReadyIsBackedByLiveBoot
  <1>1. Init => ReadyIsBacked
    BY DEF Init, ReadyIsBacked, Ready, AbsentObject, is_execution_ready
  <1>2. RegistryInv /\ ReadyIsBacked /\ [Next]_vars => ReadyIsBacked'
    BY ReadyBackedStep
  <1>3. ReadyIsBacked => ReadyIsBackedByLiveBoot
    BY DEF ReadyIsBacked, ReadyIsBackedByLiveBoot, Backed
  <1>4. QED
    BY <1>1, <1>2, <1>3, RegistryInvAlways, PTL DEF Spec

---------------------------------------------------------------------------
(* Device-local dimensions.  The same argument, with one more part: roll_epoch
   resets the dimensions of the objects objects_ has, so an object it has no entry
   for must have none. *)

DimsBacked(o) ==
    /\ objects[o].eph = "VALID" => Backed(voucher[o], o) /\ voucher[o].epoch = epoch
    /\ objects[o].state = "ABSENT" => objects[o].eph = "COLD"

DimsAreBacked == \A o \in Objects : DimsBacked(o)

\* What the operations of the coordinator make of the dimensions.
LEMMA DimsOf ==
    ASSUME NEW obj \in ObjectRecords
    PROVE  /\ Revoked(obj).eph = "COLD" /\ Orphaned(obj).eph = "SUSPECT"
           /\ Warmed(obj).eph = obj.eph /\ Warmed(obj).state # "ABSENT"
           /\ Failed(obj).eph = obj.eph
           /\ obj.state # "ABSENT" => Orphaned(obj).state # "ABSENT" /\ Failed(obj).state # "ABSENT"
           /\ \A obs \in Observations :
                 /\ Discovered(obs).state # "ABSENT"
                 /\ obj.state # "ABSENT" => Reported(obj, obs).state # "ABSENT"
  <1>0. "ABSENT" \notin WarmthStates /\ obj.state \in WarmthStates \cup {"ABSENT"}
        /\ {"DISCOVERED", "INVALIDATED", "FAILED"} \subseteq WarmthStates
    BY DEF WarmthStates, ObjectRecords
  <1>1. Revoked(obj).eph = "COLD"
    BY DEF Revoked
  <1>2. Orphaned(obj).eph = "SUSPECT"
        /\ Orphaned(obj).state = Decayed(obj.state, DefaultDecayPolicy, RestartFlags, 0)
    BY DEF Orphaned, ObjectRecords
  <1>3. Warmed(obj).eph = obj.eph
    BY DEF Warmed, ObjectRecords
  <1>4. Warmed(obj).state # "ABSENT"
    BY WarmedType DEF is_execution_ready
  <1>5. Failed(obj).eph = obj.eph /\ Failed(obj).state = transition(obj.state, "FAILED")
    BY DEF Failed, ObjectRecords
  <1>6. \A s \in WarmthStates, to \in WarmthStates : transition(s, to) \in WarmthStates
    BY TransitionType
  <1>7. ASSUME obj.state # "ABSENT" PROVE Orphaned(obj).state # "ABSENT"
    <2>1. DefaultDecayPolicy \in DecayPolicies /\ RestartFlags \in DecayFlags
      BY DEF DefaultDecayPolicy, DecayPolicies, RestartFlags, DecayFlags
    <2>2. decay_object(obj.state, DefaultDecayPolicy, RestartFlags, 0) \in WarmthStates
      BY <1>0, <1>7, <2>1, DecayType
    <2>3. Decayed(obj.state, DefaultDecayPolicy, RestartFlags, 0) \in WarmthStates
      BY <1>0, <1>6, <1>7, <2>2 DEF Decayed
    <2>4. QED
      BY <1>0, <1>2, <2>3
  <1>8. ASSUME NEW obs \in Observations PROVE Discovered(obs).state # "ABSENT"
    <2>1. obs.state \in WarmthStates
      BY ObservationFields
    <2>2. Discovered(obs).state \in WarmthStates
      BY <1>0, <1>6, <2>1 DEF Discovered
    <2>3. QED
      BY <1>0, <2>2
  <1>9. ASSUME NEW obs \in Observations, obj.state # "ABSENT"
        PROVE  Reported(obj, obs).state # "ABSENT"
    <2>1. \/ Reported(obj, obs).state = transition(obj.state, "DISCOVERED")
          \/ Reported(obj, obs).state = obj.state
      BY DEF Reported, ObjectRecords
    <2>2. QED
      BY <1>0, <1>6, <1>9, <2>1
  <1>10. QED
    BY <1>0, <1>1, <1>2, <1>3, <1>4, <1>5, <1>6, <1>7, <1>8, <1>9

\* Dimensions that a step does not write stay backed.
LEMMA DimsKept ==
    ASSUME RegistryInv, [Next]_vars, NEW o \in Objects, DimsBacked(o),
           voucher'[o] = voucher[o], epoch' = epoch,
           objects'[o].eph = "VALID" => objects[o].eph = "VALID",
           objects'[o].state = "ABSENT" => objects[o].state = "ABSENT" /\ objects'[o] = objects[o]
    PROVE  DimsBacked(o)'
  <1>0. BaseInv /\ RegistryIsLatestBoot /\ objects[o] \in ObjectRecords
    BY DEF RegistryInv, BaseInv, TypeOK, ViewType
  <1>1. objects'[o].state = "ABSENT" => objects'[o].eph = "COLD"
    BY DEF DimsBacked
  <1>2. ASSUME objects'[o].eph = "VALID"
        PROVE  Backed(voucher[o], o)' /\ voucher'[o].epoch = epoch'
    <2>1. PICK a : a = voucher[o]
      OBVIOUS
    <2>2. Live(a) /\ o \in worker_objects[a.worker] /\ a.epoch = epoch
          /\ objects[o].state # "ABSENT"
      BY <1>2, <2>1 DEF DimsBacked, Backed
    <2>3. CASE \E c \in Conns : Disconnect(c) /\ cs[c].id = a.worker
      <3>1. PICK c \in Conns : Disconnect(c) /\ cs[c].id = a.worker
        BY <2>3
      <3>2. objects'[o] = Orphaned(objects[o])
        BY <2>2, <3>1, DisconnectOrphans
      <3>3. QED
        BY <1>0, <1>2, <3>2, DimsOf
    <2>4. CASE Live(a)' /\ worker_objects[a.worker] \subseteq worker_objects'[a.worker]
      BY <2>1, <2>2, <2>4 DEF Backed
    <2>5. QED
      BY <1>0, <2>2, <2>3, <2>4, BackingStays
  <1>3. QED
    BY <1>1, <1>2 DEF DimsBacked

LEMMA DimsStep ==
    ASSUME RegistryInv, DimsAreBacked, [Next]_vars
    PROVE  DimsAreBacked'
  <1> SUFFICES ASSUME NEW o \in Objects PROVE DimsBacked(o)'
    BY DEF DimsAreBacked
  <1>0. /\ BaseInv /\ RegistryIsLatestBoot /\ SoleRegistration /\ TypeOK /\ DimsBacked(o)
        /\ objects[o] \in ObjectRecords
        /\ objects \in [Objects -> ObjectRecords] /\ voucher \in [Objects -> Authors]
    BY DEF RegistryInv, BaseInv, TypeOK, ViewType, DimsAreBacked
  <1>1. CASE objects'[o] = objects[o] /\ voucher'[o] = voucher[o] /\ epoch' = epoch
    BY <1>0, <1>1, DimsKept
  <1>2. ASSUME NEW c \in Conns, HandleHello(c) PROVE DimsBacked(o)'
    <2> DEFINE w == Head(toCoord[c]).worker
               b == Head(toCoord[c]).boot
    <2>1. epoch' = epoch
      BY <1>2 DEF HandleHello, authority
    <2>2. CASE objects'[o] \in {objects[o], Revoked(objects[o])} /\ voucher'[o] = voucher[o]
      <3>1. CASE objects'[o] = objects[o]
        BY <1>1, <2>1, <2>2, <3>1
      <3>2. CASE objects'[o] = Revoked(objects[o])
        BY <1>0, <3>2, DimsOf DEF DimsBacked
      <3>3. QED
        BY <2>2, <3>1, <3>2
    <2>3. CASE /\ \E obs \in Observations : objects'[o] = Discovered(obs)
               /\ voucher'[o] = [worker |-> w, boot |-> b, epoch |-> epoch]
               /\ o \in worker_objects'[w]
               /\ w \in Workers /\ workers' = [workers EXCEPT ![w] = c]
               /\ cs'[c] = [registered |-> TRUE, id |-> w, boot |-> b]
      <3>1. objects'[o].state # "ABSENT"
        BY <1>0, <2>3, DimsOf
      <3>2. PICK a : a = [worker |-> w, boot |-> b, epoch |-> epoch]
        OBVIOUS
      <3>3. a.worker = w /\ a.boot = b /\ a.epoch = epoch
        BY <3>2
      <3>4. workers'[w] = c /\ cs'[c].boot = b /\ c # NoConn
        BY <1>0, <2>3, RegistryFields, SentinelAssumption
      <3>5. Live(a)'
        BY <2>3, <3>3, <3>4 DEF Live
      <3>6. voucher'[o] = a
        BY <2>3, <3>2
      <3>7. QED
        BY <2>1, <2>3, <3>1, <3>3, <3>5, <3>6 DEF DimsBacked, Backed
    <2>4. CASE UNCHANGED <<objects, voucher>>
      BY <1>1, <2>1, <2>4
    <2>5. \/ UNCHANGED <<objects, voucher>>
          \/ /\ w \in Workers /\ workers' = [workers EXCEPT ![w] = c]
             /\ cs'[c] = [registered |-> TRUE, id |-> w, boot |-> b]
      BY <1>0, <1>2, HelloRegisters
    <2>6. \/ UNCHANGED <<objects, voucher>>
          \/ /\ objects'[o] \in {objects[o], Revoked(objects[o])}
             /\ voucher'[o] = voucher[o]
          \/ /\ \E obs \in Observations : objects'[o] = Discovered(obs)
             /\ voucher'[o] = [worker |-> w, boot |-> b, epoch |-> epoch]
             /\ o \in worker_objects'[w]
      BY <1>0, <1>2, HelloView
    <2>7. QED
      BY <2>2, <2>3, <2>4, <2>5, <2>6
  <1>3. ASSUME NEW c \in Conns, HandleReport(c) PROVE DimsBacked(o)'
    <2> DEFINE m == Head(toCoord[c])
               x == m.observed.object
    <2>1. epoch' = epoch /\ UNCHANGED <<workers, cs>>
      BY <1>3 DEF HandleReport, authority
    <2>2. m.observed \in Observations
      BY <1>0, <1>3, FrameTaken DEF HandleReport, ReportMsgs
    <2>3. \/ UNCHANGED <<objects, voucher>>
          \/ /\ cs[c].registered /\ m.epoch = epoch
             /\ objects' = [objects EXCEPT ![x] =
                   IF @.state = "ABSENT" THEN Discovered(m.observed) ELSE Reported(@, m.observed)]
             /\ worker_objects' = [worker_objects EXCEPT ![cs[c].id] = @ \cup {x}]
             /\ voucher' = [voucher EXCEPT ![x] =
                   [worker |-> cs[c].id, boot |-> cs[c].boot, epoch |-> m.epoch]]
      BY <1>3 DEF HandleReport, Authorised
    <2>4. PICK a : a = [worker |-> cs[c].id, boot |-> cs[c].boot, epoch |-> m.epoch]
      OBVIOUS
    <2>5. a.worker = cs[c].id /\ a.boot = cs[c].boot /\ a.epoch = m.epoch
      BY <2>4
    <2> HIDE DEF m, x
    <2>6. CASE UNCHANGED <<objects, voucher>>
      BY <1>1, <2>1, <2>6
    <2>7. CASE /\ cs[c].registered /\ m.epoch = epoch
               /\ objects' = [objects EXCEPT ![x] =
                     IF @.state = "ABSENT" THEN Discovered(m.observed)
                                           ELSE Reported(@, m.observed)]
               /\ worker_objects' = [worker_objects EXCEPT ![cs[c].id] = @ \cup {x}]
               /\ voucher' = [voucher EXCEPT ![x] =
                     [worker |-> cs[c].id, boot |-> cs[c].boot, epoch |-> m.epoch]]
      <3>1. CASE o # x
        BY <1>0, <1>1, <2>1, <2>7, <3>1
      <3>2. CASE o = x
        <4>1. voucher'[o] = a
          BY <1>0, <2>4, <2>7, <3>2
        <4>2. cs[c].id \in Workers /\ Live(a)'
          BY <1>0, <2>1, <2>5, <2>7, SpeakerIsLive
        <4>3. o \in worker_objects'[cs[c].id]
          BY <1>0, <2>7, <3>2, <4>2, RegistryFields
        <4>4. objects'[o] = IF objects[o].state = "ABSENT" THEN Discovered(m.observed)
                            ELSE Reported(objects[o], m.observed)
          BY <1>0, <2>7, <3>2
        <4>5. objects'[o].state # "ABSENT"
          BY <1>0, <2>2, <4>4, DimsOf
        <4>6. QED
          BY <2>1, <2>5, <2>7, <4>1, <4>2, <4>3, <4>5 DEF DimsBacked, Backed
      <3>3. QED
        BY <3>1, <3>2
    <2>8. QED
      BY <2>3, <2>6, <2>7
  <1>4. ASSUME NEW c \in Conns, AcceptResult(c) PROVE DimsBacked(o)'
    <2>1. epoch' = epoch /\ voucher' = voucher
      BY <1>4 DEF AcceptResult, authority
    <2>2. \/ objects'[o] = objects[o] \/ objects'[o] = Warmed(objects[o])
          \/ objects'[o] = Failed(objects[o]) /\ objects[o].state # "ABSENT"
      BY <1>0, <1>4 DEF AcceptResult
    <2>3. /\ objects'[o].eph = objects[o].eph
          /\ objects'[o].state = "ABSENT" => objects[o].state = "ABSENT" /\ objects'[o] = objects[o]
      BY <1>0, <2>2, DimsOf
    <2>4. QED
      BY <1>0, <2>1, <2>3, DimsKept
  <1>5. ASSUME NEW c \in Conns, Disconnect(c) PROVE DimsBacked(o)'
    <2>1. epoch' = epoch /\ voucher' = voucher
      BY <1>5 DEF Disconnect, authority, history
    <2>2. \/ objects'[o] = objects[o]
          \/ objects'[o] = Orphaned(objects[o]) /\ objects[o].state # "ABSENT"
      BY <1>5 DEF Disconnect
    <2>3. QED
      BY <1>0, <2>1, <2>2, DimsKept, DimsOf
  <1>6. CASE RollEpoch
    <2>1. \/ objects'[o] = objects[o] /\ objects[o].state = "ABSENT"
          \/ objects'[o] = Revoked(objects[o])
      BY <1>6 DEF RollEpoch
    <2>2. objects'[o].eph = "COLD"
      BY <1>0, <2>1, DimsOf DEF DimsBacked
    <2>3. QED
      BY <2>2 DEF DimsBacked
  <1>7. ASSUME NEW c \in Conns, SendAck(c) \/ DropResult(c) PROVE DimsBacked(o)'
    BY <1>1, <1>7 DEF SendAck, DropResult, authority, history
  <1>8. ASSUME NEW c \in Conns,
               \/ WorkerStep(c) \/ WorkerClose(c)
               \/ \E w \in Workers, b \in Boots, obs \in HelloObservations : Connect(c, w, b, obs)
               \/ \E obs \in Observations : WorkerReport(c, obs)
        PROVE  DimsBacked(o)'
    <2>1. UNCHANGED <<objects, voucher, epoch>>
      BY <1>8 DEF WorkerStep, ConnectReply, WorkerWarm, WorkerIgnore, WorkerClose, Connect,
                  WorkerReport, authority, history
    <2>2. QED
      BY <1>1, <2>1
  <1>9. ASSUME NEW u \in unsent, SendTopic(u) PROVE DimsBacked(o)'
    BY <1>1, <1>9 DEF SendTopic, authority, history
  <1>10. CASE CallerStep
    <2>1. UNCHANGED <<objects, voucher, epoch>> \/ RollEpoch
      BY <1>10 DEF CallerStep, IssueWarm, SendTopicFails, BumpDependencyGeneration,
                   BumpWarmthGeneration, authority, history
    <2>2. QED
      BY <1>1, <1>6, <2>1
  <1>11. CASE UNCHANGED vars
    BY <1>1, <1>11 DEF vars, authority, history
  <1>12. QED
    BY <1>2, <1>3, <1>4, <1>5, <1>7, <1>8, <1>9, <1>10, <1>11, StepKinds DEF ConnThread

\* Device-local dimensions shown VALID were observed in the current epoch by a
\* worker process that is registered now, whatever was lost, late or replaced, where
\* a boot opens one connection.
THEOREM ValidDimsAreVouchedForHolds ==
    ASSUME ~ReconnectSameBoot
    PROVE  Spec => []ValidDimsAreVouchedFor
  <1>1. Init => DimsAreBacked
    BY DEF Init, DimsAreBacked, DimsBacked, AbsentObject
  <1>2. RegistryInv /\ DimsAreBacked /\ [Next]_vars => DimsAreBacked'
    BY DimsStep
  <1>3. DimsAreBacked => ValidDimsAreVouchedFor
    BY DEF DimsAreBacked, DimsBacked, ValidDimsAreVouchedFor, Backed
  <1>4. QED
    BY <1>1, <1>2, <1>3, RegistryInvAlways, PTL DEF Spec

---------------------------------------------------------------------------
(* No attempt is forgotten.  An attempt travels from unsent through a WARM_TOPIC
   to a WARM_RESULT on the connection of the worker it was issued to; where it
   stops on the way, that worker is out of touch, and stays so.  The invariant
   says what travels on a connection, and that nobody acts under generations of
   the future. *)

\* Connection c carries attempt a to warm o, in one of the three places.
Carried(c, a, o) ==
    \/ [attempt |-> a, object |-> o, conn |-> c] \in unsent
    \/ \E m \in Frames(toWorker[c]) : m.type = "WARM_TOPIC" /\ m.attempt = a /\ m.object = o
    \/ \E m \in Frames(toCoord[c]) : m.type = "WARM_RESULT" /\ m.attempt = a /\ m.object = o

\* What it carries was issued, for the worker of that connection.
CarriedRight(c, a, o) ==
    /\ a < attempt_counter
    /\ client[c].status # "unused"
    /\ \A r \in in_flight : r.attempt = a => r.object = o /\ r.worker = client[c].worker

CarriedInv ==
    \A c \in Conns, a \in Nat, o \in Objects : Carried(c, a, o) => CarriedRight(c, a, o)

Past(x) == x.epoch <= epoch /\ x.warmth_gen <= warmth_gen /\ x.dep_gen <= dep_gen

GensInv ==
    \A c \in Conns : /\ Past(client[c])
                     /\ \A m \in Frames(toWorker[c]) : m.type = "HELLO_ACK" => Past(m)

\* The generations only grow.
LEMMA AuthorityGrows ==
    ASSUME TypeOK, [Next]_vars
    PROVE  /\ epoch \in Nat /\ warmth_gen \in Nat /\ dep_gen \in Nat
           /\ epoch' \in {epoch, epoch + 1} /\ warmth_gen' \in {warmth_gen, warmth_gen + 1}
           /\ dep_gen' \in {dep_gen, dep_gen + 1}
  <1>0. epoch \in Nat /\ warmth_gen \in Nat /\ dep_gen \in Nat
    BY DEF TypeOK, AuthorityType
  <1>1. ASSUME NEW c \in Conns, ConnThread(c) PROVE UNCHANGED authority
    BY <1>1 DEF ConnThread, HandleHello, SendAck, HandleReport, AcceptResult, DropResult,
                Disconnect
  <1>2. ASSUME NEW c \in Conns,
               \/ WorkerStep(c) \/ WorkerClose(c)
               \/ \E w \in Workers, b \in Boots, obs \in HelloObservations : Connect(c, w, b, obs)
               \/ \E obs \in Observations : WorkerReport(c, obs)
        PROVE  UNCHANGED authority
    BY <1>2 DEF WorkerStep, ConnectReply, WorkerWarm, WorkerIgnore, WorkerClose, Connect,
                WorkerReport
  <1>3. ASSUME NEW u \in unsent, SendTopic(u) PROVE UNCHANGED authority
    BY <1>3 DEF SendTopic
  <1>4. CASE CallerStep
    BY <1>0, <1>4 DEF CallerStep, IssueWarm, SendTopicFails, BumpDependencyGeneration,
                BumpWarmthGeneration, RollEpoch, authority
  <1>5. QED
    BY <1>0, <1>1, <1>2, <1>3, <1>4, StepKinds DEF vars, authority

LEMMA PastStays ==
    ASSUME TypeOK, [Next]_vars, NEW x, x.epoch \in Nat, x.warmth_gen \in Nat, x.dep_gen \in Nat,
           Past(x)
    PROVE  /\ x.epoch <= epoch' /\ x.warmth_gen <= warmth_gen' /\ x.dep_gen <= dep_gen'
           /\ x.epoch # epoch => x.epoch # epoch'
           /\ x.warmth_gen # warmth_gen => x.warmth_gen # warmth_gen'
           /\ x.dep_gen # dep_gen => x.dep_gen # dep_gen'
  BY AuthorityGrows DEF Past

\* Where the acks and the generations of a connection come from.
LEMMA GensMoves ==
    ASSUME BaseInv, [Next]_vars, NEW c \in Conns
    PROVE  /\ \A m \in Frames(toWorker'[c]) :
                 \/ m \in Frames(toWorker[c])
                 \/ m.type # "HELLO_ACK"
                 \/ m \in AckMsgs /\ Past(m) /\ UNCHANGED authority
           /\ \/ /\ client'[c].epoch = client[c].epoch
                 /\ client'[c].warmth_gen = client[c].warmth_gen
                 /\ client'[c].dep_gen = client[c].dep_gen
              \/ \E m \in Frames(toWorker[c]) :
                    /\ m.type = "HELLO_ACK"
                    /\ client'[c].epoch = m.epoch /\ client'[c].dep_gen = m.dep_gen
                    /\ client'[c].warmth_gen = m.warmth_gen
  <1> DEFINE Goal == /\ \A m \in Frames(toWorker'[c]) :
                           \/ m \in Frames(toWorker[c])
                           \/ m.type # "HELLO_ACK"
                           \/ m \in AckMsgs /\ Past(m) /\ UNCHANGED authority
                     /\ \/ /\ client'[c].epoch = client[c].epoch
                           /\ client'[c].warmth_gen = client[c].warmth_gen
                           /\ client'[c].dep_gen = client[c].dep_gen
                        \/ \E m \in Frames(toWorker[c]) :
                              /\ m.type = "HELLO_ACK"
                              /\ client'[c].epoch = m.epoch /\ client'[c].dep_gen = m.dep_gen
                              /\ client'[c].warmth_gen = m.warmth_gen
  <1>0. TypeOK /\ ClientsHaveBoots
    BY DEF BaseInv
  <1>1. CASE toWorker'[c] = toWorker[c] /\ client'[c] = client[c]
    BY <1>1
  <1>2. ASSUME NEW d \in Conns, ConnThread(d) PROVE Goal
    <2>1. CASE d # c
      BY <1>0, <1>1, <1>2, <2>1, OthersSame
    <2>2. CASE SendAck(c)
      <3>1. UNCHANGED <<authority, client>>
        BY <2>2 DEF SendAck
      <3>2. PICK m \in AckMsgs :
              /\ m.epoch <= epoch /\ m.warmth_gen <= warmth_gen /\ m.dep_gen <= dep_gen
              /\ Frames(toWorker'[c]) \subseteq Frames(toWorker[c]) \cup {m}
        BY <1>0, <2>2, AckEffect
      <3>3. QED
        BY <3>1, <3>2 DEF Past
    <2>3. CASE HandleReport(c) \/ AcceptResult(c) \/ DropResult(c)
      <3>1. /\ UNCHANGED client
            /\ \A m \in Frames(toWorker'[c]) : m \in Frames(toWorker[c]) \/ m.type = "ERROR"
        BY <1>0, <2>3, TakeEffect
      <3>2. QED
        BY <3>1
    <2>4. CASE HandleHello(c) \/ Disconnect(c)
      BY <1>1, <2>4 DEF HandleHello, Disconnect, channels
    <2>5. QED
      BY <1>2, <2>1, <2>2, <2>3, <2>4 DEF ConnThread
  <1>3. ASSUME NEW d \in Conns,
               \/ WorkerStep(d) \/ WorkerClose(d)
               \/ \E w \in Workers, b \in Boots, obs \in HelloObservations : Connect(d, w, b, obs)
               \/ \E obs \in Observations : WorkerReport(d, obs)
        PROVE  Goal
    <2>1. CASE d # c
      BY <1>0, <1>1, <1>3, <2>1, OthersSame
    <2>2. CASE ConnectReply(c)
      <3>1. /\ Frames(toWorker'[c]) \subseteq Frames(toWorker[c])
            /\ \/ /\ client'[c].epoch = client[c].epoch
                  /\ client'[c].warmth_gen = client[c].warmth_gen
                  /\ client'[c].dep_gen = client[c].dep_gen
               \/ \E m \in Frames(toWorker[c]) :
                     /\ m.type = "HELLO_ACK"
                     /\ client'[c].epoch = m.epoch /\ client'[c].dep_gen = m.dep_gen
                     /\ client'[c].warmth_gen = m.warmth_gen
        BY <1>0, <2>2, ReplyEffect
      <3>2. QED
        BY <3>1
    <2>3. ASSUME NEW success \in BOOLEAN, WorkerWarm(c, success) PROVE Goal
      <3>1. Frames(toWorker'[c]) \subseteq Frames(toWorker[c])
        BY <1>0, <2>3, WarmEffect
      <3>2. UNCHANGED client
        BY <2>3 DEF WorkerWarm
      <3>3. QED
        BY <3>1, <3>2
    <2>4. CASE WorkerIgnore(c)
      <3>1. Frames(toWorker'[c]) \subseteq Frames(toWorker[c])
        BY <1>0, <2>4, WorkerTakenFrames DEF WorkerIgnore
      <3>2. UNCHANGED client
        BY <2>4 DEF WorkerIgnore
      <3>3. QED
        BY <3>1, <3>2
    <2>5. CASE WorkerClose(c)
      <3>1. /\ Frames(toWorker'[c]) = {} /\ client'[c].epoch = client[c].epoch
            /\ client'[c].warmth_gen = client[c].warmth_gen
            /\ client'[c].dep_gen = client[c].dep_gen
        BY <1>0, <2>5, CloseEffect, NoFrames
      <3>2. QED
        BY <3>1
    <2>6. ASSUME NEW w \in Workers, NEW b \in Boots, NEW obs \in HelloObservations,
                 Connect(c, w, b, obs)
          PROVE  Goal
      <3>1. /\ client'[c].epoch = client[c].epoch
            /\ client'[c].warmth_gen = client[c].warmth_gen
            /\ client'[c].dep_gen = client[c].dep_gen
        BY <1>0, <2>6, ConnectEffect
      <3>2. UNCHANGED toWorker
        BY <2>6 DEF Connect
      <3>3. QED
        BY <3>1, <3>2
    <2>7. ASSUME NEW obs \in Observations, WorkerReport(c, obs) PROVE Goal
      BY <1>1, <2>7 DEF WorkerReport
    <2>8. QED
      BY <1>3, <2>1, <2>2, <2>3, <2>4, <2>5, <2>6, <2>7 DEF WorkerStep
  <1>4. ASSUME NEW u \in unsent, SendTopic(u) PROVE Goal
    <2>1. PICK m \in TopicMsgs :
              /\ m.type = "WARM_TOPIC"
              /\ Frames(toWorker'[c]) \subseteq Frames(toWorker[c]) \cup {m}
      BY <1>0, <1>4, TopicEffect
    <2>2. UNCHANGED client
      BY <1>4 DEF SendTopic
    <2>3. QED
      BY <2>1, <2>2
  <1>5. CASE CallerStep
    BY <1>1, <1>5, CallersSame
  <1>6. CASE UNCHANGED vars
    BY <1>1, <1>6 DEF vars, channels
  <1>7. QED
    BY <1>2, <1>3, <1>4, <1>5, <1>6, StepKinds

LEMMA AckFields ==
    ASSUME TypeOK, NEW c \in Conns, NEW m \in Frames(toWorker[c]), m.type = "HELLO_ACK"
    PROVE  m.epoch \in Nat /\ m.warmth_gen \in Nat /\ m.dep_gen \in Nat
  <1>1. toWorker[c] \in Seq(WorkerFrames)
    BY ChannelTypes
  <1>2. m \in WorkerFrames
    BY <1>1 DEF Frames
  <1>3. m \in AckMsgs
    BY <1>2 DEF WorkerFrames, TopicMsgs, ErrorMsgs
  <1>4. QED
    BY <1>3 DEF AckMsgs

LEMMA GensStep ==
    ASSUME BaseInv, GensInv, [Next]_vars
    PROVE  GensInv'
  <1> SUFFICES ASSUME NEW c \in Conns
               PROVE  /\ Past(client[c])'
                      /\ \A m \in Frames(toWorker'[c]) : m.type = "HELLO_ACK" => Past(m)'
    BY DEF GensInv
  <1>0. TypeOK
    BY DEF BaseInv
  <1>1. ASSUME NEW m \in Frames(toWorker[c]), m.type = "HELLO_ACK"
        PROVE  m.epoch <= epoch' /\ m.warmth_gen <= warmth_gen' /\ m.dep_gen <= dep_gen'
    <2>1. Past(m)
      BY <1>1 DEF GensInv
    <2>2. QED
      BY <1>0, <1>1, <2>1, AckFields, PastStays
  <1>2. /\ client[c].epoch <= epoch' /\ client[c].warmth_gen <= warmth_gen'
        /\ client[c].dep_gen <= dep_gen'
    <2>1. PICK x : x = client[c]
      OBVIOUS
    <2>2. Past(x) /\ x.epoch \in Nat /\ x.warmth_gen \in Nat /\ x.dep_gen \in Nat
      BY <1>0, <2>1, ClientFields DEF GensInv
    <2>3. QED
      BY <1>0, <2>1, <2>2, PastStays
  <1>3. Past(client[c])'
    BY <1>1, <1>2, GensMoves DEF Past
  <1>4. ASSUME NEW m \in Frames(toWorker'[c]), m.type = "HELLO_ACK" PROVE Past(m)'
    BY <1>1, <1>4, GensMoves DEF Past, authority
  <1>5. QED
    BY <1>3, <1>4

\* A worker that is out of touch stays so.
LEMMA OutOfTouchStays ==
    ASSUME BaseInv, GensInv, [Next]_vars, NEW w \in Workers, WorkerOutOfTouch(w)
    PROVE  WorkerOutOfTouch(w)'
  <1>0. TypeOK /\ ClientsHaveBoots
    BY DEF BaseInv
  <1>1. PICK c \in Conns :
            /\ client[c].worker = w
            /\ \/ client[c].status \in {"failed", "closed"}
               \/ /\ client[c].status = "running"
                  /\ <<client[c].epoch, client[c].warmth_gen, client[c].dep_gen>> # authority
    BY DEF WorkerOutOfTouch
  <1>2. \/ client'[c] = client[c]
        \/ client'[c].status = "closed" /\ client'[c].worker = client[c].worker
    <2>1. ASSUME NEW d \in Conns, ConnThread(d) PROVE UNCHANGED client
      BY <2>1 DEF ConnThread, HandleHello, SendAck, HandleReport, AcceptResult, DropResult,
                  Disconnect
    <2>2. ASSUME NEW d \in Conns \ {c},
                 \/ WorkerStep(d) \/ WorkerClose(d)
                 \/ \E v \in Workers, b \in Boots, obs \in HelloObservations : Connect(d, v, b, obs)
                 \/ \E obs \in Observations : WorkerReport(d, obs)
          PROVE  client'[c] = client[c]
      BY <1>0, <2>2, OthersSame
    <2>3. CASE \/ WorkerStep(c)
               \/ \E v \in Workers, b \in Boots, obs \in HelloObservations : Connect(c, v, b, obs)
               \/ \E obs \in Observations : WorkerReport(c, obs)
      BY <1>1, <2>3 DEF WorkerStep, ConnectReply, WorkerWarm, WorkerIgnore, Connect, WorkerReport
    <2>4. CASE WorkerClose(c)
      BY <1>0, <2>4, CloseEffect
    <2>5. ASSUME NEW u \in unsent, SendTopic(u) PROVE UNCHANGED client
      BY <2>5 DEF SendTopic
    <2>6. QED
      BY <2>1, <2>2, <2>3, <2>4, <2>5, StepKinds, CallersSame DEF vars
  <1>3. CASE client'[c].status \in {"failed", "closed"} /\ client'[c].worker = w
    BY <1>3 DEF WorkerOutOfTouch
  <1>4. CASE client'[c] = client[c] /\ client[c].status = "running"
             /\ <<client[c].epoch, client[c].warmth_gen, client[c].dep_gen>> # authority
    <2>1. \/ client[c].epoch # epoch \/ client[c].warmth_gen # warmth_gen
          \/ client[c].dep_gen # dep_gen
      BY <1>4 DEF authority
    <2>2. PICK x : x = client[c]
      OBVIOUS
    <2>3. Past(x) /\ x.epoch \in Nat /\ x.warmth_gen \in Nat /\ x.dep_gen \in Nat
      BY <1>0, <2>2, ClientFields DEF GensInv
    <2>4. x.epoch # epoch' \/ x.warmth_gen # warmth_gen' \/ x.dep_gen # dep_gen'
      BY <1>0, <2>1, <2>2, <2>3, PastStays
    <2>5. <<client'[c].epoch, client'[c].warmth_gen, client'[c].dep_gen>> # authority'
      BY <1>4, <2>2, <2>4 DEF authority
    <2>6. QED
      BY <1>1, <1>4, <2>5 DEF WorkerOutOfTouch
  <1>5. QED
    BY <1>1, <1>2, <1>3, <1>4

\* What a connection carries after a step it carried before, or was just issued.
LEMMA CarriedFrom ==
    ASSUME BaseInv, [Next]_vars, NEW c \in Conns, NEW a \in Nat, NEW o \in Objects,
           Carried(c, a, o)'
    PROVE  \/ Carried(c, a, o)
           \/ \E w \in Workers : IssueWarm(o, w) /\ workers[w] = c /\ a = attempt_counter
  <1>0. TypeOK /\ ClientsHaveBoots
    BY DEF BaseInv
  <1>1. ASSUME UNCHANGED unsent,
               \A m \in Frames(toWorker'[c]) : m.type = "WARM_TOPIC" => m \in Frames(toWorker[c]),
               \A m \in Frames(toCoord'[c]) : m.type = "WARM_RESULT" => m \in Frames(toCoord[c])
        PROVE  Carried(c, a, o)
    BY <1>1 DEF Carried
  <1>2. ASSUME NEW d \in Conns, ConnThread(d) PROVE Carried(c, a, o)
    <2>0. UNCHANGED unsent
      BY <1>2 DEF ConnThread, HandleHello, SendAck, HandleReport, AcceptResult, DropResult,
                  Disconnect
    <2>1. CASE d # c
      BY <1>0, <1>1, <1>2, <2>0, <2>1, OthersSame
    <2>2. CASE SendAck(c)
      <3>1. \A m \in Frames(toWorker'[c]) : m \in Frames(toWorker[c]) \/ m.type = "HELLO_ACK"
        BY <1>0, <2>2, AckEffect
      <3>2. UNCHANGED toCoord
        BY <2>2 DEF SendAck
      <3>3. QED
        BY <1>1, <2>0, <3>1, <3>2
    <2>3. CASE HandleReport(c) \/ AcceptResult(c) \/ DropResult(c)
      <3>1. /\ Frames(toCoord'[c]) \subseteq Frames(toCoord[c])
            /\ \A m \in Frames(toWorker'[c]) : m \in Frames(toWorker[c]) \/ m.type = "ERROR"
        BY <1>0, <2>3, TakeEffect
      <3>2. QED
        BY <1>1, <2>0, <3>1
    <2>4. CASE HandleHello(c)
      <3>1. Frames(toCoord'[c]) \subseteq Frames(toCoord[c])
        BY <1>0, <2>4, HelloEffect
      <3>2. UNCHANGED toWorker
        BY <2>4 DEF HandleHello
      <3>3. QED
        BY <1>1, <2>0, <3>1, <3>2
    <2>5. CASE Disconnect(c)
      BY <1>1, <2>0, <2>5 DEF Disconnect, channels
    <2>6. QED
      BY <1>2, <2>1, <2>2, <2>3, <2>4, <2>5 DEF ConnThread
  <1>3. ASSUME NEW d \in Conns,
               \/ WorkerStep(d) \/ WorkerClose(d)
               \/ \E w \in Workers, b \in Boots, obs \in HelloObservations : Connect(d, w, b, obs)
               \/ \E obs \in Observations : WorkerReport(d, obs)
        PROVE  Carried(c, a, o)
    <2>0. UNCHANGED unsent
      BY <1>3 DEF WorkerStep, ConnectReply, WorkerWarm, WorkerIgnore, WorkerClose, Connect,
                  WorkerReport
    <2>1. CASE d # c
      BY <1>0, <1>1, <1>3, <2>0, <2>1, OthersSame
    <2>2. CASE ConnectReply(c)
      <3>1. Frames(toWorker'[c]) \subseteq Frames(toWorker[c])
        BY <1>0, <2>2, ReplyEffect
      <3>2. QED
        BY <1>1, <2>0, <2>2, <3>1 DEF ConnectReply
    <2>3. ASSUME NEW success \in BOOLEAN, WorkerWarm(c, success) PROVE Carried(c, a, o)
      <3>1. PICK t \in Frames(toWorker[c]), m \in ResultMsgs :
              /\ t.type = "WARM_TOPIC" /\ m.attempt = t.attempt /\ m.object = t.object
              /\ Frames(toWorker'[c]) \subseteq Frames(toWorker[c])
              /\ Frames(toCoord'[c]) = Frames(toCoord[c]) \cup {m}
        BY <1>0, <2>3, WarmEffect
      <3>2. QED
        BY <2>0, <3>1 DEF Carried
    <2>4. CASE WorkerIgnore(c)
      <3>1. Frames(toWorker'[c]) \subseteq Frames(toWorker[c])
        BY <1>0, <2>4, WorkerTakenFrames DEF WorkerIgnore
      <3>2. QED
        BY <1>1, <2>0, <2>4, <3>1 DEF WorkerIgnore
    <2>5. CASE WorkerClose(c)
      <3>1. Frames(toWorker'[c]) = {} /\ Frames(toCoord'[c]) \subseteq Frames(toCoord[c])
        BY <1>0, <2>5, CloseEffect, NoFrames
      <3>2. QED
        BY <1>1, <2>0, <3>1
    <2>6. ASSUME NEW w \in Workers, NEW b \in Boots, NEW obs \in HelloObservations,
                 Connect(c, w, b, obs)
          PROVE  Carried(c, a, o)
      <3>1. PICK m \in HelloMsgs : /\ m.type = "HELLO"
                                   /\ Frames(toCoord'[c]) = Frames(toCoord[c]) \cup {m}
        BY <1>0, <2>6, ConnectEffect
      <3>2. UNCHANGED toWorker
        BY <2>6 DEF Connect
      <3>3. QED
        BY <1>1, <2>0, <3>1, <3>2
    <2>7. ASSUME NEW obs \in Observations, WorkerReport(c, obs) PROVE Carried(c, a, o)
      <3>1. PICK m \in ReportMsgs : /\ m.type = "REPORT"
                                    /\ Frames(toCoord'[c]) = Frames(toCoord[c]) \cup {m}
        BY <1>0, <2>7, WorkerReportEffect
      <3>2. UNCHANGED toWorker
        BY <2>7 DEF WorkerReport
      <3>3. QED
        BY <1>1, <2>0, <3>1, <3>2
    <2>8. QED
      BY <1>3, <2>1, <2>2, <2>3, <2>4, <2>5, <2>6, <2>7 DEF WorkerStep
  <1>4. ASSUME NEW u \in unsent, SendTopic(u) PROVE Carried(c, a, o)
    <2>1. PICK m \in TopicMsgs :
              /\ m.type = "WARM_TOPIC" /\ m.object = u.object /\ m.attempt = u.attempt
              /\ u = [attempt |-> u.attempt, object |-> u.object, conn |-> u.conn]
              /\ \A d \in Conns \ {u.conn} : toWorker'[d] = toWorker[d]
              /\ Frames(toWorker'[u.conn]) \subseteq Frames(toWorker[u.conn]) \cup {m}
      BY <1>0, <1>4, TopicEffect
    <2>2. UNCHANGED toCoord /\ unsent' \subseteq unsent
      BY <1>4 DEF SendTopic
    <2>3. CASE c # u.conn
      BY <2>1, <2>2, <2>3 DEF Carried
    <2>4. CASE c = u.conn
      <3>1. m.attempt = a /\ m.object = o => [attempt |-> a, object |-> o, conn |-> c] \in unsent
        BY <2>1, <2>4
      <3>2. QED
        BY <2>1, <2>2, <2>4, <3>1 DEF Carried
    <2>5. QED
      BY <2>3, <2>4
  <1>5. ASSUME NEW p \in Objects, NEW w \in Workers, IssueWarm(p, w)
        PROVE  \/ Carried(c, a, o)
               \/ IssueWarm(o, w) /\ workers[w] = c /\ a = attempt_counter
    <2>1. UNCHANGED channels
          /\ unsent' = unsent \cup {[attempt |-> attempt_counter, object |-> p, conn |-> workers[w]]}
      BY <1>5 DEF IssueWarm
    <2>2. CASE [attempt |-> a, object |-> o, conn |-> c]
                 = [attempt |-> attempt_counter, object |-> p, conn |-> workers[w]]
      <3>1. a = attempt_counter /\ o = p /\ c = workers[w]
        BY <2>2
      <3>2. QED
        BY <1>5, <3>1
    <2>3. CASE [attempt |-> a, object |-> o, conn |-> c]
                 # [attempt |-> attempt_counter, object |-> p, conn |-> workers[w]]
      BY <2>1, <2>3 DEF Carried, channels
    <2>4. QED
      BY <2>2, <2>3
  <1>6. CASE \/ \E u \in unsent : SendTopicFails(u)
             \/ BumpDependencyGeneration \/ BumpWarmthGeneration \/ RollEpoch
    <2>1. UNCHANGED channels /\ unsent' \subseteq unsent
      BY <1>6 DEF SendTopicFails, BumpDependencyGeneration, BumpWarmthGeneration, RollEpoch
    <2>2. QED
      BY <2>1 DEF Carried, channels
  <1>7. CASE UNCHANGED vars
    BY <1>1, <1>7 DEF vars, channels
  <1>8. QED
    BY <1>2, <1>3, <1>4, <1>5, <1>6, <1>7, StepKinds DEF CallerStep

LEMMA InFlightMoves ==
    ASSUME BaseInv, [Next]_vars
    PROVE  \/ in_flight' \subseteq in_flight /\ attempt_counter' = attempt_counter
           \/ \E o \in Objects, w \in Workers : IssueWarm(o, w)
  <1>1. ASSUME NEW c \in Conns, ConnThread(c)
        PROVE  in_flight' \subseteq in_flight /\ attempt_counter' = attempt_counter
    BY <1>1 DEF ConnThread, HandleHello, SendAck, HandleReport, AcceptResult, DropResult,
                Disconnect, Settle, accounts
  <1>2. ASSUME NEW c \in Conns,
               \/ WorkerStep(c) \/ WorkerClose(c)
               \/ \E w \in Workers, b \in Boots, obs \in HelloObservations : Connect(c, w, b, obs)
               \/ \E obs \in Observations : WorkerReport(c, obs)
        PROVE  in_flight' \subseteq in_flight /\ attempt_counter' = attempt_counter
    BY <1>2 DEF WorkerStep, ConnectReply, WorkerWarm, WorkerIgnore, WorkerClose, Connect,
                WorkerReport, accounts
  <1>3. ASSUME NEW u \in unsent, SendTopic(u) \/ SendTopicFails(u)
        PROVE  in_flight' \subseteq in_flight /\ attempt_counter' = attempt_counter
    BY <1>3 DEF SendTopic, SendTopicFails, Settle, accounts
  <1>4. CASE BumpDependencyGeneration \/ BumpWarmthGeneration \/ RollEpoch \/ UNCHANGED vars
    BY <1>4 DEF BumpDependencyGeneration, BumpWarmthGeneration, RollEpoch, vars, accounts
  <1>5. QED
    BY <1>1, <1>2, <1>3, <1>4, StepKinds DEF CallerStep

LEMMA NextNumber ==
    \A n, k \in Nat : /\ k < n => k < n + 1 /\ k # n
                      /\ n < n + 1
  OBVIOUS

LEMMA IssueCounts ==
    ASSUME BaseInv, NEW o \in Objects, NEW w \in Workers, IssueWarm(o, w)
    PROVE  /\ attempt_counter \in Nat /\ attempt_counter' = attempt_counter + 1
           /\ \A r \in in_flight : r.attempt \in Nat /\ r.attempt < attempt_counter
  BY DEF IssueWarm, BaseInv, AccountsInv, AccountsType, Numbered

\* A new attempt has a new number, and goes to the connection of its worker.
LEMMA IssueEffect ==
    ASSUME BaseInv, RegistryIsLatestBoot, NEW o \in Objects, NEW w \in Workers, IssueWarm(o, w)
    PROVE  /\ \A r \in in_flight' :
                 \/ r \in in_flight
                 \/ /\ r.attempt = attempt_counter /\ r.object = o /\ r.worker = w
           /\ workers[w] \in Conns /\ client[workers[w]].worker = w
           /\ client[workers[w]].status # "unused"
           /\ UNCHANGED client
           /\ [attempt |-> attempt_counter, object |-> o, conn |-> workers[w]] \in unsent'
  <1>0. TypeOK /\ ConnsInv /\ AccountsInv
    BY DEF BaseInv
  <1>1. ASSUME NEW r \in in_flight', r \notin in_flight
        PROVE  r.attempt = attempt_counter /\ r.object = o /\ r.worker = w
    BY <1>1 DEF IssueWarm
  <1>2. workers[w] \in Conns /\ RegisteredAs(w) /\ workers[w] # NoConn
    BY <1>0, RegistryFields DEF IssueWarm, RegistryIsLatestBoot, RegisteredAs
  <1>3. client[workers[w]].worker = w /\ client[workers[w]].status # "unused"
    <2>1. ConnInv(workers[w]) /\ cs[workers[w]].registered /\ cs[workers[w]].id = w
      BY <1>0, <1>2 DEF ConnsInv, RegisteredAs
    <2>2. QED
      BY <2>1 DEF ConnInv, EndsAgree
  <1>4. UNCHANGED client
        /\ [attempt |-> attempt_counter, object |-> o, conn |-> workers[w]] \in unsent'
    BY DEF IssueWarm
  <1>5. QED
    BY <1>1, <1>2, <1>3, <1>4

LEMMA CarriedStep ==
    ASSUME BaseInv, RegistryIsLatestBoot, CarriedInv, [Next]_vars
    PROVE  CarriedInv'
  <1> SUFFICES ASSUME NEW c \in Conns, NEW a \in Nat, NEW o \in Objects, Carried(c, a, o)'
               PROVE  CarriedRight(c, a, o)'
    BY DEF CarriedInv
  <1>1. ASSUME Carried(c, a, o) PROVE CarriedRight(c, a, o)'
    <2>0. CarriedRight(c, a, o)
      BY <1>1 DEF CarriedInv
    <2>1. client'[c].worker = client[c].worker /\ client'[c].status # "unused"
      BY <2>0, ClientKeeps DEF CarriedRight, Connect
    <2>2. CASE in_flight' \subseteq in_flight /\ attempt_counter' = attempt_counter
      BY <2>0, <2>1, <2>2 DEF CarriedRight
    <2>3. ASSUME NEW p \in Objects, NEW w \in Workers, IssueWarm(p, w)
          PROVE  CarriedRight(c, a, o)'
      <3>1. a < attempt_counter' /\ a # attempt_counter
        BY <2>0, <2>3, IssueCounts, NextNumber DEF CarriedRight
      <3>2. \A r \in in_flight' : r.attempt = a => r \in in_flight
        BY <2>3, <3>1, IssueEffect
      <3>3. QED
        BY <2>0, <2>1, <3>1, <3>2 DEF CarriedRight
    <2>4. QED
      BY <2>2, <2>3, InFlightMoves
  <1>2. ASSUME NEW w \in Workers, IssueWarm(o, w), workers[w] = c, a = attempt_counter
        PROVE  CarriedRight(c, a, o)'
    <2>1. a < attempt_counter'
      BY <1>2, IssueCounts, NextNumber
    <2>2. \A r \in in_flight : r.attempt # a
      BY <1>2, IssueCounts, NextNumber
    <2>3. ASSUME NEW r \in in_flight', r.attempt = a PROVE r.object = o /\ r.worker = w
      <3>1. r \notin in_flight
        BY <2>2, <2>3
      <3>2. r \in in_flight \/ (r.object = o /\ r.worker = w)
        BY <1>2, IssueEffect
      <3>3. QED
        BY <3>1, <3>2
    <2>4. client'[c].worker = w /\ client'[c].status # "unused"
      BY <1>2, IssueEffect
    <2>5. QED
      BY <2>1, <2>3, <2>4 DEF CarriedRight
  <1>3. QED
    BY <1>1, <1>2, CarriedFrom

\* A connection that is not open any more puts its worker out of touch.
LEMMA ClosedIsOutOfTouch ==
    ASSUME TypeOK, NEW c \in Conns, client[c].status # "unused", ~Open(c)
    PROVE  WorkerOutOfTouch(client[c].worker)
  <1>1. client[c].status = "closed"
    BY ChannelTypes DEF Open, Clients
  <1>2. QED
    BY <1>1 DEF WorkerOutOfTouch

\* An attempt that a connection carries is carried on, is settled, or its worker is
\* out of touch.
LEMMA CarriedGoesOn ==
    ASSUME BaseInv, GensInv, CarriedInv, [Next]_vars, NEW r \in in_flight, r \in in_flight',
           NEW c \in Conns, NEW o \in Objects, Carried(c, r.attempt, o)
    PROVE  Carried(c, r.attempt, o)' \/ WorkerOutOfTouch(r.worker)'
  <1> DEFINE a == r.attempt
             Goal == Carried(c, r.attempt, o)' \/ WorkerOutOfTouch(r.worker)'
  <1>0. TypeOK /\ ClientsHaveBoots /\ ConnInv(c) /\ AccountsInv
    BY DEF BaseInv, ConnsInv
  <1>00. /\ a \in Nat /\ r.worker \in Workers /\ r.object = o /\ client[c].worker = r.worker
         /\ client[c].status # "unused"
    <2>1. a \in Nat /\ r.worker \in Workers
      BY <1>0 DEF AccountsInv, AccountsType, Attempts
    <2>2. QED
      BY <2>1 DEF CarriedInv, CarriedRight
  <1>1. ASSUME unsent \subseteq unsent',
               \A m \in Frames(toWorker[c]) : m.type = "WARM_TOPIC" => m \in Frames(toWorker'[c]),
               \A m \in Frames(toCoord[c]) : m.type = "WARM_RESULT" => m \in Frames(toCoord'[c])
        PROVE  Goal
    BY <1>1 DEF Carried
  <1>2. CASE client'[c].status \in {"failed", "closed"} /\ client'[c].worker = r.worker
    BY <1>2 DEF WorkerOutOfTouch
  <1>3. ASSUME NEW d \in Conns, ConnThread(d) PROVE Goal
    <2>0. unsent' = unsent
      BY <1>3 DEF ConnThread, HandleHello, SendAck, HandleReport, AcceptResult, DropResult,
                  Disconnect
    <2>1. CASE d # c
      BY <1>0, <1>1, <1>3, <2>0, <2>1, OthersSame
    <2>2. CASE SendAck(c)
      <3>1. Frames(toWorker[c]) \subseteq Frames(toWorker'[c])
        BY <1>0, <2>2, AckEffect
      <3>2. UNCHANGED toCoord
        BY <2>2 DEF SendAck
      <3>3. QED
        BY <1>1, <2>0, <3>1, <3>2
    <2>3. CASE HandleHello(c)
      <3>1. PICK m \in HelloMsgs : /\ m.type = "HELLO"
                                   /\ Frames(toCoord[c]) = {m} \cup Frames(toCoord'[c])
        BY <1>0, <2>3, HelloEffect
      <3>2. UNCHANGED toWorker
        BY <2>3 DEF HandleHello
      <3>3. QED
        BY <1>1, <2>0, <3>1, <3>2
    <2>4. CASE HandleReport(c)
      <3>1. /\ Frames(toCoord[c]) = {Head(toCoord[c])} \cup Frames(toCoord'[c])
            /\ Frames(toWorker[c]) \subseteq Frames(toWorker'[c])
        BY <1>0, <2>4, TakeEffect
      <3>2. Head(toCoord[c]).type = "REPORT"
        BY <2>4 DEF HandleReport, Receives
      <3>3. QED
        BY <1>1, <2>0, <3>1, <3>2
    <2>5. ASSUME AcceptResult(c) \/ DropResult(c) PROVE Goal
      <3> DEFINE m == Head(toCoord[c])
      <3>1. /\ Frames(toCoord[c]) = {m} \cup Frames(toCoord'[c])
            /\ Frames(toWorker[c]) \subseteq Frames(toWorker'[c])
            /\ UNCHANGED client
        BY <1>0, <2>5, TakeEffect
      <3>2. m.type = "WARM_RESULT"
        BY <2>5 DEF AcceptResult, DropResult, Receives
      <3> HIDE DEF m
      <3>3. CASE ~(m.attempt = a /\ m.object = o)
        BY <2>0, <3>1, <3>3 DEF Carried
      <3>4. CASE m.attempt = a /\ m.object = o
        <4>0. /\ cs[c].registered /\ UnderClient(c, m) /\ client[c].status \in {"running", "closed"}
              /\ cs[c].id = client[c].worker /\ cs[c].boot = client[c].boot
          BY <1>0, <3>1, <3>2 DEF ConnInv, FromWorker, EndsAgree
        <4>1. r \in Answers(c, m)
          BY <1>00, <3>4, <4>0 DEF Answers
        <4>2. CASE AcceptResult(c)
          <5>1. PICK s \in Answers(c, m) : in_flight' = in_flight \ {s}
            BY <4>2 DEF AcceptResult, Settle, m
          <5>2. s \in in_flight /\ s.attempt = r.attempt
            BY <3>4 DEF Answers
          <5>3. s = r
            BY <1>0, <5>2 DEF AccountsInv, Numbered
          <5>4. QED
            BY <5>1, <5>3
        <4>3. CASE DropResult(c)
          <5>1. ~Authorised(c, m)
            BY <4>1, <4>3 DEF DropResult, m
          <5>2. \/ client[c].epoch # epoch \/ client[c].warmth_gen # warmth_gen
                \/ client[c].dep_gen # dep_gen
            BY <4>0, <5>1 DEF Authorised, UnderClient
          <5>3. <<client[c].epoch, client[c].warmth_gen, client[c].dep_gen>> # authority
            BY <5>2 DEF authority
          <5>4. WorkerOutOfTouch(r.worker)
            BY <1>00, <4>0, <5>3 DEF WorkerOutOfTouch
          <5>5. QED
            BY <1>00, <5>4, OutOfTouchStays
        <4>4. QED
          BY <2>5, <4>2, <4>3
      <3>5. QED
        BY <3>3, <3>4
    <2>6. CASE Disconnect(c)
      BY <1>1, <2>0, <2>6 DEF Disconnect, channels
    <2>7. QED
      BY <1>3, <2>1, <2>2, <2>3, <2>4, <2>5, <2>6 DEF ConnThread
  <1>4. ASSUME NEW d \in Conns,
               \/ WorkerStep(d) \/ WorkerClose(d)
               \/ \E w \in Workers, b \in Boots, obs \in HelloObservations : Connect(d, w, b, obs)
               \/ \E obs \in Observations : WorkerReport(d, obs)
        PROVE  Goal
    <2>0. unsent' = unsent
      BY <1>4 DEF WorkerStep, ConnectReply, WorkerWarm, WorkerIgnore, WorkerClose, Connect,
                  WorkerReport
    <2>1. CASE d # c
      BY <1>0, <1>1, <1>4, <2>0, <2>1, OthersSame
    <2>2. CASE ConnectReply(c)
      <3>1. UNCHANGED toCoord
        BY <2>2 DEF ConnectReply
      <3>2. CASE client'[c].status = "failed"
        BY <1>0, <1>00, <1>2, <2>2, <3>2, ReplyEffect
      <3>3. CASE \E m \in Frames(toWorker[c]) :
                    m.type = "HELLO_ACK" /\ Frames(toWorker[c]) = Frames(toWorker'[c]) \cup {m}
        BY <1>1, <2>0, <3>1, <3>3
      <3>4. QED
        BY <1>0, <2>2, <3>2, <3>3, ReplyEffect
    <2>3. ASSUME NEW success \in BOOLEAN, WorkerWarm(c, success) PROVE Goal
      <3>1. PICK t \in Frames(toWorker[c]), m \in ResultMsgs :
              /\ m.type = "WARM_RESULT" /\ m.attempt = t.attempt /\ m.object = t.object
              /\ Frames(toWorker[c]) = Frames(toWorker'[c]) \cup {t}
              /\ Frames(toCoord'[c]) = Frames(toCoord[c]) \cup {m}
        BY <1>0, <2>3, WarmEffect
      <3>2. QED
        BY <2>0, <3>1 DEF Carried
    <2>4. CASE WorkerIgnore(c)
      <3>1. UNCHANGED toCoord /\ Head(toWorker[c]).type # "WARM_TOPIC" /\ toWorker[c] # <<>>
            /\ toWorker' = [toWorker EXCEPT ![c] = Tail(@)]
        BY <2>4 DEF WorkerIgnore
      <3>2. Frames(toWorker[c]) = {Head(toWorker[c])} \cup Frames(toWorker'[c])
        BY <1>0, <3>1, WorkerTakenFrames
      <3>3. QED
        BY <1>1, <2>0, <3>1, <3>2
    <2>5. CASE WorkerClose(c)
      BY <1>0, <1>00, <1>2, <2>5, CloseEffect
    <2>6. CASE \E w \in Workers, b \in Boots, obs \in HelloObservations : Connect(c, w, b, obs)
      BY <1>00, <2>6 DEF Connect
    <2>7. ASSUME NEW obs \in Observations, WorkerReport(c, obs) PROVE Goal
      <3>1. Frames(toCoord[c]) \subseteq Frames(toCoord'[c])
        BY <1>0, <2>7, WorkerReportEffect
      <3>2. UNCHANGED toWorker
        BY <2>7 DEF WorkerReport
      <3>3. QED
        BY <1>1, <2>0, <3>1, <3>2
    <2>8. QED
      BY <1>4, <2>1, <2>2, <2>3, <2>4, <2>5, <2>6, <2>7 DEF WorkerStep
  <1>5. ASSUME ~Open(c) PROVE Goal
    <2>1. WorkerOutOfTouch(r.worker)
      BY <1>0, <1>00, <1>5, ClosedIsOutOfTouch
    <2>2. QED
      BY <1>00, <2>1, OutOfTouchStays
  <1>6. ASSUME NEW u \in unsent, SendTopic(u) PROVE Goal
    <2>1. PICK m \in TopicMsgs :
              /\ m.type = "WARM_TOPIC" /\ m.object = u.object /\ m.attempt = u.attempt
              /\ u = [attempt |-> u.attempt, object |-> u.object, conn |-> u.conn]
              /\ \A d \in Conns \ {u.conn} : toWorker'[d] = toWorker[d]
              /\ Open(u.conn) => Frames(toWorker'[u.conn]) = Frames(toWorker[u.conn]) \cup {m}
              /\ ~Open(u.conn) => toWorker'[u.conn] = toWorker[u.conn]
      BY <1>0, <1>6, TopicEffect
    <2>2. UNCHANGED toCoord /\ unsent' = unsent \ {u}
      BY <1>6 DEF SendTopic
    <2>3. Frames(toWorker[c]) \subseteq Frames(toWorker'[c])
      BY <2>1
    <2>4. CASE u # [attempt |-> a, object |-> o, conn |-> c]
      BY <2>2, <2>3, <2>4 DEF Carried
    <2>5. CASE u = [attempt |-> a, object |-> o, conn |-> c] /\ Open(c)
      <3>1. u.conn = c /\ m.attempt = a /\ m.object = o
        BY <2>1, <2>5
      <3>2. m \in Frames(toWorker'[c])
        BY <2>1, <2>5, <3>1
      <3>3. QED
        BY <2>1, <3>1, <3>2 DEF Carried
    <2>6. QED
      BY <1>5, <2>4, <2>5
  <1>7. ASSUME NEW u \in unsent, SendTopicFails(u) PROVE Goal
    <2>1. UNCHANGED channels /\ unsent' = unsent \ {u} /\ ~Open(u.conn)
      BY <1>7 DEF SendTopicFails
    <2>2. CASE u # [attempt |-> a, object |-> o, conn |-> c]
      BY <2>1, <2>2 DEF Carried, channels
    <2>3. CASE u = [attempt |-> a, object |-> o, conn |-> c]
      <3>1. u.conn = c
        BY <2>3
      <3>2. QED
        BY <1>5, <2>1, <3>1
    <2>4. QED
      BY <2>2, <2>3
  <1>8. CASE \/ \E p \in Objects, w \in Workers : IssueWarm(p, w)
             \/ BumpDependencyGeneration \/ BumpWarmthGeneration \/ RollEpoch
             \/ UNCHANGED vars
    <2>1. UNCHANGED channels /\ unsent \subseteq unsent'
      BY <1>8 DEF IssueWarm, BumpDependencyGeneration, BumpWarmthGeneration, RollEpoch, vars
    <2>2. QED
      BY <1>1, <2>1 DEF channels
  <1>9. QED
    BY <1>3, <1>4, <1>6, <1>7, <1>8, StepKinds DEF CallerStep

\* An attempt is under way when some connection carries it.
LEMMA UnderWayForm ==
    ASSUME TypeOK, NEW a
    PROVE  UnderWay(a) <=> \E c \in Conns, o \in Objects : Carried(c, a, o)
  <1>1. ASSUME NEW c \in Conns, NEW m \in Frames(toWorker[c]), m.type = "WARM_TOPIC"
        PROVE  m.object \in Objects
    <2>1. toWorker[c] \in Seq(WorkerFrames)
      BY ChannelTypes
    <2>2. m \in WorkerFrames
      BY <2>1 DEF Frames
    <2>3. m \in TopicMsgs
      BY <1>1, <2>2 DEF WorkerFrames, AckMsgs, ErrorMsgs
    <2>4. QED
      BY <2>3 DEF TopicMsgs
  <1>2. ASSUME NEW c \in Conns, NEW m \in Frames(toCoord[c]), m.type = "WARM_RESULT"
        PROVE  m.object \in Objects
    <2>1. toCoord[c] \in Seq(CoordFrames)
      BY ChannelTypes
    <2>2. m \in CoordFrames
      BY <2>1 DEF Frames
    <2>3. m \in ResultMsgs
      BY <1>2, <2>2 DEF CoordFrames, HelloMsgs, ReportMsgs
    <2>4. QED
      BY <2>3 DEF ResultMsgs
  <1>3. ASSUME UnderWay(a) PROVE \E c \in Conns, o \in Objects : Carried(c, a, o)
    <2>1. CASE \E u \in unsent : u.attempt = a
      <3>1. PICK u \in unsent : u.attempt = a
        BY <2>1
      <3>2. u \in [attempt : Nat, object : Objects, conn : Conns]
        BY DEF TypeOK, ExchangeType
      <3>3. u.object \in Objects /\ u.conn \in Conns
            /\ u = [attempt |-> a, object |-> u.object, conn |-> u.conn]
        BY <3>1, <3>2
      <3>4. Carried(u.conn, a, u.object)
        BY <3>3 DEF Carried
      <3>5. QED
        BY <3>3, <3>4
    <2>2. CASE \E c \in Conns : \E i \in DOMAIN toWorker[c] :
                  toWorker[c][i].type = "WARM_TOPIC" /\ toWorker[c][i].attempt = a
      <3>1. PICK c \in Conns : \E m \in Frames(toWorker[c]) : m.type = "WARM_TOPIC" /\ m.attempt = a
        BY <2>2 DEF Frames
      <3>2. PICK m \in Frames(toWorker[c]) : m.type = "WARM_TOPIC" /\ m.attempt = a
        BY <3>1
      <3>3. Carried(c, a, m.object)
        BY <3>2 DEF Carried
      <3>4. QED
        BY <1>1, <3>2, <3>3
    <2>3. CASE \E c \in Conns : \E i \in DOMAIN toCoord[c] :
                  toCoord[c][i].type = "WARM_RESULT" /\ toCoord[c][i].attempt = a
      <3>1. PICK c \in Conns : \E m \in Frames(toCoord[c]) : m.type = "WARM_RESULT" /\ m.attempt = a
        BY <2>3 DEF Frames
      <3>2. PICK m \in Frames(toCoord[c]) : m.type = "WARM_RESULT" /\ m.attempt = a
        BY <3>1
      <3>3. Carried(c, a, m.object)
        BY <3>2 DEF Carried
      <3>4. QED
        BY <1>2, <3>2, <3>3
    <2>4. QED
      BY <1>3, <2>1, <2>2, <2>3 DEF UnderWay
  <1>4. ASSUME NEW c \in Conns, NEW o \in Objects, Carried(c, a, o) PROVE UnderWay(a)
    <2>1. CASE [attempt |-> a, object |-> o, conn |-> c] \in unsent
      <3>1. [attempt |-> a, object |-> o, conn |-> c].attempt = a
        OBVIOUS
      <3>2. QED
        BY <2>1, <3>1 DEF UnderWay
    <2>2. CASE \E m \in Frames(toWorker[c]) : m.type = "WARM_TOPIC" /\ m.attempt = a /\ m.object = o
      BY <2>2 DEF UnderWay, Frames
    <2>3. CASE \E m \in Frames(toCoord[c]) : m.type = "WARM_RESULT" /\ m.attempt = a /\ m.object = o
      BY <2>3 DEF UnderWay, Frames
    <2>4. QED
      BY <1>4, <2>1, <2>2, <2>3 DEF Carried
  <1>5. QED
    BY <1>3, <1>4

\* The same, in the next state.
LEMMA CarriedIsUnderWayNext ==
    ASSUME NEW c \in Conns, NEW o \in Objects, NEW a, Carried(c, a, o)'
    PROVE  UnderWay(a)'
  <1>1. CASE [attempt |-> a, object |-> o, conn |-> c] \in unsent'
    <2>1. [attempt |-> a, object |-> o, conn |-> c].attempt = a
      OBVIOUS
    <2>2. QED
      BY <1>1, <2>1 DEF UnderWay
  <1>2. CASE \E m \in Frames(toWorker'[c]) : m.type = "WARM_TOPIC" /\ m.attempt = a /\ m.object = o
    BY <1>2 DEF UnderWay, Frames
  <1>3. CASE \E m \in Frames(toCoord'[c]) : m.type = "WARM_RESULT" /\ m.attempt = a /\ m.object = o
    BY <1>3 DEF UnderWay, Frames
  <1>4. QED
    BY <1>1, <1>2, <1>3 DEF Carried

LEMMA NothingForgottenStep ==
    ASSUME BaseInv, BaseInv', RegistryIsLatestBoot, GensInv, CarriedInv, NoAttemptForgotten,
           [Next]_vars
    PROVE  NoAttemptForgotten'
  <1> SUFFICES ASSUME NEW r \in in_flight'
               PROVE  UnderWay(r.attempt)' \/ WorkerOutOfTouch(r.worker)'
    BY DEF NoAttemptForgotten
  <1>0. TypeOK /\ TypeOK' /\ AccountsInv
    BY DEF BaseInv
  <1>1. ASSUME NEW c \in Conns, NEW o \in Objects, NEW a, Carried(c, a, o)'
        PROVE  UnderWay(a)'
    BY <1>0, <1>1, CarriedIsUnderWayNext
  <1>2. CASE r \in in_flight
    <2>1. r.worker \in Workers
      BY <1>0, <1>2 DEF AccountsInv, AccountsType, Attempts
    <2>2. CASE WorkerOutOfTouch(r.worker)
      BY <2>1, <2>2, OutOfTouchStays
    <2>3. CASE UnderWay(r.attempt)
      <3>1. PICK c \in Conns, o \in Objects : Carried(c, r.attempt, o)
        BY <1>0, <2>3, UnderWayForm
      <3>2. Carried(c, r.attempt, o)' \/ WorkerOutOfTouch(r.worker)'
        BY <1>2, <3>1, CarriedGoesOn
      <3>3. QED
        BY <1>1, <3>2
    <2>4. QED
      BY <1>2, <2>2, <2>3 DEF NoAttemptForgotten
  <1>3. CASE r \notin in_flight
    <2>1. PICK o \in Objects, w \in Workers : IssueWarm(o, w)
      BY <1>3, InFlightMoves
    <2>2. /\ r.attempt = attempt_counter /\ workers[w] \in Conns
          /\ [attempt |-> attempt_counter, object |-> o, conn |-> workers[w]] \in unsent'
      BY <1>3, <2>1, IssueEffect
    <2>3. PICK c \in Conns : c = workers[w]
      BY <2>2
    <2>4. Carried(c, r.attempt, o)'
      BY <2>2, <2>3 DEF Carried
    <2>5. QED
      BY <1>1, <2>4
  <1>4. QED
    BY <1>2, <1>3

\* The exchange itself never loses an attempt: one that is in flight with nothing
\* under way for it belongs to a worker that lost a connection, was refused, or acts
\* under generations the coordinator has left behind.
THEOREM NoAttemptForgottenHolds == Spec => []NoAttemptForgotten
  <1> DEFINE Inv == GensInv /\ CarriedInv /\ NoAttemptForgotten
  <1>1. Init => Inv
    <2> SUFFICES ASSUME Init PROVE Inv
      OBVIOUS
    <2>1. GensInv
      BY NoFrames DEF Init, GensInv, Past
    <2>2. CarriedInv
      BY NoFrames DEF Init, CarriedInv, Carried
    <2>3. NoAttemptForgotten
      BY DEF Init, NoAttemptForgotten
    <2>4. QED
      BY <2>1, <2>2, <2>3
  <1>2. /\ BaseInv /\ RegistryIsLatestBoot /\ Inv /\ BaseInv' /\ [Next]_vars
        => Inv'
    BY GensStep, CarriedStep, NothingForgottenStep
  <1>3. QED
    BY <1>1, <1>2, RegistryAlways, PTL DEF Spec

=============================================================================
