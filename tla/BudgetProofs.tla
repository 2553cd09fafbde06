---------------------------- MODULE BudgetProofs ----------------------------
(***************************************************************************)
(* Theorems about the budget tracker, for any word size, kinds, amounts    *)
(* and limits.                                                             *)
(***************************************************************************)
EXTENDS Budget, FiniteSetTheorems, TLAPS

---------------------------------------------------------------------------
(* Words *)

\* What wrapping around makes of a number.
LEMMA Wrap ==
    ASSUME NEW x \in Nat
    PROVE  /\ x % Word \in Words
           /\ x < Word => x % Word = x
           /\ x % Word <= x
  BY BudgetAssumption DEF BudgetAssumption, Words

---------------------------------------------------------------------------
(* Types *)

\* A word less another is a word.
LEMMA LessType ==
    ASSUME NEW u \in Words, NEW a \in Words
    PROVE  Less(u, a) \in Words
  BY BudgetAssumption DEF BudgetAssumption, Less, Words

LEMMA NewIdType ==
    ASSUME TypeOK
    PROVE  NewId \in Words \ {0} /\ (NewId + 1) % Word \in Words
  <1>1. NewId \in Words \ {0}
    BY BudgetAssumption DEF BudgetAssumption, TypeOK, NewId, Words
  <1>2. NewId + 1 \in Nat
    BY <1>1, BudgetAssumption DEF BudgetAssumption, Words
  <1>3. QED
    BY <1>1, <1>2, Wrap

LEMMA TypeInit == Init => TypeOK
  <1> SUFFICES ASSUME Init PROVE TypeOK
    OBVIOUS
  <1>1. 0 \in Words /\ 1 \in Words /\ LimitValues \subseteq Words
    BY BudgetAssumption DEF BudgetAssumption, Words
  <1>2. DOMAIN reservations = {}
    BY DEF Init
  <1>3. limits \in [Kinds -> Words] /\ usage \in [Kinds -> Words]
    BY <1>1 DEF Init
  <1>4. reissued \in BOOLEAN
    BY DEF Init
  <1>5. QED
    BY <1>1, <1>2, <1>3, <1>4 DEF Init, TypeOK

LEMMA TypeStep == TypeOK /\ [Next]_vars => TypeOK'
  <1> SUFFICES ASSUME TypeOK, [Next]_vars PROVE TypeOK'
    OBVIOUS
  <1>0. /\ 0 \in Words /\ Words \subseteq Nat
        /\ Amounts \subseteq Words /\ LimitValues \subseteq Words
    BY BudgetAssumption DEF BudgetAssumption, Words
  <1>1. ASSUME NEW k \in Kinds, NEW a \in Amounts, Reserve(k, a) PROVE TypeOK'
    <2>1. next_id' \in Words /\ NewId \in Words
      BY <1>1, NewIdType DEF Reserve
    <2>2. a \in Words \ {0}
      BY <1>0, <1>1 DEF Reserve, Granted
    <2>3. DOMAIN reservations' \subseteq Words
          /\ \A id \in DOMAIN reservations' :
                reservations'[id] \in [kind : Kinds, amount : Words \ {0}]
      <3>1. CASE NewId \in DOMAIN reservations
        BY <1>1, <3>1 DEF Reserve, TypeOK
      <3>2. CASE NewId \notin DOMAIN reservations
        BY <1>1, <2>1, <2>2, <3>2 DEF Reserve, TypeOK
      <3>3. QED
        BY <3>1, <3>2
    <2>4. usage' \in [Kinds -> Words]
      <3>1. usage[k] \in Nat /\ a \in Nat
        BY <1>0, <2>2 DEF TypeOK
      <3>2. usage[k] + a \in Nat
        BY <3>1
      <3>3. (usage[k] + a) % Word \in Words
        BY <3>2, Wrap
      <3>4. QED
        BY <1>1, <3>3 DEF Reserve, TypeOK
    <2>5. wrapped' \subseteq Kinds
      BY <1>1 DEF Reserve, TypeOK
    <2>6. reissued' \in BOOLEAN
      BY <1>1 DEF Reserve
    <2>7. limits' = limits
      BY <1>1 DEF Reserve
    <2>8. QED
      BY <2>1, <2>3, <2>4, <2>5, <2>6, <2>7 DEF TypeOK
  <1>2. ASSUME NEW id \in Words, Release(id) PROVE TypeOK'
    <2>1. reservations[id] \in [kind : Kinds, amount : Words \ {0}]
      BY <1>2 DEF Release, TypeOK
    <2>2. usage' \in [Kinds -> Words]
      <3> DEFINE r == reservations[id]
      <3>1. usage[r.kind] \in Words /\ r.amount \in Words
        BY <2>1 DEF TypeOK
      <3>2. Less(usage[r.kind], r.amount) \in Words
        BY <3>1, LessType
      <3>3. QED
        BY <1>2, <3>2 DEF Release, TypeOK
    <2>3. DOMAIN reservations' = DOMAIN reservations \ {id}
          /\ \A i \in DOMAIN reservations' : reservations'[i] = reservations[i]
      BY <1>2 DEF Release, Restrict
    <2>4. QED
      BY <1>2, <2>2, <2>3 DEF Release, TypeOK
  <1>3. ASSUME NEW k \in Kinds, NEW v \in LimitValues, SetLimit(k, v) PROVE TypeOK'
    BY <1>0, <1>3 DEF SetLimit, TypeOK
  <1>4. CASE UNCHANGED vars
    BY <1>4 DEF vars, TypeOK
  <1>5. QED
    BY <1>1, <1>2, <1>3, <1>4 DEF Next

\* The counters stay words and the table holds positive amounts, whatever wraps
\* around.
THEOREM TypeCorrect == Spec => []TypeOK
  BY TypeInit, TypeStep, PTL DEF Spec

---------------------------------------------------------------------------
(* What reservations hold *)

\* The units of one reservation.
OwnUnits(id, amount) == {id} \X (1 .. amount)

LEMMA OwnUnitsCount ==
    ASSUME NEW id, NEW amount \in Nat
    PROVE  IsFiniteSet(OwnUnits(id, amount)) /\ Cardinality(OwnUnits(id, amount)) = amount
  <1>1. IsFiniteSet({id}) /\ Cardinality({id}) = 1
    BY FS_Singleton
  <1>2. IsFiniteSet(1 .. amount) /\ Cardinality(1 .. amount) = amount
    BY FS_Interval
  <1>3. IsFiniteSet(OwnUnits(id, amount))
        /\ Cardinality(OwnUnits(id, amount)) = Cardinality({id}) * Cardinality(1 .. amount)
    BY <1>1, <1>2, FS_Product DEF OwnUnits
  <1>4. QED
    BY <1>1, <1>2, <1>3

LEMMA HeldType ==
    ASSUME TypeOK, NEW k
    PROVE  IsFiniteSet(HeldUnits(k)) /\ Held(k) \in Nat
  <1>1. IsFiniteSet(Words)
    BY FS_Interval, BudgetAssumption DEF BudgetAssumption, Words
  <1>2. IsFiniteSet(DOMAIN reservations) /\ IsFiniteSet(Words \ {0})
    BY <1>1, FS_Subset DEF TypeOK
  <1>3. IsFiniteSet((DOMAIN reservations) \X (Words \ {0}))
    BY <1>2, FS_Product
  <1>4. IsFiniteSet(HeldUnits(k))
    BY <1>3, FS_Subset DEF HeldUnits
  <1>5. QED
    BY <1>4, FS_CardinalityType DEF Held

\* A reservation with a new id adds its amount to its kind.
LEMMA ReserveHolds ==
    ASSUME TypeOK, NEW kind \in Kinds, NEW amount \in Amounts, Reserve(kind, amount),
           NewId \notin DOMAIN reservations
    PROVE  \A k \in Kinds : Held(k)' = IF k = kind THEN Held(k) + amount ELSE Held(k)
  <1>0. amount \in Words \ {0} /\ Words \subseteq Nat /\ NewId \in Words
    BY BudgetAssumption, NewIdType DEF BudgetAssumption, Words, Reserve, Granted
  <1>1. /\ DOMAIN reservations' = DOMAIN reservations \cup {NewId}
        /\ reservations'[NewId] = [kind |-> kind, amount |-> amount]
        /\ \A id \in DOMAIN reservations : reservations'[id] = reservations[id]
    BY DEF Reserve
  <1>2. HeldUnits(kind)' = HeldUnits(kind) \cup OwnUnits(NewId, amount)
    <2>1. ASSUME NEW u PROVE u \in HeldUnits(kind)' <=> u \in HeldUnits(kind) \cup OwnUnits(NewId, amount)
      <3>1. u \in HeldUnits(kind)' =>
               u \in HeldUnits(kind) \cup OwnUnits(NewId, amount)
        <4> SUFFICES ASSUME u \in HeldUnits(kind)'
                     PROVE  u \in HeldUnits(kind) \cup OwnUnits(NewId, amount)
          OBVIOUS
        <4>1. PICK id \in DOMAIN reservations', n \in Words \ {0} : u = <<id, n>>
          BY DEF HeldUnits
        <4>2. reservations'[id].kind = kind /\ n <= reservations'[id].amount
          BY <4>1 DEF HeldUnits
        <4>3. CASE id = NewId
          <5>1. n \in 1 .. amount
            BY <1>0, <1>1, <4>2, <4>3
          <5>2. QED
            BY <4>1, <4>3, <5>1 DEF OwnUnits
        <4>4. CASE id # NewId
          <5>1. id \in DOMAIN reservations /\ reservations'[id] = reservations[id]
            BY <1>1, <4>4
          <5>2. QED
            BY <4>1, <4>2, <5>1 DEF HeldUnits
        <4>5. QED
          BY <4>3, <4>4
      <3>2. u \in HeldUnits(kind) => u \in HeldUnits(kind)'
        BY <1>1 DEF HeldUnits
      <3>3. u \in OwnUnits(NewId, amount) => u \in HeldUnits(kind)'
        <4> SUFFICES ASSUME u \in OwnUnits(NewId, amount) PROVE u \in HeldUnits(kind)'
          OBVIOUS
        <4>1. PICK n \in 1 .. amount : u = <<NewId, n>>
          BY DEF OwnUnits
        <4>2. n \in Words \ {0} /\ n <= amount
          BY <1>0, BudgetAssumption DEF BudgetAssumption, Words
        <4>3. QED
          BY <1>1, <4>1, <4>2 DEF HeldUnits
      <3>4. QED
        BY <3>1, <3>2, <3>3
    <2>2. QED
      BY <2>1
  <1>3. HeldUnits(kind) \cap OwnUnits(NewId, amount) = {}
    BY DEF HeldUnits, OwnUnits
  <1>4. ASSUME NEW k \in Kinds, k # kind PROVE HeldUnits(k)' = HeldUnits(k)
    <2>1. \A id \in DOMAIN reservations' : reservations'[id].kind = k => id \in DOMAIN reservations
      BY <1>1, <1>4
    <2>2. QED
      BY <1>1, <2>1 DEF HeldUnits
  <1>5. Held(kind)' = Held(kind) + amount
    <2> DEFINE old == HeldUnits(kind)
               new == OwnUnits(NewId, amount)
    <2>1. IsFiniteSet(old) /\ Cardinality(old) \in Nat
      BY HeldType DEF Held
    <2>2. IsFiniteSet(new) /\ Cardinality(new) = amount
      BY <1>0, OwnUnitsCount
    <2>3. Cardinality(old \cup new) = Cardinality(old) + amount - Cardinality(old \cap new)
      <3> HIDE DEF old, new
      <3>1. QED
        BY <2>1, <2>2, FS_Union
    <2>4. Cardinality(old \cap new) = 0
      BY <1>3, FS_EmptySet
    <2>5. Held(kind)' = Cardinality(old \cup new) /\ Held(kind) = Cardinality(old)
      BY <1>2 DEF Held
    <2>6. QED
      BY <1>0, <2>1, <2>3, <2>4, <2>5
  <1>6. QED
    BY <1>4, <1>5 DEF Held

\* A release takes its amount away from its kind, which held at least that.
LEMMA ReleaseHolds ==
    ASSUME TypeOK, NEW id \in Words, Release(id)
    PROVE  LET r == reservations[id]
           IN  /\ r.amount <= Held(r.kind)
               /\ \A k \in Kinds : Held(k)' = IF k = r.kind THEN Held(k) - r.amount ELSE Held(k)
  <1>a. PICK kind, amount : kind = reservations[id].kind /\ amount = reservations[id].amount
    OBVIOUS
  <1> DEFINE own == OwnUnits(id, amount)
  <1>0. id \in DOMAIN reservations /\ kind \in Kinds /\ amount \in Words \ {0} /\ Words \subseteq Nat
    BY <1>a, BudgetAssumption DEF BudgetAssumption, Words, Release, TypeOK
  <1>1. /\ DOMAIN reservations' = DOMAIN reservations \ {id}
        /\ \A i \in DOMAIN reservations \ {id} : reservations'[i] = reservations[i]
    BY DEF Release, Restrict
  <1>2. own \subseteq HeldUnits(kind)
    <2>1. ASSUME NEW n \in 1 .. amount PROVE n \in Words \ {0} /\ n <= amount
      BY <1>0, BudgetAssumption DEF BudgetAssumption, Words
    <2>2. QED
      BY <1>0, <1>a, <2>1 DEF HeldUnits, OwnUnits
  <1>3. HeldUnits(kind)' = HeldUnits(kind) \ own
    <2>1. ASSUME NEW n \in Words \ {0}, n <= amount PROVE n \in 1 .. amount
      BY <1>0, <2>1
    <2>2. ASSUME NEW u PROVE u \in HeldUnits(kind)' <=> u \in HeldUnits(kind) \ own
      <3>1. u \in HeldUnits(kind)' => u \in HeldUnits(kind) \ own
        BY <1>1 DEF HeldUnits, OwnUnits
      <3>2. u \in HeldUnits(kind) \ own => u \in HeldUnits(kind)'
        <4> SUFFICES ASSUME u \in HeldUnits(kind), u \notin own PROVE u \in HeldUnits(kind)'
          OBVIOUS
        <4>1. PICK i \in DOMAIN reservations, n \in Words \ {0} : u = <<i, n>>
          BY DEF HeldUnits
        <4>2. reservations[i].kind = kind /\ n <= reservations[i].amount
          BY <4>1 DEF HeldUnits
        <4>3. i # id
          BY <1>a, <2>1, <4>1, <4>2 DEF OwnUnits
        <4>4. QED
          BY <1>1, <4>1, <4>2, <4>3 DEF HeldUnits
      <3>3. QED
        BY <3>1, <3>2
    <2>3. QED
      BY <2>2
  <1>4. ASSUME NEW k \in Kinds, k # kind PROVE HeldUnits(k)' = HeldUnits(k)
    BY <1>1, <1>4, <1>a DEF HeldUnits
  <1>5. /\ IsFiniteSet(HeldUnits(kind)) /\ Held(kind) \in Nat
        /\ IsFiniteSet(own) /\ Cardinality(own) = amount
    BY <1>0, HeldType, OwnUnitsCount
  <1>6. amount <= Held(kind)
    <2> HIDE DEF own
    <2>1. Cardinality(own) <= Cardinality(HeldUnits(kind))
      BY <1>2, <1>5, FS_Subset
    <2>2. QED
      BY <1>5, <2>1 DEF Held
  <1>7. Held(kind)' = Held(kind) - amount
    <2>1. HeldUnits(kind) \cap own = own
      BY <1>2
    <2>2. Cardinality(HeldUnits(kind) \ own) = Cardinality(HeldUnits(kind)) - Cardinality(own)
      <3> HIDE DEF own
      <3>1. QED
        BY <1>5, <2>1, FS_Difference
    <2>3. Held(kind)' = Cardinality(HeldUnits(kind) \ own)
      BY <1>3 DEF Held
    <2>4. QED
      BY <1>5, <2>2, <2>3 DEF Held
  <1>8. QED
    BY <1>4, <1>6, <1>7, <1>a DEF Held

---------------------------------------------------------------------------
(* The counters.  UsageIsHeld is inductive given the types. *)

LEMMA UsageInit == Init => UsageIsHeld
  <1> SUFFICES ASSUME Init PROVE UsageIsHeld
    OBVIOUS
  <1>1. ASSUME NEW k \in Kinds PROVE Held(k) = 0
    <2>1. HeldUnits(k) = {}
      BY DEF Init, HeldUnits
    <2>2. QED
      BY <2>1, FS_EmptySet DEF Held
  <1>2. QED
    BY <1>1 DEF Init, UsageIsHeld

LEMMA UsageStep == TypeOK /\ UsageIsHeld /\ [Next]_vars => UsageIsHeld'
  <1> SUFFICES ASSUME TypeOK, UsageIsHeld, [Next]_vars, ~reissued', NEW k \in Kinds
               PROVE  usage'[k] <= Held(k)' /\ (k \notin wrapped' => usage'[k] = Held(k)')
    BY DEF UsageIsHeld
  <1>0. usage[k] \in Words /\ usage[k] \in Nat /\ Held(k) \in Nat /\ Words \subseteq Nat
    BY HeldType, BudgetAssumption DEF BudgetAssumption, TypeOK, Words
  <1>1. ASSUME ~reissued PROVE usage[k] <= Held(k) /\ (k \notin wrapped => usage[k] = Held(k))
    BY <1>1 DEF UsageIsHeld
  <1>2. ASSUME NEW kind \in Kinds, NEW a \in Amounts, Reserve(kind, a)
        PROVE  usage'[k] <= Held(k)' /\ (k \notin wrapped' => usage'[k] = Held(k)')
    <2>1. ~reissued /\ NewId \notin DOMAIN reservations
      BY <1>2 DEF Reserve
    <2>2. Held(k)' = IF k = kind THEN Held(k) + a ELSE Held(k)
      BY <1>2, <2>1, ReserveHolds
    <2>3. a \in Nat
      BY BudgetAssumption DEF BudgetAssumption
    <2>4. CASE k = kind
      <3>1. usage'[k] = (usage[k] + a) % Word
        BY <1>2, <2>4 DEF Reserve, TypeOK
      <3>2. usage[k] + a \in Nat
        BY <1>0, <2>3
      <3>3. /\ (usage[k] + a) % Word \in Words
            /\ (usage[k] + a) % Word <= usage[k] + a
            /\ usage[k] + a < Word => (usage[k] + a) % Word = usage[k] + a
        BY <3>2, Wrap
      <3>4. k \notin wrapped' => k \notin wrapped /\ usage[k] + a < Word
        <4>1. wrapped' = IF usage[k] + a >= Word THEN wrapped \cup {k} ELSE wrapped
          BY <1>2, <2>4 DEF Reserve
        <4>2. Word \in Nat
          BY BudgetAssumption DEF BudgetAssumption
        <4>3. QED
          BY <3>2, <4>1, <4>2
      <3> DEFINE w == (usage[k] + a) % Word
      <3>5. w \in Nat
        BY <1>0, <3>3
      <3> HIDE DEF w
      <3>6. w <= usage[k] + a /\ (usage[k] + a < Word => w = usage[k] + a)
        BY <3>3 DEF w
      <3>7. usage'[k] = w /\ Held(k)' = Held(k) + a
        BY <2>2, <2>4, <3>1 DEF w
      <3>8. QED
        BY <1>0, <1>1, <2>1, <2>3, <3>4, <3>5, <3>6, <3>7
    <2>5. CASE k # kind
      <3>1. usage'[k] = usage[k]
        BY <1>2, <2>5 DEF Reserve, TypeOK
      <3>2. k \notin wrapped' => k \notin wrapped
        BY <1>2, <2>5 DEF Reserve
      <3>3. QED
        BY <1>1, <2>1, <2>2, <2>5, <3>1, <3>2
    <2>6. QED
      BY <2>4, <2>5
  <1>3. ASSUME NEW id \in Words, Release(id)
        PROVE  usage'[k] <= Held(k)' /\ (k \notin wrapped' => usage'[k] = Held(k)')
    <2>1. PICK kind, a : kind = reservations[id].kind /\ a = reservations[id].amount
      OBVIOUS
    <2>2. kind \in Kinds /\ a \in Nat
      BY <1>0, <1>3, <2>1 DEF Release, TypeOK
    <2>3. a <= Held(kind) /\ Held(k)' = IF k = kind THEN Held(k) - a ELSE Held(k)
      BY <1>3, <2>1, ReleaseHolds
    <2>4. ~reissued /\ wrapped' = wrapped
      BY <1>3 DEF Release
    <2>5. usage'[k] = IF k = kind THEN Less(usage[k], a) ELSE usage[k]
      BY <1>3, <2>1 DEF Release, TypeOK
    <2>6. QED
      BY <1>0, <1>1, <2>2, <2>3, <2>4, <2>5 DEF Less
  <1>4. ASSUME UNCHANGED <<reservations, usage, wrapped, reissued>>
        PROVE  usage'[k] <= Held(k)' /\ (k \notin wrapped' => usage'[k] = Held(k)')
    <2>1. Held(k)' = Held(k)
      BY <1>4 DEF Held, HeldUnits
    <2>2. QED
      BY <1>1, <1>4, <2>1
  <1>5. QED
    BY <1>2, <1>3, <1>4 DEF Next, SetLimit, vars

\* The usage counter is what the reservations of its kind hold, and after it has
\* wrapped around never more than that, for any word size, amounts and order of
\* releases.
THEOREM UsageIsHeldHolds == Spec => []UsageIsHeld
  <1>1. Spec => []TypeOK
    BY TypeCorrect
  <1>2. QED
    BY <1>1, UsageInit, UsageStep, PTL DEF Spec

\* A reservation granted under a limit leaves no more held than the limit admits:
\* the test of fits() neither overflows nor underflows, at any word size.
THEOREM GrantsRespectLimitHolds == Spec => GrantsRespectLimit
  <1>1. ASSUME TypeOK, UsageIsHeld, [Next]_vars, NEW k \in Kinds,
               \E id \in DOMAIN reservations' \ DOMAIN reservations : reservations'[id].kind = k,
               limits[k] # 0, k \notin wrapped, ~reissued
        PROVE  Held(k)' <= limits[k]
    <2>1. PICK id \in DOMAIN reservations' \ DOMAIN reservations : reservations'[id].kind = k
      BY <1>1
    <2>2. ASSUME NEW kind \in Kinds, NEW a \in Amounts, Reserve(kind, a)
          PROVE  Held(k)' <= limits[k]
      <3>1. NewId \notin DOMAIN reservations /\ id = NewId /\ kind = k
        BY <2>1, <2>2 DEF Reserve
      <3>2. Held(k)' = Held(k) + a
        BY <1>1, <2>2, <3>1, ReserveHolds
      <3>3. usage[k] = Held(k)
        BY <1>1 DEF UsageIsHeld
      <3>4. a <= limits[k] /\ usage[k] <= limits[k] - a
        BY <1>1, <2>2, <3>1 DEF Reserve, Granted, fits
      <3>5. a \in Nat /\ usage[k] \in Nat /\ limits[k] \in Nat
        BY <1>1, BudgetAssumption DEF BudgetAssumption, TypeOK, Words
      <3>6. QED
        BY <3>2, <3>3, <3>4, <3>5
    <2>3. ASSUME NEW i \in Words, Release(i) PROVE FALSE
      BY <2>1, <2>3 DEF Release, Restrict
    <2>4. ~UNCHANGED reservations
      BY <2>1
    <2>5. QED
      BY <1>1, <2>2, <2>3, <2>4 DEF Next, SetLimit, vars
  <1>2. TypeOK /\ UsageIsHeld /\ [Next]_vars =>
           [\A k \in Kinds :
              /\ \E id \in DOMAIN reservations' \ DOMAIN reservations : reservations'[id].kind = k
              /\ limits[k] # 0 /\ k \notin wrapped /\ ~reissued
              => Held(k)' <= limits[k]]_vars
    BY <1>1
  <1>3. Spec => [](TypeOK /\ UsageIsHeld)
    BY TypeCorrect, UsageIsHeldHolds, PTL
  <1>4. QED
    BY <1>2, <1>3, PTL DEF Spec, GrantsRespectLimit

=============================================================================
