--------------------------- MODULE FramingProofs ----------------------------
(* What one direction of a connection guarantees, for every set of messages    *)
(* and every bound: the reader returns whole frames in the order in which they *)
(* were begun, loses its place only where the worker's two writers collide, and *)
(* its handlers get back what was encoded.                                     *)
EXTENDS Framing, SequenceTheorems, FiniteSetTheorems, WellFoundedInduction, TLAPS

-----------------------------------------------------------------------------
(* Sequences *)

LEMMA NatSum == \A a, j \in Nat : j >= 1 => a + j \in Nat /\ a + j >= 1
OBVIOUS

LEMMA InRange ==
  \A a, j, l \in Nat : j >= 1 /\ a + j <= l => a + j \in 1..l
OBVIOUS

LEMMA Ranges ==
  \A p, l \in Nat : \A i \in 1..p :
    p \in 1..l => i \in 1..l /\ i \in 1..(p + 1) /\ i + 1 \in 1..(p + 1)
OBVIOUS

LEMMA ConcatAt ==
  ASSUME NEW S, NEW s \in Seq(S), NEW t \in Seq(S)
  PROVE  /\ s \o t \in Seq(S)
         /\ Len(s) \in Nat /\ Len(t) \in Nat
         /\ Len(s \o t) = Len(s) + Len(t)
         /\ \A i \in 1..Len(s) : (s \o t)[i] = s[i]
         /\ \A j \in 1..Len(t) : (s \o t)[j + Len(s)] = t[j]
<1>1. Len(s) \in Nat /\ Len(t) \in Nat
  BY LenProperties
<1>2. s \o t \in Seq(S) /\ Len(s \o t) = Len(s) + Len(t)
      /\ \A i \in 1..(Len(s) + Len(t)) :
           (s \o t)[i] = IF i <= Len(s) THEN s[i] ELSE t[i - Len(s)]
  BY ConcatProperties
<1> QED
  BY <1>1, <1>2

LEMMA SubSeqAt ==
  ASSUME NEW S, NEW s \in Seq(S), NEW a \in Nat, NEW b \in Nat, a <= b, b <= Len(s)
  PROVE  /\ SubSeq(s, a + 1, b) \in Seq(S)
         /\ Len(SubSeq(s, a + 1, b)) = b - a
         /\ \A i \in 1..(b - a) : SubSeq(s, a + 1, b)[i] = s[a + i]
<1>1. Len(s) \in Nat /\ s \in [1..Len(s) -> S]
  BY LenProperties
<1>2. SubSeq(s, a + 1, b) = [i \in 1..(b - a) |-> s[a + i]]
  BY <1>1
<1>3. \A i \in 1..(b - a) : s[a + i] \in S
  BY <1>1
<1> QED
  BY <1>2, <1>3, <1>1, IsASeq

-----------------------------------------------------------------------------
(* The encoders write words *)

\* Induction on the naturals, for a set of naturals.
LEMMA NatInd ==
  ASSUME NEW S, 0 \in S, \A n \in Nat : n \in S => n + 1 \in S
  PROVE  Nat \subseteq S
<1> SUFFICES ASSUME Nat \ S # {} PROVE FALSE
  OBVIOUS
<1>1. Nat \ S \subseteq Nat
  OBVIOUS
<1>2. PICK x \in Nat \ S : \A y \in Nat \ S : ~(<<y, x>> \in OpToRel(<, Nat))
  BY <1>1, NatLessThanWellFounded, WFMin, Zenon
<1>a. x \in Nat /\ x # 0
  OBVIOUS
<1>3. x - 1 \in Nat /\ x - 1 < x /\ (x - 1) + 1 = x
  BY <1>a
<1>4. <<x - 1, x>> \in OpToRel(<, Nat)
  BY <1>a, <1>3 DEF OpToRel
<1>5. x - 1 \in S
  BY <1>2, <1>3, <1>4, Zenon
<1> QED
  BY <1>2, <1>3, <1>5, Zenon

\* The recursive function of FlattenSeq.
Flattens(ss, n, f) ==
  f = [i \in 1..n |-> IF i = 1 THEN ss[i] ELSE f[i - 1] \o ss[i]]

LEMMA FlattenExists ==
  ASSUME NEW ss
  PROVE  \A n \in Nat : \E f : Flattens(ss, n, f)
<1> DEFINE S == {n \in Nat : \E f : Flattens(ss, n, f)}
<1>1. 0 \in S
  <2>1. Flattens(ss, 0, <<>>)
    BY DEF Flattens
  <2> QED
    BY <2>1
<1>2. ASSUME NEW n \in Nat, n \in S PROVE n + 1 \in S
  <2>1. PICK f : Flattens(ss, n, f)
    BY <1>2
  <2> DEFINE g == [i \in 1..(n + 1) |-> IF i <= n THEN f[i] ELSE IF i = 1 THEN ss[i] ELSE f[i - 1] \o ss[i]]
  <2>2. \A i \in 1..n : f[i] = IF i = 1 THEN ss[i] ELSE f[i - 1] \o ss[i]
    BY <2>1 DEF Flattens
  <2>3. ASSUME NEW i \in 1..(n + 1) PROVE g[i] = IF i = 1 THEN ss[i] ELSE g[i - 1] \o ss[i]
    <3>1. CASE i = 1
      <4>1. i <= n => i \in 1..n
        OBVIOUS
      <4> QED
        BY <2>2, <3>1, <4>1
    <3>2. CASE i # 1
      <4>1. i - 1 \in 1..(n + 1) /\ i - 1 <= n /\ (i <= n => i \in 1..n)
        BY <3>2
      <4>2. g[i - 1] = f[i - 1]
        BY <4>1
      <4> QED
        BY <2>2, <3>2, <4>1, <4>2
    <3> QED
      BY <3>1, <3>2
  <2>4. g = [i \in 1..(n + 1) |-> g[i]]
    OBVIOUS
  <2> HIDE DEF g
  <2>5. Flattens(ss, n + 1, g)
    BY <2>3, <2>4, Zenon DEF Flattens
  <2> QED
    BY <2>5
<1> QED
  <2> HIDE DEF S
  <2>1. Nat \subseteq S
    BY <1>1, <1>2, NatInd, Zenon
  <2> QED
    BY <2>1 DEF S

LEMMA FlattenForm ==
  ASSUME NEW A, NEW ss \in Seq(Seq(A)), Len(ss) # 0
  PROVE  \E f : /\ FlattenSeq(ss) = f[Len(ss)]
                /\ f[1] = ss[1]
                /\ \A i \in 1..Len(ss) : i # 1 => f[i] = f[i - 1] \o ss[i]
                /\ \A i \in 1..Len(ss) : f[i] \in Seq(A)
<1>1. Len(ss) \in Nat
  OBVIOUS
<1> DEFINE f == CHOOSE f : Flattens(ss, Len(ss), f)
<1>2. Flattens(ss, Len(ss), f)
  BY <1>1, FlattenExists, Zenon
<1>3. FlattenSeq(ss) = f[Len(ss)]
  BY DEF FlattenSeq, Flattens
<1> HIDE DEF f
<1>4. \A i \in 1..Len(ss) : f[i] = IF i = 1 THEN ss[i] ELSE f[i - 1] \o ss[i]
  BY <1>2 DEF Flattens
<1>5. 1 \in 1..Len(ss)
  BY <1>1
<1>6. f[1] = ss[1] /\ \A i \in 1..Len(ss) : i # 1 => f[i] = f[i - 1] \o ss[i]
  BY <1>4, <1>5, Zenon
<1>7. \A i \in 1..Len(ss) : f[i] \in Seq(A)
  <2> DEFINE S == {n \in Nat : n + 1 \in 1..Len(ss) => f[n + 1] \in Seq(A)}
  <2>2. \A i \in 1..Len(ss) : ss[i] \in Seq(A)
    BY ElementOfSeq
  <2>3. 0 \in S
    BY <1>6, <2>2
  <2>4. ASSUME NEW n \in Nat, n \in S PROVE n + 1 \in S
    <3> SUFFICES ASSUME (n + 1) + 1 \in 1..Len(ss) PROVE f[(n + 1) + 1] \in Seq(A)
      OBVIOUS
    <3>1. n + 1 \in 1..Len(ss) /\ (n + 1) + 1 # 1 /\ ((n + 1) + 1) - 1 = n + 1
      OBVIOUS
    <3>2. f[n + 1] \in Seq(A)
      BY <2>4, <3>1
    <3>3. f[(n + 1) + 1] = f[n + 1] \o ss[(n + 1) + 1]
      BY <1>6, <3>1, Zenon
    <3>4. ss[(n + 1) + 1] \in Seq(A)
      BY <2>2, Zenon
    <3> QED
      BY <3>2, <3>3, <3>4, ConcatProperties
  <2> HIDE DEF S
  <2>5. Nat \subseteq S
    BY <2>3, <2>4, NatInd, Zenon
  <2> TAKE i \in 1..Len(ss)
  <2>6. i - 1 \in Nat /\ (i - 1) + 1 = i
    OBVIOUS
  <2> QED
    BY <2>5, <2>6 DEF S
<1> QED
  BY <1>3, <1>6, <1>7, Zenon

LEMMA FlattenType ==
  ASSUME NEW A, NEW ss \in Seq(Seq(A))
  PROVE  FlattenSeq(ss) \in Seq(A)
<1>1. CASE Len(ss) = 0
  <2>1. FlattenSeq(ss) = ss /\ ss = <<>>
    BY <1>1, EmptySeq DEF FlattenSeq
  <2> QED
    BY <2>1
<1>2. CASE Len(ss) # 0
  <2>1. Len(ss) \in 1..Len(ss)
    BY <1>2
  <2> QED
    BY <1>2, <2>1, FlattenForm
<1> QED
  BY <1>1, <1>2

\* A set of kinds has a sorted enumeration, so SortedDeps chooses one.
Ascends(s) == \A i, j \in DOMAIN s : i < j => s[i] < s[j]
Enum(K, s) == /\ s \in [1..Cardinality(K) -> K]
              /\ \A i, j \in 1..Cardinality(K) : i # j => s[i] # s[j]
              /\ Ascends(s)

LEMMA Enumerable ==
  \A n \in Nat : \A K \in SUBSET Nat : (\A x \in K : x < n) =>
    /\ IsFiniteSet(K) /\ Cardinality(K) \in Nat
    /\ \E s : Enum(K, s)
<1> DEFINE P(n) == \A K \in SUBSET Nat : (\A x \in K : x < n) =>
                     /\ IsFiniteSet(K) /\ Cardinality(K) \in Nat
                     /\ \E s : Enum(K, s)
           S == {n \in Nat : P(n)}
<1>1. 0 \in S
  <2> SUFFICES ASSUME NEW K \in SUBSET Nat, \A x \in K : x < 0
               PROVE  IsFiniteSet(K) /\ Cardinality(K) \in Nat /\ \E s : Enum(K, s)
    OBVIOUS
  <2>1. K = {}
    <3>1. \A x \in K : FALSE
      <4> TAKE x \in K
      <4>1. x \in Nat /\ x < 0
        OBVIOUS
      <4> QED
        BY <4>1
    <3> QED
      BY <3>1
  <2>2. IsFiniteSet(K) /\ Cardinality(K) = 0
    BY <2>1, FS_EmptySet
  <2>3. Enum(K, <<>>)
    BY <2>2 DEF Enum, Ascends
  <2> QED
    BY <2>2, <2>3
<1>2. ASSUME NEW n \in Nat, n \in S PROVE n + 1 \in S
  <2> SUFFICES ASSUME NEW K \in SUBSET Nat, \A x \in K : x < n + 1
               PROVE  IsFiniteSet(K) /\ Cardinality(K) \in Nat /\ \E s : Enum(K, s)
    OBVIOUS
  <2>0. P(n)
    BY <1>2
  <2>1. \A x \in K : x \in Nat /\ x < n + 1
    OBVIOUS
  <2>2. CASE n \notin K
    <3>1. \A x \in K : x < n
      BY <2>1, <2>2
    <3> QED
      BY <2>0, <3>1
  <2>3. CASE n \in K
    <3> DEFINE L == K \ {n}
    <3>1. L \in SUBSET Nat /\ \A x \in L : x < n
      BY <2>1
    <3>2. IsFiniteSet(L) /\ Cardinality(L) \in Nat /\ \E s : Enum(L, s)
      BY <2>0, <3>1, Zenon
    <3>3. K = L \cup {n} /\ n \notin L
      BY <2>3
    <3> HIDE DEF L
    <3>4. IsFiniteSet(K) /\ Cardinality(K) = Cardinality(L) + 1
      BY <3>2, <3>3, FS_AddElement
    <3>5. PICK s : Enum(L, s)
      BY <3>2
    <3>6. PICK c \in Nat : c = Cardinality(L)
      BY <3>2
    <3>7. s \in [1..c -> L] /\ DOMAIN s = 1..c
          /\ (\A i, j \in 1..c : i # j => s[i] # s[j])
          /\ (\A i, j \in 1..c : i < j => s[i] < s[j])
      BY <3>5, <3>6 DEF Enum, Ascends
    <3> DEFINE t == [i \in 1..(c + 1) |-> IF i = c + 1 THEN n ELSE s[i]]
    <3>8. \A i \in 1..(c + 1) : i = c + 1 \/ i \in 1..c
      OBVIOUS
    <3>9. t \in [1..(c + 1) -> K]
      BY <3>3, <3>7, <3>8
    <3>10. ASSUME NEW i \in 1..(c + 1), NEW j \in 1..(c + 1), i < j PROVE t[i] < t[j]
      <4>1. i \in 1..c /\ t[i] = s[i] /\ s[i] \in L
        BY <3>7, <3>10
      <4>2. CASE j = c + 1
        <5>1. t[j] = n
          BY <4>2
        <5> QED
          BY <3>1, <4>1, <5>1
      <4>3. CASE j # c + 1
        <5>1. j \in 1..c /\ t[j] = s[j]
          BY <4>3
        <5> QED
          BY <3>7, <3>10, <4>1, <5>1
      <4> QED
        BY <4>2, <4>3
    <3>11. DOMAIN t = 1..(c + 1)
      OBVIOUS
    <3> HIDE DEF t
    <3>12. Ascends(t)
      BY <3>10, <3>11, Zenon DEF Ascends
    <3>13. ASSUME NEW i \in 1..(c + 1), NEW j \in 1..(c + 1), i # j PROVE t[i] # t[j]
      <4>1. t[i] \in Nat /\ t[j] \in Nat
        BY <2>1, <3>9
      <4>2. i < j \/ j < i
        BY <3>13
      <4> QED
        BY <3>10, <4>1, <4>2
    <3>14. Enum(K, t)
      BY <3>4, <3>6, <3>9, <3>12, <3>13, Zenon DEF Enum
    <3> QED
      BY <3>2, <3>4, <3>14
  <2> QED
    BY <2>2, <2>3
<1> HIDE DEF S
<1>3. Nat \subseteq S
  BY <1>1, <1>2, NatInd, Zenon
<1> QED
  BY <1>3 DEF S

Kinds(d) == CHOOSE s \in SetToSeqs(DOMAIN d) : \A i, j \in DOMAIN s : i < j => s[i] < s[j]

LEMMA SortedDepsForm ==
  ASSUME NEW d, DOMAIN d \subseteq 0..(NumKinds - 1), d \in [DOMAIN d -> Nat]
  PROVE  /\ Enum(DOMAIN d, Kinds(d)) /\ Cardinality(DOMAIN d) \in Nat
         /\ SortedDeps(d) = [i \in 1..Cardinality(DOMAIN d) |-> <<Kinds(d)[i], d[Kinds(d)[i]]>>]
<1>1. DOMAIN d \in SUBSET Nat /\ \A x \in DOMAIN d : x < 12
  BY DEF NumKinds
<1>2. Cardinality(DOMAIN d) \in Nat /\ \E s : Enum(DOMAIN d, s)
  <2>1. 12 \in Nat
    OBVIOUS
  <2> QED
    BY <1>1, <2>1, Enumerable, Zenon
<1>3. \E s \in SetToSeqs(DOMAIN d) : \A i, j \in DOMAIN s : i < j => s[i] < s[j]
  BY <1>2 DEF Enum, Ascends, SetToSeqs
<1>4. Kinds(d) \in SetToSeqs(DOMAIN d) /\ Ascends(Kinds(d))
  BY <1>3 DEF Kinds, Ascends
<1>5. Enum(DOMAIN d, Kinds(d))
  BY <1>4 DEF Enum, SetToSeqs
<1>6. DOMAIN (Kinds(d)) = 1..Cardinality(DOMAIN d)
  BY <1>5 DEF Enum
<1>7. SortedDeps(d) = [i \in DOMAIN (Kinds(d)) |-> <<Kinds(d)[i], d[Kinds(d)[i]]>>]
  BY DEF SortedDeps, Kinds
<1> QED
  BY <1>2, <1>5, <1>6, <1>7

-----------------------------------------------------------------------------
Nats == Seq(Nat)

LEMMA NatsCat == \A s, t \in Nats : s \o t \in Nats
BY ConcatProperties DEF Nats

LEMMA StrType == \A s \in Nats : Str(s) \in Nats
<1> TAKE s \in Nats
<1>1. <<Len(s)>> \in Nats
  BY DEF Nats
<1> QED
  BY <1>1, NatsCat DEF Str

LEMMA WordType == \A v \in Nat : Word(v) \in Nats
BY DEF Word, Nats

LEMMA FlagType == \A b \in BOOLEAN : Flag(b) \in Nats
BY DEF Flag, Nats

\* A repeated group, whose items have been encoded.
LEMMA GroupType ==
  ASSUME NEW xs \in Seq(Nats) PROVE <<Len(xs)>> \o FlattenSeq(xs) \in Nats
<1>1. FlattenSeq(xs) \in Nats
  BY FlattenType, Zenon DEF Nats
<1>2. <<Len(xs)>> \in Nats
  BY DEF Nats
<1> QED
  BY <1>1, <1>2, NatsCat, Zenon

\* A function on the places of a sequence is a sequence.
LEMMA MapNats ==
  \A n \in Nat : \A ys : ys \in [1..n -> Nats] => ys \in Seq(Nats) /\ Len(ys) = n
BY IsASeq

LEMMA MapNat ==
  \A n \in Nat : \A ys : ys \in [1..n -> Nat] => ys \in Nats /\ Len(ys) = n
BY IsASeq DEF Nats

LEMMA OptTypes ==
  /\ \A x \in Optional(Nat) : Opt(PresentId(x), Word) \in Nats
  /\ \A x \in Optional(Strings) : Opt(PresentReason(x), Str) \in Nats
<1>1. << 0 >> \in Nats /\ << 1 >> \in Nats
  BY DEF Nats
<1>2. ASSUME NEW x \in Optional(Nat) PROVE Opt(PresentId(x), Word) \in Nats
  <2>1. x = <<>> \/ x[1] \in Nat
    BY DEF Optional
  <2>2. CASE PresentId(x) = <<>>
    BY <1>1, <2>2, Zenon DEF Opt
  <2>3. CASE PresentId(x) # <<>>
    <3>1. PresentId(x) = x /\ x[1] \in Nat
      BY <2>1, <2>3 DEF PresentId
    <3>2. Opt(PresentId(x), Word) = << 1 >> \o Word(x[1])
      BY <2>3, <3>1, Zenon DEF Opt
    <3> QED
      BY <1>1, <3>1, <3>2, WordType, NatsCat, Zenon
  <2> QED
    BY <2>2, <2>3
<1>3. ASSUME NEW x \in Optional(Strings) PROVE Opt(PresentReason(x), Str) \in Nats
  <2>1. x = <<>> \/ x[1] \in Strings
    BY DEF Optional
  <2>2. CASE PresentReason(x) = <<>>
    BY <1>1, <2>2, Zenon DEF Opt
  <2>3. CASE PresentReason(x) # <<>>
    <3>1. PresentReason(x) = x /\ x[1] \in Nats
      BY <2>1, <2>3 DEF PresentReason, Strings, Nats
    <3>2. Opt(PresentReason(x), Str) = << 1 >> \o Str(x[1])
      BY <2>3, <3>1, Zenon DEF Opt
    <3> QED
      BY <1>1, <3>1, <3>2, StrType, NatsCat, Zenon
  <2> QED
    BY <2>2, <2>3
<1> QED
  BY <1>2, <1>3

LEMMA DepsType ==
  ASSUME NEW d, DOMAIN d \subseteq 0..(NumKinds - 1), d \in [DOMAIN d -> Nat]
  PROVE  /\ SortedDeps(d) \in Seq(Nats)
         /\ List(SortedDeps(d), LAMBDA x : x) \in Nats
<1> DEFINE s == SortedDeps(d)
<1>1. /\ Enum(DOMAIN d, Kinds(d)) /\ Cardinality(DOMAIN d) \in Nat
      /\ s = [i \in 1..Cardinality(DOMAIN d) |-> <<Kinds(d)[i], d[Kinds(d)[i]]>>]
  BY SortedDepsForm, Zenon
<1>2. PICK c \in Nat, ks \in {Kinds(d)} : c = Cardinality(DOMAIN d) /\ ks = Kinds(d)
  BY <1>1
<1>3. s = [i \in 1..c |-> <<ks[i], d[ks[i]]>>] /\ ks \in [1..c -> DOMAIN d]
  BY <1>1, <1>2, Zenon DEF Enum
<1> HIDE DEF s
<1>4. ASSUME NEW i \in 1..c PROVE <<ks[i], d[ks[i]]>> \in Nats
  <2>1. ks[i] \in DOMAIN d
    BY <1>3
  <2>2. ks[i] \in Nat /\ d[ks[i]] \in Nat
    BY <2>1 DEF NumKinds
  <2> QED
    BY <2>2 DEF Nats
<1>5. s \in [1..c -> Nats] /\ DOMAIN s = 1..c
  BY <1>3, <1>4
<1>6. s \in Seq(Nats)
  BY <1>5, IsASeq
<1>7. [i \in DOMAIN s |-> s[i]] = s
  BY <1>3
<1>8. <<Len(s)>> \o FlattenSeq(s) \in Nats
  BY <1>6, GroupType, Zenon
<1>9. List(s, LAMBDA x : x) = <<Len(s)>> \o FlattenSeq(s)
  BY <1>7 DEF List
<1> QED
  BY <1>6, <1>8, <1>9, Zenon DEF s

LEMMA ObjectType ==
  ASSUME NEW o, IsObject(o) PROVE encode_object(o) \in Nats
<1>1. /\ o.id \in Nat /\ o.category \in Nat /\ o.owner \in Nats /\ o.model \in Optional(Nat)
      /\ o.state \in Nat /\ o.reason \in Nats /\ o.dims \in [1..NumDims -> 0..5]
      /\ o.last_used \in Nat /\ o.residency \in Nat /\ o.warmth_gen \in Nat
      /\ o.invalidation \in Optional(Strings) /\ o.provenance \in Nat
      /\ DOMAIN o.deps \subseteq 0..(NumKinds - 1) /\ o.deps \in [DOMAIN o.deps -> Nat]
  <2>1. /\ DOMAIN o.deps \subseteq 0..(NumKinds - 1)
        /\ o \in [id : Nat, category : 0..11, owner : Strings, model : Optional(Nat),
                  state : 0..9, reason : Strings, dims : [1..NumDims -> 0..5],
                  last_used : Nat, residency : 0..4, warmth_gen : Nat,
                  deps : [DOMAIN o.deps -> Nat], invalidation : Optional(Strings),
                  provenance : 0..4]
    BY Zenon DEF IsObject
  <2>2. o.id \in Nat /\ o.last_used \in Nat /\ o.warmth_gen \in Nat
    BY <2>1
  <2>3. o.category \in Nat /\ o.state \in Nat /\ o.residency \in Nat /\ o.provenance \in Nat
    BY <2>1
  <2>4. o.owner \in Nats /\ o.reason \in Nats
    BY <2>1 DEF Strings, Nats
  <2>5. o.model \in Optional(Nat)
    BY <2>1
  <2>6. o.invalidation \in Optional(Strings)
    BY <2>1
  <2>7. o.dims \in [1..NumDims -> 0..5]
    BY <2>1
  <2>8. o.deps \in [DOMAIN o.deps -> Nat]
    BY <2>1
  <2> QED
    BY <2>1, <2>2, <2>3, <2>4, <2>5, <2>6, <2>7, <2>8
<1>2. /\ Str(o.owner) \in Nats /\ Str(o.reason) \in Nats
      /\ Opt(PresentId(o.model), Word) \in Nats
      /\ Opt(PresentReason(o.invalidation), Str) \in Nats
      /\ List(SortedDeps(o.deps), LAMBDA d : d) \in Nats
  BY <1>1, StrType, OptTypes, DepsType, Zenon
<1>3. <<o.id, o.category>> \in Nats /\ <<o.state>> \in Nats /\ <<o.provenance>> \in Nats
      /\ <<o.last_used, o.residency, o.warmth_gen>> \in Nats
  BY <1>1 DEF Nats
<1>4. o.dims \in Nats
  <2>1. o.dims \in [1..2 -> Nat] /\ 2 \in Nat
    BY <1>1 DEF NumDims
  <2> QED
    BY <2>1, MapNat, Zenon
<1> QED
  BY <1>2, <1>3, <1>4, NatsCat, Zenon DEF encode_object

LEMMA ObjectsType ==
  ASSUME NEW os, AreObjects(os) PROVE List(os, encode_object) \in Nats
<1> DEFINE ys == [i \in DOMAIN os |-> encode_object(os[i])]
<1>1. \A i \in DOMAIN os : encode_object(os[i]) \in Nats
  BY ObjectType, Zenon DEF AreObjects
<1>2. ys \in Seq(Nats) /\ Len(ys) = Len(os)
  <2>1. Len(os) \in Nat /\ DOMAIN os = 1..Len(os)
    <3>1. os \in Seq(ToSet(os))
      BY DEF AreObjects
    <3> QED
      BY <3>1
  <2>2. ys \in [1..Len(os) -> Nats]
    BY <1>1, <2>1
  <2> HIDE DEF ys
  <2> QED
    BY <2>1, <2>2, MapNats, Zenon
<1>3. List(os, encode_object) = <<Len(ys)>> \o FlattenSeq(ys)
  BY <1>2 DEF List
<1> HIDE DEF ys
<1> QED
  BY <1>2, <1>3, GroupType, Zenon

LEMMA DevicesType == \A xs \in Seq(Nats) : List(xs, Str) \in Nats
<1> TAKE xs \in Seq(Nats)
<1> DEFINE ys == [i \in DOMAIN xs |-> Str(xs[i])]
<1>1. DOMAIN xs = 1..Len(xs) /\ Len(xs) \in Nat
  BY DEF Nats
<1>2. \A i \in DOMAIN xs : Str(xs[i]) \in Nats
  BY <1>1, StrType DEF Nats
<1>3. ys \in [1..Len(xs) -> Nats]
  BY <1>1, <1>2
<1>4. List(xs, Str) = <<Len(xs)>> \o FlattenSeq(ys)
  BY DEF List
<1> HIDE DEF ys
<1>5. ys \in Seq(Nats) /\ Len(ys) = Len(xs)
  BY <1>1, <1>3, MapNats, Zenon
<1> QED
  BY <1>4, <1>5, GroupType, Zenon

LEMMA ActionsType == \A xs \in Nats : List(xs, Word) \in Nats
<1> TAKE xs \in Nats
<1> DEFINE ys == [i \in DOMAIN xs |-> Word(xs[i])]
<1>1. DOMAIN xs = 1..Len(xs) /\ Len(xs) \in Nat
  BY DEF Nats
<1>2. \A i \in DOMAIN xs : Word(xs[i]) \in Nats
  BY <1>1, WordType DEF Nats
<1>3. ys \in [1..Len(xs) -> Nats]
  BY <1>1, <1>2
<1>4. List(xs, Word) = <<Len(xs)>> \o FlattenSeq(ys)
  BY DEF List
<1> HIDE DEF ys
<1>5. ys \in Seq(Nats) /\ Len(ys) = Len(xs)
  BY <1>1, <1>3, MapNats, Zenon
<1> QED
  BY <1>4, <1>5, GroupType, Zenon

\* A command as the encoder writes it, and a list of them.
CmdWords(c) == <<c.object, c.action, c.attempt>>
CmdsOf(xs)  == List(xs, LAMBDA c : <<c.object, c.action, c.attempt>>)

LEMMA CmdsType == \A xs \in Seq(Commands) : CmdsOf(xs) \in Nats
<1> TAKE xs \in Seq(Commands)
<1> DEFINE ys == [i \in DOMAIN xs |-> <<xs[i].object, xs[i].action, xs[i].attempt>>]
<1>1. ASSUME NEW i \in DOMAIN xs
      PROVE  <<xs[i].object, xs[i].action, xs[i].attempt>> \in Nats
  <2>1. PICK x \in Commands : x = xs[i]
    OBVIOUS
  <2>2. x.object \in Nat /\ x.action \in Nat /\ x.attempt \in Nat
    BY DEF Commands
  <2> QED
    BY <2>1, <2>2 DEF Nats
<1>2. DOMAIN xs = 1..Len(xs) /\ Len(xs) \in Nat
  OBVIOUS
<1>3. ys \in [1..Len(xs) -> Nats]
  BY <1>1, <1>2
<1>4. CmdsOf(xs) = <<Len(xs)>> \o FlattenSeq(ys)
  BY DEF CmdsOf, List
<1> HIDE DEF ys
<1>5. ys \in Seq(Nats) /\ Len(ys) = Len(xs)
  BY <1>2, <1>3, MapNats, Zenon
<1> QED
  BY <1>4, <1>5, GroupType, Zenon

LEMMA EncodeType == \A m \in Sendable : Encode(m) \in Seq(Nat)
<1> SUFFICES ASSUME NEW m \in Sendable PROVE Encode(m) \in Nats
  BY DEF Nats
<1>1. ASSUME NEW h, IsHello(h) PROVE encode_hello(h) \in Nats
  <2>1. /\ h.version \in Nat /\ h.worker \in Nat /\ h.boot \in Nat /\ h.backend \in Nats
        /\ h.devices \in Seq(Nats) /\ h.actions \in Nats /\ AreObjects(h.observed)
    BY <1>1 DEF IsHello, Strings, Nats
  <2>2. <<h.version, h.worker, h.boot>> \in Nats /\ Str(h.backend) \in Nats
    BY <2>1, StrType DEF Nats
  <2>3. List(h.devices, Str) \in Nats
    BY <2>1, DevicesType, Zenon
  <2>4. List(h.actions, Word) \in Nats
    BY <2>1, ActionsType, Zenon
  <2>5. List(h.observed, encode_object) \in Nats
    BY <2>1, ObjectsType, Zenon
  <2> QED
    BY <2>2, <2>3, <2>4, <2>5, NatsCat, Zenon DEF encode_hello
<1>2. ASSUME NEW p, IsReport(p) PROVE encode_report(p) \in Nats
  <2>1. /\ p.boot \in Nat /\ p.epoch \in Nat /\ p.warmth_gen \in Nat /\ p.dep_gen \in Nat
        /\ AreObjects(p.objects)
    BY <1>2 DEF IsReport
  <2>2. <<p.boot, p.epoch, p.warmth_gen, p.dep_gen>> \in Nats
    BY <2>1 DEF Nats
  <2> QED
    BY <2>1, <2>2, ObjectsType, NatsCat, Zenon DEF encode_report
<1>3. ASSUME NEW a \in HelloAcks PROVE encode_hello_ack(a) \in Nats
  <2>1. Flag(a.accepted) \in Nats /\ Str(a.reason) \in Nats
        /\ <<a.epoch, a.warmth_gen, a.dep_gen, a.policy_gen>> \in Nats
    BY StrType, FlagType DEF HelloAcks, Strings, Nats
  <2> QED
    BY <2>1, NatsCat, Zenon DEF encode_hello_ack
<1>4. ASSUME NEW t \in WarmTopics PROVE encode_warm_topic(t) \in Nats
  <2>1. t.cmds \in Seq(Commands) /\ <<t.epoch, t.warmth_gen>> \in Nats
    BY DEF WarmTopics, Nats
  <2>2. encode_warm_topic(t) = <<t.epoch, t.warmth_gen>> \o CmdsOf(t.cmds)
    BY DEF encode_warm_topic, CmdsOf
  <2> QED
    BY <2>1, <2>2, CmdsType, NatsCat, Zenon
<1>5. ASSUME NEW r \in WarmResults PROVE encode_warm_result(r) \in Nats
  <2>1. /\ <<r.boot, r.epoch, r.warmth_gen, r.dep_gen, r.object, r.action, r.attempt>> \in Nats
        /\ Flag(r.success) \in Nats /\ <<r.bytes>> \in Nats /\ Str(r.error) \in Nats
    BY StrType, FlagType DEF WarmResults, Strings, Nats
  <2> QED
    BY <2>1, NatsCat, Zenon DEF encode_warm_result
<1>6. CASE m \in Msgs("HELLO", Hellos)
  <2>1. m.type = "HELLO" /\ IsHello(m.body)
    BY <1>6, BodiesAssumption DEF Msgs
  <2> QED
    BY <1>1, <2>1 DEF Encode
<1>7. CASE m \in Msgs("HELLO_ACK", Acks)
  <2>1. m.type = "HELLO_ACK" /\ m.body \in HelloAcks
    BY <1>7, BodiesAssumption DEF Msgs
  <2> QED
    BY <1>3, <2>1 DEF Encode
<1>8. CASE m \in Msgs("REPORT", Reports)
  <2>1. m.type = "REPORT" /\ IsReport(m.body)
    BY <1>8, BodiesAssumption DEF Msgs
  <2> QED
    BY <1>2, <2>1 DEF Encode
<1>9. CASE m \in Msgs("WARM_TOPIC", Topics)
  <2>1. m.type = "WARM_TOPIC" /\ m.body \in WarmTopics
    BY <1>9, BodiesAssumption DEF Msgs
  <2> QED
    BY <1>4, <2>1 DEF Encode
<1>10. CASE m \in Msgs("WARM_RESULT", Results)
  <2>1. m.type = "WARM_RESULT" /\ m.body \in WarmResults
    BY <1>10, BodiesAssumption DEF Msgs
  <2> QED
    BY <1>5, <2>1 DEF Encode
<1>11. CASE m \in {Plain("PONG"), Plain("ERROR"), Plain("SHUTDOWN")}
  <2>1. Encode(m) = <<>>
    BY <1>11 DEF Encode, Plain
  <2> QED
    BY <2>1 DEF Nats
<1> QED
  BY <1>6, <1>7, <1>8, <1>9, <1>10, <1>11 DEF Sendable

-----------------------------------------------------------------------------
(* Words and frames *)

DataWords == {<<"data", x>> : x \in Nat}
HeadWords == {<<"head", h>> : h \in [type : known_type, len : Nat]}
CrcWords  == {<<"crc", p>> : p \in Seq(DataWords)}

StreamWords == {Magic} \cup HeadWords \cup DataWords \cup CrcWords

Frame(m) == Header(m) \o Data(m) \o <<crc32(Data(m))>>

\* The words a+1 to b of m's frame, and the write_all calls left of it when q of
\* its words are sent.
Piece(m, a, b) == SubSeq(Frame(m), a + 1, b)
Pieces(m, q) ==
  LET d == Len(Data(m))
  IN  IF q < 2 THEN IF d = 0 THEN <<Piece(m, q, 2), Piece(m, d + 2, d + 3)>>
                    ELSE <<Piece(m, q, 2), Piece(m, 2, d + 2), Piece(m, d + 2, d + 3)>>
      ELSE IF q < d + 2 THEN <<Piece(m, q, d + 2), Piece(m, d + 2, d + 3)>>
      ELSE IF q = d + 2 THEN <<Piece(m, q, d + 3)>>
      ELSE <<>>

\* ConcatAt and SubSeqAt for sequences of words.
LEMMA ConcatWords ==
  \A s, t \in Seq(StreamWords) :
    /\ s \o t \in Seq(StreamWords)
    /\ Len(s \o t) = Len(s) + Len(t)
    /\ \A i \in 1..Len(s) : (s \o t)[i] = s[i]
    /\ \A j \in 1..Len(t) : (s \o t)[j + Len(s)] = t[j]
<1> TAKE s, t \in Seq(StreamWords)
<1> QED
  BY ConcatAt

LEMMA SubWords ==
  \A s \in Seq(StreamWords) : \A a, b \in Nat :
    a <= b /\ b <= Len(s) =>
      /\ SubSeq(s, a + 1, b) \in Seq(StreamWords)
      /\ Len(SubSeq(s, a + 1, b)) = b - a
      /\ \A i \in 1..(b - a) : SubSeq(s, a + 1, b)[i] = s[a + i]
BY SubSeqAt, Zenon

LEMMA PrefixWords ==
  \A s \in Seq(StreamWords) : \A n \in Nat :
    n <= Len(s) =>
      /\ SubSeq(s, 1, n) \in Seq(StreamWords)
      /\ Len(SubSeq(s, 1, n)) = n
      /\ \A i \in 1..n : SubSeq(s, 1, n)[i] = s[i]
<1> SUFFICES ASSUME NEW s \in Seq(StreamWords), NEW n \in Nat, n <= Len(s)
             PROVE  /\ SubSeq(s, 1, n) \in Seq(StreamWords)
                    /\ Len(SubSeq(s, 1, n)) = n
                    /\ \A i \in 1..n : SubSeq(s, 1, n)[i] = s[i]
  OBVIOUS
<1>1. Len(s) \in Nat /\ s \in [1..Len(s) -> StreamWords]
  BY LenProperties
<1>2. SubSeq(s, 1, n) = [i \in 1..n |-> s[i]]
  BY <1>1
<1>3. \A i \in 1..n : s[i] \in StreamWords
  BY <1>1
<1> QED
  BY <1>2, <1>3, <1>1, IsASeq

LEMMA SendableType ==
  \A m \in Sendable : m.type \in known_type /\ m # NoMsg
BY SMT DEF Sendable, Msgs, Plain, NoMsg, known_type

LEMMA DataType ==
  ASSUME NEW m \in Sendable
  PROVE  Data(m) \in Seq(DataWords) /\ Len(Data(m)) = Len(Encode(m))
<1>1. Encode(m) \in Seq(Nat)
  BY EncodeType
<1> DEFINE s == Encode(m)
<1>2. s \in Seq(Nat) /\ DOMAIN s = 1..Len(s) /\ Len(s) \in Nat /\ \A i \in DOMAIN s : s[i] \in Nat
  BY <1>1
<1>3. Data(m) = [i \in DOMAIN s |-> <<"data", s[i]>>]
  BY DEF Data
<1> HIDE DEF s
<1>4. \A i \in DOMAIN s : <<"data", s[i]>> \in DataWords
  BY <1>2 DEF DataWords
<1>5. Data(m) \in [1..Len(s) -> DataWords]
  BY <1>2, <1>3, <1>4
<1>6. Data(m) \in Seq(DataWords) /\ Len(Data(m)) = Len(s)
  BY <1>2, <1>5, IsASeq
<1> QED
  BY <1>6 DEF s

\* The tags keep the kinds of words apart.
LEMMA WordKinds ==
  /\ Magic \notin DataWords
  /\ \A p : crc32(p) # Magic
  /\ Magic[1] # "head"
  /\ \A p, q : crc32(p) = crc32(q) => p = q
  /\ \A p : crc32(p) \in StreamWords => p \in Seq(DataWords)
<1>1. /\ Magic \notin DataWords
      /\ \A p : crc32(p) # Magic
      /\ Magic[1] # "head"
      /\ \A p, q : crc32(p) = crc32(q) => p = q
  BY DEF Magic, DataWords, crc32
<1>2. ASSUME NEW p, crc32(p) \in StreamWords PROVE p \in Seq(DataWords)
  <2>1. crc32(p) \notin {Magic} \cup HeadWords \cup DataWords
    BY DEF Magic, HeadWords, DataWords, crc32
  <2>2. crc32(p) \in CrcWords
    BY <1>2, <2>1 DEF StreamWords
  <2> QED
    BY <2>2 DEF CrcWords, crc32
<1> QED
  BY <1>1, <1>2

LEMMA FrameForm ==
  ASSUME NEW m \in Sendable
  PROVE  /\ Frame(m) \in Seq(StreamWords)
         /\ Len(Data(m)) \in Nat
         /\ Len(Frame(m)) = Len(Data(m)) + 3
         /\ Frame(m)[1] = Magic
         /\ Frame(m)[2] = <<"head", [type |-> m.type, len |-> Len(Data(m))]>>
         /\ \A j \in 1..Len(Data(m)) : Frame(m)[j + 2] = Data(m)[j]
         /\ Frame(m)[Len(Data(m)) + 3] = crc32(Data(m))
<1> DEFINE d == Data(m)  h == Header(m)  c == <<crc32(Data(m))>>
           hw == <<"head", [type |-> m.type, len |-> Len(d)]>>
<1>1. d \in Seq(DataWords) /\ Len(d) \in Nat
  BY DataType
<1>2. hw \in HeadWords
  BY <1>1, SendableType DEF HeadWords
<1>3. crc32(d) \in CrcWords
  BY <1>1 DEF CrcWords, crc32
<1>4. h = <<Magic, hw>>
  BY DEF Header
<1>5. Magic \in StreamWords /\ hw \in StreamWords /\ crc32(d) \in StreamWords
      /\ DataWords \subseteq StreamWords
  BY <1>2, <1>3 DEF StreamWords
<1>6. Frame(m) = (h \o d) \o c
  BY DEF Frame
<1> HIDE DEF d, h, hw
<1>7. h \in Seq(StreamWords) /\ Len(h) = 2 /\ h[1] = Magic /\ h[2] = hw
  BY <1>4, <1>5
<1>8. d \in Seq(StreamWords)
  BY <1>1, <1>5, SeqMonotonic
<1>9. c \in Seq(StreamWords) /\ Len(c) = 1 /\ c[1] = crc32(d)
  BY <1>5 DEF d
<1> HIDE DEF c
<1>a. /\ h \o d \in Seq(StreamWords) /\ Len(h \o d) = 2 + Len(d)
      /\ \A j \in 1..2 : (h \o d)[j] = h[j]
      /\ \A j \in 1..Len(d) : (h \o d)[j + Len(h)] = d[j]
  <2>1. /\ h \o d \in Seq(StreamWords) /\ Len(h \o d) = Len(h) + Len(d)
        /\ \A j \in 1..Len(h) : (h \o d)[j] = h[j]
        /\ \A j \in 1..Len(d) : (h \o d)[j + Len(h)] = d[j]
    BY <1>7, <1>8, ConcatWords, Zenon
  <2> QED
    BY <1>7, <2>1, Zenon
<1>10. h \o d \in Seq(StreamWords) /\ Len(h \o d) = Len(d) + 2
       /\ (h \o d)[1] = Magic /\ (h \o d)[2] = hw
       /\ \A j \in 1..Len(d) : (h \o d)[j + 2] = d[j]
  BY <1>1, <1>7, <1>a
<1>11. /\ Frame(m) \in Seq(StreamWords) /\ Len(Frame(m)) = Len(d) + 3
       /\ Frame(m)[1] = Magic /\ Frame(m)[2] = hw
       /\ \A j \in 1..Len(d) : Frame(m)[j + 2] = d[j]
       /\ Frame(m)[Len(d) + 3] = crc32(d)
  <2> DEFINE f == h \o d
  <2>1. f \in Seq(StreamWords) /\ c \in Seq(StreamWords)
    BY <1>9, <1>10
  <2> HIDE DEF f
  <2>2. /\ f \o c \in Seq(StreamWords) /\ Len(f \o c) = Len(f) + Len(c)
        /\ \A j \in 1..Len(f) : (f \o c)[j] = f[j]
        /\ \A j \in 1..Len(c) : (f \o c)[j + Len(f)] = c[j]
    BY <2>1, ConcatWords, Zenon
  <2>3. /\ Len(f) = Len(d) + 2 /\ f[1] = Magic /\ f[2] = hw
        /\ \A j \in 1..Len(d) : f[j + 2] = d[j]
    BY <1>10, Zenon DEF f
  <2>4. /\ f \o c \in Seq(StreamWords) /\ Len(f \o c) = Len(d) + 3
        /\ (f \o c)[1] = Magic /\ (f \o c)[2] = hw
        /\ \A j \in 1..Len(d) : (f \o c)[j + 2] = d[j]
        /\ (f \o c)[Len(d) + 3] = crc32(d)
    BY <1>1, <1>9, <2>2, <2>3
  <2> QED
    BY <1>6, <2>4, Zenon DEF f
<1> QED
  BY <1>1, <1>11 DEF d, hw
LEMMA FrameLen ==
  \A m \in Sendable : /\ Len(Data(m)) \in Nat /\ Len(Frame(m)) = Len(Data(m)) + 3
                       /\ Len(Frame(m)) \in Nat /\ Len(Frame(m)) > 0
<1> TAKE m \in Sendable
<1>1. Len(Data(m)) \in Nat /\ Len(Frame(m)) = Len(Data(m)) + 3
  BY FrameForm, Zenon
<1> QED
  BY <1>1

LEMMA PieceForm ==
  ASSUME NEW m \in Sendable, NEW a \in Nat, NEW b \in Nat, a <= b,
         b <= Len(Data(m)) + 3
  PROVE  /\ Piece(m, a, b) \in Seq(StreamWords)
         /\ Len(Piece(m, a, b)) = b - a
         /\ \A i \in 1..(b - a) : Piece(m, a, b)[i] = Frame(m)[a + i]
<1>1. Frame(m) \in Seq(StreamWords) /\ b <= Len(Frame(m))
  BY FrameForm
<1> QED
  BY ONLY <1>1, a \in Nat, b \in Nat, a <= b, SubWords, Zenon DEF Piece

\* A part of a piece is a piece.
LEMMA PieceOfPiece ==
  ASSUME NEW m \in Sendable, NEW a \in Nat, NEW b \in Nat, NEW c \in Nat,
         a <= b, b <= c, c <= Len(Data(m)) + 3
  PROVE  /\ SubSeq(Piece(m, a, c), 1, b - a) = Piece(m, a, b)
         /\ SubSeq(Piece(m, a, c), b - a + 1, c - a) = Piece(m, b, c)
<1> DEFINE p == Piece(m, a, c)
<1>1. Len(Data(m)) \in Nat
  BY FrameForm
<1>2. /\ a <= c /\ b <= Len(Data(m)) + 3
      /\ 0 \in Nat /\ b - a \in Nat /\ c - a \in Nat /\ 0 <= b - a /\ b - a <= c - a
      /\ c - a <= c - a
      /\ (c - a) - (b - a) = c - b /\ 0 + 1 = 1 /\ (b - a) - 0 = b - a
      /\ \A i \in Nat : 0 + i = i
  BY <1>1
<1>3. /\ p \in Seq(StreamWords) /\ Len(p) = c - a
      /\ \A i \in 1..(c - a) : p[i] = Frame(m)[a + i]
  BY <1>2, PieceForm, Zenon
<1>4. /\ Piece(m, a, b) \in Seq(StreamWords) /\ Len(Piece(m, a, b)) = b - a
      /\ \A i \in 1..(b - a) : Piece(m, a, b)[i] = Frame(m)[a + i]
  BY <1>2, PieceForm, Zenon
<1>5. /\ Piece(m, b, c) \in Seq(StreamWords) /\ Len(Piece(m, b, c)) = c - b
      /\ \A i \in 1..(c - b) : Piece(m, b, c)[i] = Frame(m)[b + i]
  BY PieceForm, Zenon
<1> HIDE DEF p
<1> DEFINE l == SubSeq(p, 1, b - a)  r == SubSeq(p, b - a + 1, c - a)
<1>6. /\ l \in Seq(StreamWords) /\ Len(l) = b - a
      /\ \A i \in 1..(b - a) : l[i] = p[i]
  <2>1. /\ SubSeq(p, 0 + 1, b - a) \in Seq(StreamWords)
        /\ Len(SubSeq(p, 0 + 1, b - a)) = (b - a) - 0
        /\ \A i \in 1..((b - a) - 0) : SubSeq(p, 0 + 1, b - a)[i] = p[0 + i]
    BY <1>2, <1>3, SubWords, Zenon
  <2>2. l = SubSeq(p, 0 + 1, b - a)
    BY <1>2
  <2> HIDE DEF l
  <2>3. \A i \in 1..(b - a) : l[i] = p[0 + i] /\ 0 + i = i
    BY <1>2, <2>1, <2>2
  <2> QED
    BY <1>2, <2>1, <2>2, <2>3, Zenon
<1>7. /\ r \in Seq(StreamWords) /\ Len(r) = c - b
      /\ \A i \in 1..(c - b) : r[i] = p[b - a + i]
  <2>1. /\ r \in Seq(StreamWords) /\ Len(r) = (c - a) - (b - a)
        /\ \A i \in 1..((c - a) - (b - a)) : r[i] = p[b - a + i]
    BY <1>2, <1>3, SubWords, Zenon
  <2> HIDE DEF r
  <2> QED
    BY <1>2, <2>1, Zenon
<1> HIDE DEF l, r
<1>8. \A i \in 1..(b - a) : l[i] = Piece(m, a, b)[i]
  BY <1>3, <1>4, <1>6
<1>9. \A i \in 1..(c - b) : r[i] = Piece(m, b, c)[i]
  <2> TAKE i \in 1..(c - b)
  <2>1. b - a + i \in 1..(c - a) /\ a + (b - a + i) = b + i
    BY <1>2
  <2> QED
    BY <1>3, <1>5, <1>7, <2>1
<1>10. l = Piece(m, a, b)
  BY <1>4, <1>6, <1>8, SeqEqual, Zenon
<1>11. r = Piece(m, b, c)
  BY <1>5, <1>7, <1>9, SeqEqual, Zenon
<1> QED
  BY <1>10, <1>11 DEF l, r, p

LEMMA ChunksForm ==
  ASSUME NEW m \in Sendable
  PROVE  Chunks(m) = Pieces(m, 0)
<1> DEFINE d == Len(Data(m))
<1>1. d \in Nat /\ Data(m) \in Seq(DataWords) /\ (Data(m) = <<>> <=> d = 0)
  BY DataType
<1>2. /\ Frame(m)[1] = Magic
      /\ Frame(m)[2] = <<"head", [type |-> m.type, len |-> d]>>
      /\ \A i \in 1..d : Frame(m)[i + 2] = Data(m)[i]
      /\ Frame(m)[d + 3] = crc32(Data(m))
  BY FrameForm, Zenon
<1>3. Header(m) = Piece(m, 0, 2)
  <2> DEFINE p == Piece(m, 0, 2)
  <2>1. 0 \in Nat /\ 2 \in Nat /\ 0 <= 2 /\ 2 <= d + 3 /\ 2 - 0 = 2
    BY <1>1
  <2>2. p \in Seq(StreamWords) /\ Len(p) = 2 - 0 /\ \A i \in 1..(2 - 0) : p[i] = Frame(m)[0 + i]
    BY <2>1, PieceForm, Zenon
  <2> HIDE DEF p
  <2>3. Len(p) = 2 /\ p[1] = Magic /\ p[2] = Frame(m)[2]
    BY <1>2, <2>2
  <2> QED
    BY <1>2, <2>2, <2>3 DEF p, Header
<1>4. <<crc32(Data(m))>> = Piece(m, d + 2, d + 3)
  <2> DEFINE p == Piece(m, d + 2, d + 3)
  <2>1. d + 2 \in Nat /\ d + 3 \in Nat /\ d + 2 <= d + 3 /\ d + 3 <= d + 3
        /\ (d + 3) - (d + 2) = 1 /\ (d + 2) + 1 = d + 3 /\ 1 \in 1..1
    BY <1>1
  <2>2. p \in Seq(StreamWords) /\ Len(p) = (d + 3) - (d + 2)
        /\ \A i \in 1..((d + 3) - (d + 2)) : p[i] = Frame(m)[(d + 2) + i]
    BY <2>1, PieceForm, Zenon
  <2> HIDE DEF p, d
  <2>3. Len(p) = 1 /\ p[1] = crc32(Data(m))
    BY <1>2, <2>1, <2>2, Zenon
  <2> QED
    BY <2>2, <2>3 DEF p
<1>5. Data(m) = Piece(m, 2, d + 2)
  <2> DEFINE p == Piece(m, 2, d + 2)
  <2>1. 2 \in Nat /\ d + 2 \in Nat /\ 2 <= d + 2 /\ d + 2 <= d + 3 /\ (d + 2) - 2 = d
    BY <1>1
  <2>2. p \in Seq(StreamWords) /\ Len(p) = (d + 2) - 2
        /\ \A i \in 1..((d + 2) - 2) : p[i] = Frame(m)[2 + i]
    BY <2>1, PieceForm, Zenon
  <2>3. Data(m) \in Seq(StreamWords)
    BY <1>1, SeqMonotonic DEF StreamWords
  <2> HIDE DEF p
  <2>4. \A i \in 1..d : p[i] = Data(m)[i]
    BY <1>1, <1>2, <2>1, <2>2
  <2>5. Len(p) = Len(Data(m))
    BY <2>1, <2>2
  <2> QED
    BY <2>2, <2>3, <2>4, <2>5, SeqEqual, Zenon DEF p
<1>6. CASE d = 0
  <2>1. Chunks(m) = <<Piece(m, 0, 2)>> \o <<>> \o <<Piece(m, d + 2, d + 3)>>
    BY <1>1, <1>3, <1>4, <1>6, Zenon DEF Chunks
  <2>2. Pieces(m, 0) = <<Piece(m, 0, 2), Piece(m, d + 2, d + 3)>>
    BY <1>6 DEF Pieces
  <2> QED
    BY <2>1, <2>2
<1>7. CASE d # 0
  <2>1. Chunks(m) = <<Piece(m, 0, 2)>> \o <<Piece(m, 2, d + 2)>> \o <<Piece(m, d + 2, d + 3)>>
    BY <1>1, <1>3, <1>4, <1>5, <1>7, Zenon DEF Chunks
  <2>2. Pieces(m, 0) = <<Piece(m, 0, 2), Piece(m, 2, d + 2), Piece(m, d + 2, d + 3)>>
    BY <1>7 DEF Pieces
  <2> QED
    BY <2>1, <2>2
<1> QED
  BY <1>6, <1>7

\* Where the piece that begins behind word q ends.
End(m, q) ==
  IF q < 2 THEN 2 ELSE IF q < Len(Data(m)) + 2 THEN Len(Data(m)) + 2 ELSE Len(Data(m)) + 3

\* One send takes the next words of the frame.
LEMMA PiecesStep ==
  ASSUME NEW m \in Sendable, NEW q \in Nat, q < Len(Frame(m))
  PROVE  LET c == Head(Pieces(m, q))
         IN  /\ Len(Pieces(m, q)) \in 1..3 /\ Pieces(m, q) # <<>>
             /\ Len(c) \in Nat \ {0} /\ q + Len(c) <= Len(Frame(m))
             /\ \A k \in 1..Len(c) :
                  /\ SubSeq(c, 1, k) = Piece(m, q, q + k)
                  /\ (IF SubSeq(c, k + 1, Len(c)) = <<>> THEN <<>>
                      ELSE <<SubSeq(c, k + 1, Len(c))>>) \o Tail(Pieces(m, q))
                       = Pieces(m, q + k)
<1> DEFINE c == Head(Pieces(m, q))  e == End(m, q)  d == Len(Data(m))
<1>1. d \in Nat /\ Len(Frame(m)) = d + 3
  BY FrameForm
<1>2. e \in Nat /\ q < e /\ e <= d + 3 /\ q <= e
  BY <1>1 DEF End
<1>3. Len(Pieces(m, q)) \in 1..3 /\ Pieces(m, q) # <<>> /\ c = Piece(m, q, e)
      /\ Tail(Pieces(m, q)) = Pieces(m, e)
      /\ \A k \in 1..(e - q) :
           k < e - q => Pieces(m, q + k) = <<Piece(m, q + k, e)>> \o Pieces(m, e)
  <2>1. CASE q < 2 /\ d = 0
    <3>1. Pieces(m, q) = <<Piece(m, q, 2), Piece(m, d + 2, d + 3)>> /\ e = 2
      BY <2>1 DEF Pieces, End
    <3>2. Pieces(m, e) = <<Piece(m, d + 2, d + 3)>>
      BY <2>1, <3>1 DEF Pieces
    <3>3. \A k \in 1..(e - q) : k < e - q =>
            Pieces(m, q + k) = <<Piece(m, q + k, e), Piece(m, d + 2, d + 3)>>
      BY <2>1, <3>1 DEF Pieces
    <3> HIDE DEF e, d
    <3>4. Len(Pieces(m, q)) \in 1..3 /\ Pieces(m, q) # <<>>
      BY <3>1
    <3>5. c = Piece(m, q, e)
      BY <3>1
    <3>6. Tail(Pieces(m, q)) = Pieces(m, e)
      BY <3>1, <3>2
    <3>7. \A k \in 1..(e - q) :
            k < e - q => Pieces(m, q + k) = <<Piece(m, q + k, e)>> \o Pieces(m, e)
      BY <3>2, <3>3
    <3> QED
      BY <3>4, <3>5, <3>6, <3>7
  <2>2. CASE q < 2 /\ d # 0
    <3>1. /\ Pieces(m, q) = <<Piece(m, q, 2), Piece(m, 2, d + 2), Piece(m, d + 2, d + 3)>>
          /\ e = 2
      BY <2>2 DEF Pieces, End
    <3>2. Pieces(m, e) = <<Piece(m, 2, d + 2), Piece(m, d + 2, d + 3)>>
      BY <1>1, <2>2, <3>1 DEF Pieces
    <3>3. \A k \in 1..(e - q) : k < e - q =>
            Pieces(m, q + k) = <<Piece(m, q + k, e), Piece(m, 2, d + 2), Piece(m, d + 2, d + 3)>>
      BY <2>2, <3>1 DEF Pieces
    <3> HIDE DEF e, d
    <3>4. Len(Pieces(m, q)) \in 1..3 /\ Pieces(m, q) # <<>>
      BY <3>1
    <3>5. c = Piece(m, q, e)
      BY <3>1
    <3>6. Tail(Pieces(m, q)) = Pieces(m, e)
      BY <3>1, <3>2
    <3>7. \A k \in 1..(e - q) :
            k < e - q => Pieces(m, q + k) = <<Piece(m, q + k, e)>> \o Pieces(m, e)
      BY <3>2, <3>3
    <3> QED
      BY <3>4, <3>5, <3>6, <3>7
  <2>3. CASE 2 <= q /\ q < d + 2
    <3>1. /\ Pieces(m, q) = <<Piece(m, q, d + 2), Piece(m, d + 2, d + 3)>>
          /\ e = d + 2
      BY <1>1, <2>3 DEF Pieces, End
    <3>2. Pieces(m, e) = <<Piece(m, d + 2, d + 3)>>
      BY <1>1, <2>3, <3>1 DEF Pieces
    <3>3. \A k \in 1..(e - q) : k < e - q =>
            Pieces(m, q + k) = <<Piece(m, q + k, e), Piece(m, d + 2, d + 3)>>
      BY <1>1, <2>3, <3>1 DEF Pieces
    <3> HIDE DEF e, d
    <3>4. Len(Pieces(m, q)) \in 1..3 /\ Pieces(m, q) # <<>>
      BY <3>1
    <3>5. c = Piece(m, q, e)
      BY <3>1
    <3>6. Tail(Pieces(m, q)) = Pieces(m, e)
      BY <3>1, <3>2
    <3>7. \A k \in 1..(e - q) :
            k < e - q => Pieces(m, q + k) = <<Piece(m, q + k, e)>> \o Pieces(m, e)
      BY <3>2, <3>3
    <3> QED
      BY <3>4, <3>5, <3>6, <3>7
  <2>4. CASE q = d + 2
    <3>1. /\ Pieces(m, q) = <<Piece(m, q, d + 3)>>
          /\ e = d + 3
      BY <1>1, <2>4 DEF Pieces, End
    <3>2. Pieces(m, e) = <<>>
      BY <1>1, <2>4, <3>1 DEF Pieces
    <3>3. \A k \in 1..(e - q) : ~(k < e - q)
      BY <1>1, <2>4, <3>1
    <3> HIDE DEF e, d
    <3>4. Len(Pieces(m, q)) \in 1..3 /\ Pieces(m, q) # <<>>
      BY <3>1
    <3>5. c = Piece(m, q, e)
      BY <3>1
    <3>6. Tail(Pieces(m, q)) = Pieces(m, e)
      BY <3>1, <3>2
    <3>7. \A k \in 1..(e - q) :
            k < e - q => Pieces(m, q + k) = <<Piece(m, q + k, e)>> \o Pieces(m, e)
      BY <3>2, <3>3
    <3> QED
      BY <3>4, <3>5, <3>6, <3>7
  <2> QED
    BY <1>1, <2>1, <2>2, <2>3, <2>4
<1> HIDE DEF c, e
<1>7. c \in Seq(StreamWords) /\ Len(c) = e - q
  BY <1>2, <1>3, PieceForm, Zenon
<1>8. ASSUME NEW k \in 1..(e - q)
      PROVE  /\ SubSeq(c, 1, k) = Piece(m, q, q + k)
             /\ SubSeq(c, k + 1, e - q) = Piece(m, q + k, e)
             /\ Len(Piece(m, q + k, e)) = e - (q + k)
             /\ Piece(m, q + k, e) \in Seq(StreamWords)
  <2>1. q + k \in Nat /\ q <= q + k /\ q + k <= e /\ (q + k) - q = k
    BY <1>2
  <2>2. /\ SubSeq(Piece(m, q, e), 1, (q + k) - q) = Piece(m, q, q + k)
        /\ SubSeq(Piece(m, q, e), (q + k) - q + 1, e - q) = Piece(m, q + k, e)
    BY <1>2, <2>1, PieceOfPiece, Zenon
  <2>3. Piece(m, q + k, e) \in Seq(StreamWords) /\ Len(Piece(m, q + k, e)) = e - (q + k)
    BY <1>2, <2>1, PieceForm, Zenon
  <2> QED
    BY <1>3, <2>1, <2>2, <2>3, Zenon
<1>9. ASSUME NEW k \in 1..(e - q)
      PROVE  (IF SubSeq(c, k + 1, e - q) = <<>> THEN <<>>
              ELSE <<SubSeq(c, k + 1, e - q)>>) \o Tail(Pieces(m, q)) = Pieces(m, q + k)
  <2> DEFINE l == SubSeq(c, k + 1, e - q)
  <2>1. l = Piece(m, q + k, e) /\ l \in Seq(StreamWords) /\ Len(l) = e - (q + k)
    BY <1>8, Zenon
  <2> HIDE DEF l
  <2>2. CASE k = e - q
    <3>1. Len(l) = 0 /\ q + k = e
      BY <1>2, <2>1, <2>2
    <3>2. l = <<>>
      BY <2>1, <3>1
    <3>3. Pieces(m, e) = <<>> \o Pieces(m, e)
      BY DEF Pieces
    <3> QED
      BY <1>3, <3>1, <3>2, <3>3, Zenon DEF l
  <2>3. CASE k # e - q
    <3>1. k < e - q /\ e - (q + k) # 0
      BY <1>2, <2>3
    <3>2. l # <<>>
      BY <2>1, <3>1
    <3>3. Pieces(m, q + k) = <<l>> \o Pieces(m, e)
      BY <1>3, <2>1, <3>1, Zenon
    <3> QED
      BY <1>3, <3>2, <3>3, Zenon DEF l
  <2> QED
    BY <2>2, <2>3
<1>10. Len(c) \in Nat \ {0} /\ q + Len(c) <= Len(Frame(m))
  BY <1>1, <1>2, <1>7
<1>11. \A k \in 1..Len(c) :
         /\ SubSeq(c, 1, k) = Piece(m, q, q + k)
         /\ (IF SubSeq(c, k + 1, Len(c)) = <<>> THEN <<>>
             ELSE <<SubSeq(c, k + 1, Len(c))>>) \o Tail(Pieces(m, q)) = Pieces(m, q + k)
  BY <1>7, <1>8, <1>9, Zenon
<1> QED
  BY <1>3, <1>10, <1>11, Zenon DEF c
-----------------------------------------------------------------------------
(* The invariant.  T is what the senders have put on the stream, as far as it   *)
(* still can arrive; r the number of words the reader has taken of it; at[i]    *)
(* where the frame of started[i] begins, were every frame written in one go;    *)
(* q[w] the number of words of its frame that w has sent.  Up to word c the     *)
(* stream is the frames one after the other; beyond, in frame k, the worker's  *)
(* writers have collided.                                                      *)

Own(w) ==
  IF dir = "up"
  THEN IF w = "caller" THEN {Plain("SHUTDOWN")}
       ELSE Msgs("HELLO", Hellos) \cup Msgs("REPORT", Reports)
              \cup Msgs("WARM_RESULT", Results) \cup {Plain("PONG")}
  ELSE IF w = "caller" THEN Msgs("WARM_TOPIC", Topics)
       ELSE Msgs("HELLO_ACK", Acks) \cup {Plain("PONG"), Plain("ERROR")}

Phases == {"header", "payload", "check"} \cup Left
Heads  == [type : known_type \cup {"none"}, len : 0..MaxPayload]
Frames == [type : known_type \cup {"none"}, payload : Seq(StreamWords)]

WriterTypes ==
  /\ dir \in {"up", "down"}
  /\ cur \in [Writers -> Sendable \cup {NoMsg}]
  /\ DOMAIN rest = Writers
  /\ pos \in [Writers -> Nat]
  /\ holder \in Writers \cup {"none"}
  /\ begun \in [Writers -> Nat] /\ \A w \in Writers : begun[w] <= MaxFrames[w]
  /\ shorts \in 0..MaxShort
  /\ open \in BOOLEAN /\ overlapped \in BOOLEAN
  /\ started \in Seq(Sendable)
  /\ \A i \in DOMAIN started : Len(Data(started[i])) <= MaxPayload
  /\ done \subseteq DOMAIN started

ReaderTypes ==
  /\ phase \in Phases /\ head \in Heads
  /\ payload \in Seq(StreamWords) /\ accepted \in Seq(Frames)

WriterOk(w, sent) ==
  /\ Idle(w) => cur[w] = NoMsg /\ pos[w] = 0
  /\ ~Idle(w) =>
       /\ cur[w] \in Sendable \cap Own(w) /\ Len(Data(cur[w])) <= MaxPayload
       /\ begun[w] >= 1
       /\ sent < Len(Frame(cur[w])) /\ rest[w] = Pieces(cur[w], sent)
       /\ pos[w] = 0 <=> sent = 0
       /\ pos[w] # 0 => pos[w] \in DOMAIN started /\ started[pos[w]] = cur[w]
       /\ dir = "down" => holder = w

Places(at) ==
  /\ Len(at) = Len(started) + 1
  /\ at[1] = 0
  /\ \A i \in DOMAIN started : at[i + 1] = at[i] + Len(Frame(started[i]))
  /\ \A i, j \in 1..Len(at) : i < j => at[i] < at[j]

Streamed(T, r) == r <= Len(T) /\ stream = SubSeq(T, r + 1, Len(T))

Matches(T, at, c) ==
  \A i \in DOMAIN started : \A j \in 1..Len(Frame(started[i])) :
    at[i] + j <= c /\ at[i] + j <= Len(T) => T[at[i] + j] = Frame(started[i])[j]

\* While no two frames have been mixed.
Clean(T, at, q) ==
  /\ Len(T) <= at[Len(at)]
  /\ open =>
       /\ \A w \in Writers : MidFrame(w) =>
            pos[w] = Len(started) /\ Len(T) = at[pos[w]] + q[w]
       /\ \A v, w \in Writers : MidFrame(v) /\ MidFrame(w) => v = w
       /\ (\A w \in Writers : ~MidFrame(w)) => Len(T) = at[Len(at)]

\* Once they have been.
Torn(T, at, k, c) ==
  /\ dir = "up"
  /\ k \in DOMAIN started /\ at[k] < c /\ c < at[k + 1]
  /\ open => Len(T) > c
  /\ Len(T) > c => T[c + 1] = Magic
  /\ Reading => Len(accepted) + 1 <= k

Next1 == Len(accepted) + 1

Reader(T, r, at, c) ==
  Reading =>
    /\ Next1 <= Len(at)
    /\ phase = "header" => r = at[Next1]
    /\ phase \in {"payload", "check"} =>
         /\ Next1 \in DOMAIN started
         /\ head = [type |-> started[Next1].type, len |-> Len(Data(started[Next1]))]
    /\ phase = "payload" => r = at[Next1] + 2 /\ r <= c
    /\ phase = "check" =>
         /\ r = at[Next1] + 2 + head.len
         /\ \/ r <= c /\ payload = Data(started[Next1])
            \/ overlapped /\ \E j \in DOMAIN payload : payload[j] = Magic

Ghost(T, r, at, q, k, c) ==
  /\ Places(at) /\ Streamed(T, r) /\ Matches(T, at, c)
  /\ \A w \in Writers : WriterOk(w, q[w])
  /\ ~overlapped => c = Len(T) /\ Clean(T, at, q)
  /\ overlapped => Torn(T, at, k, c)
  /\ Reader(T, r, at, c)
  /\ FramesArriveIntact
  /\ StreamStaysInSync

FrameInv ==
  /\ WriterTypes /\ ReaderTypes
  /\ \E T \in Seq(StreamWords), r \in Nat, at \in Seq(Nat), q \in [Writers -> Nat],
        k \in Nat, c \in Nat : Ghost(T, r, at, q, k, c)

LEMMA WriterSet == "answers" \in Writers /\ "caller" \in Writers /\ "none" \notin Writers
BY DEF Writers

LEMMA OwnSendable ==
  \A w \in Writers : Messages(w) \subseteq Own(w) /\ Own(w) \subseteq Sendable
BY DEF Messages, UpMessages, DownMessages, Own, Sendable, Writers

LEMMA FrameInit == Init => FrameInv
<1> SUFFICES ASSUME Init PROVE FrameInv
  OBVIOUS
<1> USE DEF Init
<1>1. WriterTypes
  <2>2. \A w \in Writers : MaxFrames[w] \in Nat
    BY BoundsAssumption
  <2>3. MaxShort \in Nat
    BY BoundsAssumption
  <2>4. begun \in [Writers -> Nat] /\ \A w \in Writers : begun[w] <= MaxFrames[w]
    BY <2>2
  <2>5. cur \in [Writers -> Sendable \cup {NoMsg}] /\ DOMAIN rest = Writers
        /\ pos \in [Writers -> Nat]
    OBVIOUS
  <2>6. shorts \in 0..MaxShort
    BY <2>3
  <2>7. started \in Seq(Sendable) /\ DOMAIN started = {} /\ done \subseteq DOMAIN started
    OBVIOUS
  <2> QED
    BY <2>4, <2>5, <2>6, <2>7 DEF WriterTypes
<1>2. ReaderTypes
  <2>1. head \in Heads
    BY BoundsAssumption DEF NoHead, Heads
  <2> QED
    BY <2>1 DEF ReaderTypes, Phases
<1> DEFINE q == [w \in Writers |-> 0]  at == << 0 >>
<1>3. q \in [Writers -> Nat] /\ at \in Seq(Nat) /\ <<>> \in Seq(StreamWords) /\ 0 \in Nat
  OBVIOUS
<1>4. Len(at) = 1 /\ at[1] = 0 /\ DOMAIN started = {} /\ Len(started) = 0 /\ Len(accepted) = 0
      /\ DOMAIN accepted = {}
  OBVIOUS
<1> HIDE DEF at
<1>5. Places(at)
  BY <1>4 DEF Places
<1>6. Streamed(<<>>, 0)
  <2>1. Len(<<>>) = 0 /\ SubSeq(<<>>, 0 + 1, 0) = <<>>
    OBVIOUS
  <2> QED
    BY <2>1 DEF Streamed
<1>7. Matches(<<>>, at, 0)
  BY <1>4 DEF Matches
<1>8. \A w \in Writers : WriterOk(w, q[w])
  BY DEF WriterOk, Idle
<1>9. Clean(<<>>, at, q) /\ 0 = Len(<<>>)
  BY <1>4 DEF Clean, MidFrame, Idle
<1>10. Reader(<<>>, 0, at, 0)
  BY <1>4 DEF Reader, Next1
<1>11. FramesArriveIntact
  BY <1>4 DEF FramesArriveIntact
<1>12. StreamStaysInSync
  BY DEF StreamStaysInSync
<1> HIDE DEF q
<1>13. Ghost(<<>>, 0, at, q, 0, 0)
  BY <1>5, <1>6, <1>7, <1>8, <1>9, <1>10, <1>11, <1>12 DEF Ghost
<1>14. \E T \in Seq(StreamWords), r \in Nat, at2 \in Seq(Nat), q2 \in [Writers -> Nat],
          k \in Nat, c \in Nat : Ghost(T, r, at2, q2, k, c)
  BY <1>3, <1>13, Zenon
<1> QED
  BY <1>1, <1>2, <1>14, Zenon DEF FrameInv

LEMMA PlaceFacts ==
  ASSUME NEW at \in Seq(Nat), Places(at), started \in Seq(Sendable)
  PROVE  /\ Len(started) \in Nat /\ DOMAIN started = 1..Len(started)
         /\ Len(at) \in Nat /\ Len(at) = Len(started) + 1 /\ Len(at) >= 1
         /\ Len(at) \in 1..Len(at)
         /\ \A i \in 1..Len(at) : at[i] \in Nat
         /\ \A i \in DOMAIN started : i \in 1..Len(at) /\ i + 1 \in 1..Len(at)
<1>1. Len(started) \in Nat /\ DOMAIN started = 1..Len(started) /\ Len(at) = Len(started) + 1
  BY DEF Places
<1>2. \A i \in 1..Len(at) : at[i] \in Nat
  BY ElementOfSeq
<1> QED
  BY <1>1, <1>2

-----------------------------------------------------------------------------
(* One lemma per action *)

\* What the invariant says of the stream and the reader, when an action touches
\* neither of them nor the frames begun.
LEMMA StreamUnchanged ==
  ASSUME NEW T \in Seq(StreamWords), NEW r \in Nat, NEW at \in Seq(Nat),
         NEW q \in [Writers -> Nat], NEW k \in Nat, NEW c \in Nat,
         Ghost(T, r, at, q, k, c),
         UNCHANGED <<dir, stream, open, started, overlapped, phase, head, payload, accepted>>
  PROVE  /\ Places(at)' /\ Streamed(T, r)' /\ Matches(T, at, c)'
         /\ (~overlapped => c = Len(T) /\ Len(T) <= at[Len(at)])'
         /\ (overlapped => Torn(T, at, k, c))'
         /\ Reader(T, r, at, c)' /\ FramesArriveIntact' /\ StreamStaysInSync'
<1> USE DEF Ghost
<1>1. Places(at)'
  BY Zenon DEF Places
<1>2. Streamed(T, r)' /\ Matches(T, at, c)'
  BY Zenon DEF Streamed, Matches
<1>3. (~overlapped => c = Len(T) /\ Len(T) <= at[Len(at)])'
  BY Zenon DEF Clean
<1>4. (overlapped => Torn(T, at, k, c))'
  BY Zenon DEF Torn, Reading
<1>5. Reader(T, r, at, c)'
  BY Zenon DEF Reader, Reading, Next1
<1>6. FramesArriveIntact' /\ StreamStaysInSync'
  BY Zenon DEF FramesArriveIntact, StreamStaysInSync
<1> QED
  BY <1>1, <1>2, <1>3, <1>4, <1>5, <1>6

\* Clean speaks of the writers inside a frame only.
LEMMA CleanUnchanged ==
  ASSUME NEW T \in Seq(StreamWords), NEW at \in Seq(Nat), NEW q, NEW q2,
         Clean(T, at, q), UNCHANGED <<open, started>>,
         \A v \in Writers : /\ MidFrame(v)' <=> MidFrame(v)
                            /\ MidFrame(v) => pos'[v] = pos[v] /\ q2[v] = q[v]
  PROVE  Clean(T, at, q2)'
<1>1. (Len(T) <= at[Len(at)])'
  BY DEF Clean
<1>2. CASE open
  <2>1. \A w \in Writers : MidFrame(w)' => pos'[w] = Len(started') /\ Len(T) = at[pos'[w]] + q2[w]
    BY <1>2, Zenon DEF Clean
  <2>2. \A v, w \in Writers : MidFrame(v)' /\ MidFrame(w)' => v = w
    BY <1>2, Zenon DEF Clean
  <2>3. (\A w \in Writers : ~MidFrame(w)') => Len(T) = at[Len(at)]
    BY <1>2, Zenon DEF Clean
  <2> QED
    BY <1>1, <2>1, <2>2, <2>3, Zenon DEF Clean
<1>3. CASE ~open
  BY <1>1, <1>3 DEF Clean
<1> QED
  BY <1>2, <1>3

LEMMA BegunStep ==
  ASSUME WriterTypes, NEW w \in Writers, begun[w] < MaxFrames[w],
         begun' = [begun EXCEPT ![w] = @ + 1]
  PROVE  begun' \in [Writers -> Nat] /\ \A v \in Writers : begun'[v] <= MaxFrames[v]
<1>1. begun \in [Writers -> Nat] /\ \A v \in Writers : begun[v] <= MaxFrames[v]
  BY DEF WriterTypes
<1>2. MaxFrames \in [Writers -> Nat]
  BY BoundsAssumption
<1>3. begun' \in [Writers -> Nat]
  BY <1>1
<1>4. \A v \in Writers : begun'[v] = IF v = w THEN begun[w] + 1 ELSE begun[v]
  BY <1>1
<1>5. begun[w] \in Nat /\ MaxFrames[w] \in Nat /\ begun[w] + 1 <= MaxFrames[w]
  BY <1>1, <1>2
<1> QED
  BY <1>1, <1>3, <1>4, <1>5

LEMMA BeginWriteStep ==
  ASSUME NEW T \in Seq(StreamWords), NEW r \in Nat, NEW at \in Seq(Nat),
         NEW q \in [Writers -> Nat], NEW k \in Nat, NEW c \in Nat,
         WriterTypes, ReaderTypes, Ghost(T, r, at, q, k, c),
         NEW w \in Writers, BeginWrite(w)
  PROVE  FrameInv'
<1> DEFINE q2 == [q EXCEPT ![w] = 0]
<1>0. UNCHANGED <<dir, pos, shorts, stream, open, started, done, overlapped, phase, head,
                  payload, accepted>>
  BY DEF BeginWrite, rvars
<1>1. PICK m \in Messages(w) :
        /\ Len(Encode(m)) <= MaxPayload
        /\ cur' = [cur EXCEPT ![w] = m]
        /\ rest' = [rest EXCEPT ![w] = Chunks(m)]
  BY DEF BeginWrite
<1>2. m \in Sendable /\ m \in Own(w) /\ m \in Own(w)'
  BY <1>0, OwnSendable, Zenon DEF Own
<1>3. /\ Len(Data(m)) <= MaxPayload /\ Chunks(m) = Pieces(m, 0)
      /\ 0 < Len(Frame(m)) /\ Pieces(m, 0) # <<>>
  <2>1. Len(Data(m)) = Len(Encode(m)) /\ Chunks(m) = Pieces(m, 0)
    BY <1>2, DataType, ChunksForm, Zenon
  <2>2. Len(Data(m)) \in Nat /\ Len(Frame(m)) = Len(Data(m)) + 3
    BY <1>2, FrameForm, Zenon
  <2>3. 0 \in Nat /\ 0 < Len(Frame(m))
    BY <2>2
  <2>4. Pieces(m, 0) # <<>>
    BY <1>2, <2>3, PiecesStep, Zenon
  <2> QED
    BY <1>1, <2>1, <2>3, <2>4
<1>4. Idle(w) /\ begun[w] < MaxFrames[w] /\ Locks(w) /\ begun' = [begun EXCEPT ![w] = @ + 1]
  BY DEF BeginWrite
<1>5. holder' \in Writers \cup {"none"} /\ (dir = "down" => holder = "none" /\ holder' = w)
      /\ (dir # "down" => holder' = holder)
  BY <1>4 DEF Locks, WriterTypes
<1>6. /\ cur'[w] = m /\ rest'[w] = Pieces(m, 0) /\ ~Idle(w)'
      /\ \A v \in Writers \ {w} : cur'[v] = cur[v] /\ rest'[v] = rest[v]
  BY <1>1, <1>3 DEF WriterTypes, Idle
<1>7. begun'[w] >= 1 /\ \A v \in Writers \ {w} : begun'[v] = begun[v]
  BY <1>4 DEF WriterTypes
<1>8. \A v \in Writers : MidFrame(v)' <=> MidFrame(v)
  <2>1. pos[w] = 0 /\ pos'[w] = 0
    BY <1>0, <1>4 DEF Ghost, WriterOk
  <2> QED
    BY <1>0, <1>6, <2>1 DEF MidFrame, Idle
<1>9. WriterTypes'
  <2>1. cur' \in [Writers -> Sendable \cup {NoMsg}] /\ DOMAIN rest' = Writers
    BY <1>1, <1>2 DEF WriterTypes
  <2>2. begun' \in [Writers -> Nat] /\ \A v \in Writers : begun'[v] <= MaxFrames[v]
    BY <1>4, BegunStep
  <2> QED
    BY <1>0, <1>5, <2>1, <2>2 DEF WriterTypes
<1>10. ReaderTypes'
  BY <1>0 DEF ReaderTypes
<1>11. \A v \in Writers : WriterOk(v, q2[v])'
  <2> TAKE v \in Writers
  <2>1. CASE v = w
    <3>1. q2[w] = 0 /\ pos'[w] = 0
      BY <1>0, <1>4 DEF Ghost, WriterOk
    <3> QED
      BY <1>0, <1>2, <1>3, <1>5, <1>6, <1>7, <2>1, <3>1, Zenon DEF WriterOk
  <2>2. CASE v # w
    <3>1. q2[v] = q[v] /\ WriterOk(v, q[v])
      BY <2>2 DEF Ghost
    <3>2. Idle(v)' <=> Idle(v)
      BY <1>6, <2>2 DEF Idle
    <3>3. dir = "down" => Idle(v)
      BY <1>5, <3>1, WriterSet DEF WriterOk
    <3>4. Own(v)' = Own(v)
      BY <1>0, Zenon DEF Own
    <3>5. cur'[v] = cur[v] /\ rest'[v] = rest[v] /\ begun'[v] = begun[v] /\ pos'[v] = pos[v]
      BY <1>0, <1>6, <1>7, <2>2
    <3> HIDE DEF q2
    <3> QED
      BY <1>0, <3>1, <3>2, <3>3, <3>4, <3>5, Zenon DEF WriterOk
  <2> QED
    BY <2>1, <2>2
<1>12. (~overlapped => Clean(T, at, q2))'
  <2>1. \A v \in Writers : MidFrame(v) => v # w
    BY <1>4 DEF MidFrame
  <2>2. \A v \in Writers : MidFrame(v) => pos'[v] = pos[v] /\ q2[v] = q[v]
    BY <1>0, <2>1
  <2> HIDE DEF q2
  <2>3. ~overlapped => Clean(T, at, q)
    BY DEF Ghost
  <2>4. UNCHANGED <<open, started>> /\ overlapped' = overlapped
    BY <1>0
  <2> QED
    BY <1>8, <2>2, <2>3, <2>4, CleanUnchanged, Zenon
<1>13. Ghost(T, r, at, q2, k, c)'
  <2> HIDE DEF q2
  <2>1. UNCHANGED <<dir, stream, open, started, overlapped, phase, head, payload, accepted>>
    BY <1>0
  <2>2. /\ Places(at)' /\ Streamed(T, r)' /\ Matches(T, at, c)'
        /\ (~overlapped => c = Len(T) /\ Len(T) <= at[Len(at)])'
        /\ (overlapped => Torn(T, at, k, c))'
        /\ Reader(T, r, at, c)' /\ FramesArriveIntact' /\ StreamStaysInSync'
    BY <2>1, StreamUnchanged, Zenon
  <2> QED
    BY <1>11, <1>12, <2>2, Zenon DEF Ghost
<1>14. q2 \in [Writers -> Nat]
  OBVIOUS
<1> QED
  BY <1>9, <1>10, <1>13, <1>14, Zenon DEF FrameInv

LEMMA RefuseWriteStep ==
  ASSUME NEW T \in Seq(StreamWords), NEW r \in Nat, NEW at \in Seq(Nat),
         NEW q \in [Writers -> Nat], NEW k \in Nat, NEW c \in Nat,
         WriterTypes, ReaderTypes, Ghost(T, r, at, q, k, c),
         NEW w \in Writers, RefuseWrite(w)
  PROVE  FrameInv'
<1>0. UNCHANGED <<dir, cur, rest, pos, holder, shorts, stream, open, started, done,
                  overlapped, phase, head, payload, accepted>>
  BY DEF RefuseWrite, rvars
<1>1. Idle(w) /\ begun[w] < MaxFrames[w] /\ begun' = [begun EXCEPT ![w] = @ + 1]
  BY DEF RefuseWrite
<1>2. begun' \in [Writers -> Nat] /\ \A v \in Writers : begun'[v] <= MaxFrames[v]
  BY <1>1, BegunStep
<1>3. \A v \in Writers \ {w} : begun'[v] = begun[v]
  BY <1>1 DEF WriterTypes
<1>4. WriterTypes'
  BY <1>0, <1>2 DEF WriterTypes
<1>5. ReaderTypes'
  BY <1>0 DEF ReaderTypes
<1>6. \A v \in Writers : WriterOk(v, q[v])'
  <2> TAKE v \in Writers
  <2>1. WriterOk(v, q[v])
    BY DEF Ghost
  <2>2. (Idle(v)' <=> Idle(v)) /\ Own(v)' = Own(v)
    BY <1>0, Zenon DEF Own, Idle
  <2>3. ~Idle(v) => begun'[v] = begun[v]
    BY <1>1, <1>3
  <2> QED
    BY <1>0, <2>1, <2>2, <2>3, Zenon DEF WriterOk
<1>7. (~overlapped => Clean(T, at, q))'
  <2>1. ~overlapped => Clean(T, at, q)
    BY DEF Ghost
  <2> QED
    BY <1>0, <2>1, Zenon DEF Clean, MidFrame, Idle
<1>8. Ghost(T, r, at, q, k, c)'
  <2>1. UNCHANGED <<dir, stream, open, started, overlapped, phase, head, payload, accepted>>
    BY <1>0
  <2>2. /\ Places(at)' /\ Streamed(T, r)' /\ Matches(T, at, c)'
        /\ (~overlapped => c = Len(T) /\ Len(T) <= at[Len(at)])'
        /\ (overlapped => Torn(T, at, k, c))'
        /\ Reader(T, r, at, c)' /\ FramesArriveIntact' /\ StreamStaysInSync'
    BY <2>1, StreamUnchanged, Zenon
  <2> QED
    BY <1>6, <1>7, <2>2, Zenon DEF Ghost
<1> QED
  BY <1>4, <1>5, <1>8, Zenon DEF FrameInv

LEMMA SendFailsStep ==
  ASSUME NEW T \in Seq(StreamWords), NEW r \in Nat, NEW at \in Seq(Nat),
         NEW q \in [Writers -> Nat], NEW k \in Nat, NEW c \in Nat,
         WriterTypes, ReaderTypes, Ghost(T, r, at, q, k, c),
         NEW w \in Writers, SendFails(w)
  PROVE  FrameInv'
<1>0. UNCHANGED <<dir, begun, shorts, stream, open, started, done, overlapped, phase,
                  head, payload, accepted>>
  BY DEF SendFails, rvars
<1>1. /\ ~Idle(w) /\ ~open
      /\ rest' = [rest EXCEPT ![w] = <<>>]
      /\ cur' = [cur EXCEPT ![w] = NoMsg]
      /\ pos' = [pos EXCEPT ![w] = 0]
      /\ Unlocks(w)
  BY DEF SendFails
<1>2. /\ rest'[w] = <<>> /\ cur'[w] = NoMsg /\ pos'[w] = 0
      /\ \A v \in Writers \ {w} : rest'[v] = rest[v] /\ cur'[v] = cur[v] /\ pos'[v] = pos[v]
  BY <1>1 DEF WriterTypes
<1>3. holder' \in Writers \cup {"none"} /\ (holder # w => holder' = holder)
  BY <1>1 DEF Unlocks, WriterTypes
<1>4. WriterTypes'
  <2>1. cur' \in [Writers -> Sendable \cup {NoMsg}] /\ DOMAIN rest' = Writers
        /\ pos' \in [Writers -> Nat]
    BY <1>1 DEF WriterTypes
  <2> QED
    BY <1>0, <1>3, <2>1 DEF WriterTypes
<1>5. ReaderTypes'
  BY <1>0 DEF ReaderTypes
<1>6. \A v \in Writers : WriterOk(v, q[v])'
  <2> TAKE v \in Writers
  <2>1. CASE v = w
    <3>1. Idle(w)'
      BY <1>2 DEF Idle
    <3> QED
      BY <1>2, <2>1, <3>1, Zenon DEF WriterOk
  <2>2. CASE v # w
    <3>1. WriterOk(v, q[v]) /\ (dir = "down" => holder = w)
      BY <1>1 DEF Ghost, WriterOk
    <3>2. (Idle(v)' <=> Idle(v)) /\ Own(v)' = Own(v)
      BY <1>0, <1>2, <2>2, Zenon DEF Own, Idle
    <3>3. dir = "down" => Idle(v)
      BY <2>2, <3>1, Zenon DEF WriterOk
    <3>4. cur'[v] = cur[v] /\ rest'[v] = rest[v] /\ begun'[v] = begun[v] /\ pos'[v] = pos[v]
      BY <1>0, <1>2, <2>2
    <3> QED
      BY <1>0, <3>1, <3>2, <3>3, <3>4, Zenon DEF WriterOk
  <2> QED
    BY <2>1, <2>2
<1>7. Ghost(T, r, at, q, k, c)'
  <2>1. UNCHANGED <<dir, stream, open, started, overlapped, phase, head, payload, accepted>>
    BY <1>0
  <2>2. /\ Places(at)' /\ Streamed(T, r)' /\ Matches(T, at, c)'
        /\ (~overlapped => c = Len(T) /\ Len(T) <= at[Len(at)])'
        /\ (overlapped => Torn(T, at, k, c))'
        /\ Reader(T, r, at, c)' /\ FramesArriveIntact' /\ StreamStaysInSync'
    BY <2>1, StreamUnchanged, Zenon
  <2>3. (~overlapped => Clean(T, at, q))'
    BY <1>0, <1>1, <2>2, Zenon DEF Clean
  <2> QED
    BY <1>6, <2>2, <2>3, Zenon DEF Ghost
<1> QED
  BY <1>4, <1>5, <1>7, Zenon DEF FrameInv

\* Cutting a stream at its end cuts what the reader has not taken.
LEMMA CutWords ==
  ASSUME NEW T \in Seq(StreamWords), NEW r \in Nat, NEW L \in Nat, r <= L, L <= Len(T)
  PROVE  /\ SubSeq(T, 1, L) \in Seq(StreamWords) /\ Len(SubSeq(T, 1, L)) = L
         /\ \A i \in 1..L : SubSeq(T, 1, L)[i] = T[i]
         /\ SubSeq(SubSeq(T, 1, L), r + 1, L) = SubSeq(SubSeq(T, r + 1, Len(T)), 1, L - r)
<1> DEFINE U == SubSeq(T, 1, L)  S == SubSeq(T, r + 1, Len(T))
           a == SubSeq(U, r + 1, L)  b == SubSeq(S, 1, L - r)
<1>1. /\ Len(T) \in Nat /\ r <= Len(T) /\ L - r \in Nat /\ L - r <= Len(T) - r
      /\ Len(T) <= Len(T) /\ L <= L
      /\ \A i \in 1..(L - r) : i \in 1..(Len(T) - r) /\ r + i \in 1..L
  OBVIOUS
<1>2. U \in Seq(StreamWords) /\ Len(U) = L /\ \A i \in 1..L : U[i] = T[i]
  BY <1>1, PrefixWords, Zenon
<1>3. S \in Seq(StreamWords) /\ Len(S) = Len(T) - r /\ \A i \in 1..(Len(T) - r) : S[i] = T[r + i]
  BY <1>1, SubWords, Zenon
<1> HIDE DEF U, S
<1>4. a \in Seq(StreamWords) /\ Len(a) = L - r /\ \A i \in 1..(L - r) : a[i] = U[r + i]
  <2>1. L <= Len(U)
    BY <1>2
  <2> QED
    BY <1>2, <2>1, SubWords, Zenon
<1>5. b \in Seq(StreamWords) /\ Len(b) = L - r /\ \A i \in 1..(L - r) : b[i] = S[i]
  <2>1. L - r <= Len(S)
    BY <1>1, <1>3
  <2> QED
    BY <1>1, <1>3, <2>1, PrefixWords, Zenon
<1> HIDE DEF a, b
<1>6. \A i \in 1..(L - r) : a[i] = b[i]
  BY <1>1, <1>2, <1>3, <1>4, <1>5, Zenon
<1>7. a = b
  <2>1. Len(a) = Len(b) /\ \A i \in 1..Len(a) : a[i] = b[i]
    BY <1>4, <1>5, <1>6, Zenon
  <2> QED
    BY <1>4, <1>5, <2>1, SeqEqual, Zenon
<1> QED
  BY <1>2, <1>7, Zenon DEF U, S, a, b

LEMMA BreakStep ==
  ASSUME NEW T \in Seq(StreamWords), NEW r \in Nat, NEW at \in Seq(Nat),
         NEW q \in [Writers -> Nat], NEW k \in Nat, NEW c \in Nat,
         WriterTypes, ReaderTypes, Ghost(T, r, at, q, k, c), Break
  PROVE  FrameInv'
<1>0. UNCHANGED <<dir, cur, rest, pos, holder, begun, shorts, started, done, overlapped,
                  phase, head, payload, accepted>> /\ open' = FALSE
  BY DEF Break, wvars, rvars
<1>1. PICK lost \in 0..MaxLost : stream' = SubSeq(stream, 1, Len(stream) - lost)
  BY DEF Break
<1>2. r <= Len(T) /\ stream = SubSeq(T, r + 1, Len(T)) /\ Len(T) \in Nat
  BY DEF Ghost, Streamed
<1>3. stream \in Seq(StreamWords) /\ Len(stream) = Len(T) - r
  <2>1. Len(T) <= Len(T)
    BY <1>2
  <2> QED
    BY <1>2, <2>1, SubWords, Zenon
<1> DEFINE L == IF lost <= Len(T) - r THEN Len(T) - lost ELSE r
           T2 == SubSeq(T, 1, L)
<1>4. L \in Nat /\ r <= L /\ L <= Len(T) /\ lost \in Nat
  BY <1>2, BoundsAssumption
<1>5. stream' = SubSeq(stream, 1, L - r)
  <2>1. CASE lost <= Len(T) - r
    <3>1. L - r = Len(stream) - lost
      BY <1>2, <1>3, <1>4, <2>1
    <3> QED
      BY <1>1, <3>1, Zenon
  <2>2. CASE ~(lost <= Len(T) - r)
    <3>1. L - r = 0 /\ Len(stream) - lost \in Int /\ Len(stream) - lost < 1 /\ 0 < 1 /\ 1 \in Int
          /\ 0 \in Int
      BY <1>2, <1>3, <1>4, <2>2
    <3>2. SubSeq(stream, 1, Len(stream) - lost) = <<>> /\ SubSeq(stream, 1, 0) = <<>>
      BY <3>1, SubSeqEmpty, Zenon
    <3> QED
      BY <1>1, <3>1, <3>2, Zenon
  <2> QED
    BY <2>1, <2>2
<1> HIDE DEF L
<1>6. /\ T2 \in Seq(StreamWords) /\ Len(T2) = L
      /\ \A i \in 1..L : T2[i] = T[i]
      /\ SubSeq(T2, r + 1, L) = SubSeq(stream, 1, L - r)
  BY <1>2, <1>4, CutWords, Zenon
<1> HIDE DEF T2
<1>7. PICK c2 \in Nat : (~overlapped => c2 = L) /\ (overlapped => c2 = c)
  BY <1>4
<1>8. Streamed(T2, r)'
  BY <1>4, <1>5, <1>6 DEF Streamed
<1>9. Places(at)' /\ FramesArriveIntact' /\ StreamStaysInSync'
  BY <1>0, Zenon DEF Ghost, Places, FramesArriveIntact, StreamStaysInSync
<1>10. Matches(T2, at, c2)'
  <2> SUFFICES ASSUME NEW i \in DOMAIN started, NEW j \in 1..Len(Frame(started[i])),
                      at[i] + j <= c2, at[i] + j <= Len(T2)
               PROVE  T2[at[i] + j] = Frame(started[i])[j]
    BY <1>0, Zenon DEF Matches
  <2>1. i + 1 \in 1..Len(at) /\ i \in 1..Len(at) /\ at[i] \in Nat
    BY PlaceFacts, Zenon DEF Ghost, WriterTypes
  <2>2. at[i] \in Nat /\ j \in Nat /\ j >= 1
    BY <2>1
  <2>3. at[i] + j \in 1..L /\ at[i] + j <= Len(T) /\ at[i] + j <= c
    <3>1. ~overlapped => c = Len(T)
      BY DEF Ghost
    <3> QED
      <4> DEFINE p == at[i] + j
      <4>c. p \in Nat /\ p >= 1
        BY <2>2, NatSum, Zenon
      <4>d. p <= Len(T2) /\ Len(T2) = L
        BY <1>6, Zenon
      <4>a. p \in Nat /\ p >= 1 /\ p <= L
        BY <4>c, <4>d, Zenon
      <4> HIDE DEF p
      <4>b. p \in 1..L /\ p <= Len(T)
        BY <1>2, <1>4, <4>a
      <4>1. at[i] + j \in 1..L /\ at[i] + j <= Len(T)
        BY <4>b DEF p
      <4>2. CASE overlapped
        BY <1>7, <4>1, <4>2
      <4>3. CASE ~overlapped
        BY <3>1, <4>1, <4>3
      <4> QED
        BY <4>1, <4>2, <4>3
  <2>4. T[at[i] + j] = Frame(started[i])[j]
    BY <2>3, Zenon DEF Ghost, Matches
  <2> QED
    BY <1>6, <2>3, <2>4
<1>11. \A w \in Writers : WriterOk(w, q[w])'
  BY <1>0, Zenon DEF Ghost, WriterOk, Idle, Own
<1>12. (~overlapped => c2 = Len(T2) /\ Clean(T2, at, q))'
  <2> SUFFICES ASSUME ~overlapped PROVE c2 = Len(T2) /\ Clean(T2, at, q)'
    BY <1>0
  <2>1. Len(T) <= at[Len(at)] /\ Len(at) \in Nat /\ Len(at) >= 1 /\ at[Len(at)] \in Nat
    <3>1. Len(at) = Len(started) + 1 /\ Len(started) \in Nat
      BY DEF Ghost, Places, WriterTypes
    <3>2. Len(at) \in Nat /\ Len(at) >= 1
      BY <3>1
    <3> QED
      BY <3>2 DEF Ghost, Clean
  <2>2. Len(T2) <= at[Len(at)]
    BY <1>2, <1>4, <1>6, <2>1
  <2> QED
    BY <1>0, <1>6, <1>7, <2>2, Zenon DEF Clean
<1>13. (overlapped => Torn(T2, at, k, c2))'
  <2> SUFFICES ASSUME overlapped PROVE Torn(T2, at, k, c)'
    BY <1>0, <1>7, Zenon
  <2>1. Torn(T, at, k, c)
    BY DEF Ghost
  <2>2. Len(T2) > c => T2[c + 1] = Magic
    <3> SUFFICES ASSUME Len(T2) > c PROVE T2[c + 1] = Magic
      OBVIOUS
    <3>1. c + 1 \in 1..L /\ Len(T) > c
      BY <1>2, <1>4, <1>6
    <3> QED
      BY <1>6, <2>1, <3>1, Zenon DEF Torn
  <2> QED
    BY <1>0, <2>1, <2>2, Zenon DEF Torn, Reading
<1>14. Reader(T2, r, at, c2)'
  <2>1. r <= c => r <= c2
    <3>1. CASE overlapped
      BY <1>7, <3>1
    <3>2. CASE ~overlapped
      BY <1>4, <1>7, <3>2
    <3> QED
      BY <3>1, <3>2
  <2>2. Reader(T, r, at, c)
    BY DEF Ghost
  <2> DEFINE A == payload = Data(started[Next1])
             B == overlapped /\ \E j \in DOMAIN payload : payload[j] = Magic
  <2>3. Reading' = Reading /\ Next1' = Next1 /\ A' = A /\ B' = B
    BY <1>0, Zenon DEF Reading, Next1
  <2>4. Reading /\ phase = "payload" => r <= c
    BY <2>2 DEF Reader
  <2>5. Reading /\ phase = "check" => (r <= c /\ A) \/ B
    BY <2>2, Zenon DEF Reader
  <2>6. Reading => /\ Next1 <= Len(at)
                   /\ phase = "header" => r = at[Next1]
                   /\ phase \in {"payload", "check"} =>
                        /\ Next1 \in DOMAIN started
                        /\ head = [type |-> started[Next1].type, len |-> Len(Data(started[Next1]))]
                   /\ phase = "payload" => r = at[Next1] + 2
                   /\ phase = "check" => r = at[Next1] + 2 + head.len
    BY <2>2, Zenon DEF Reader
  <2>7. Reading => /\ phase = "payload" => r <= c2
                   /\ phase = "check" => (r <= c2 /\ A) \/ B
    BY <2>1, <2>4, <2>5
  <2> QED
    BY <1>0, <2>3, <2>6, <2>7, Zenon DEF Reader
<1>15. Ghost(T2, r, at, q, k, c2)'
  BY <1>8, <1>9, <1>10, <1>11, <1>12, <1>13, <1>14, Zenon DEF Ghost
<1>16. WriterTypes'
  BY <1>0 DEF WriterTypes
<1>17. ReaderTypes'
  BY <1>0 DEF ReaderTypes
<1> QED
  BY <1>6, <1>7, <1>15, <1>16, <1>17, Zenon DEF FrameInv

LEMMA PiecesEmpty ==
  ASSUME NEW m \in Sendable, NEW x \in Nat, x <= Len(Frame(m))
  PROVE  Pieces(m, x) = <<>> <=> x = Len(Frame(m))
<1>1. Len(Data(m)) \in Nat /\ Len(Frame(m)) = Len(Data(m)) + 3
  BY FrameForm
<1>2. CASE x < Len(Frame(m))
  <2>1. Pieces(m, x) # <<>>
    BY <1>2, PiecesStep, Zenon
  <2> QED
    BY <1>1, <1>2, <2>1
<1>3. CASE x = Len(Frame(m))
  BY <1>1, <1>3 DEF Pieces
<1> QED
  BY <1>1, <1>2, <1>3

\* A send in terms of the frame: it takes the next n words of it.
Takes(w, s, n) ==
  LET m     == cur[w]
      last  == s + n = Len(Frame(m))
      place == IF pos[w] = 0 THEN Len(started) + 1 ELSE pos[w]
  IN  /\ stream' = stream \o Piece(m, s, s + n)
      /\ rest' = [rest EXCEPT ![w] = Pieces(m, s + n)]
      /\ started' = IF pos[w] = 0 THEN Append(started, m) ELSE started
      /\ pos' = [pos EXCEPT ![w] = IF last THEN 0 ELSE place]
      /\ cur' = [cur EXCEPT ![w] = IF last THEN NoMsg ELSE @]
      /\ done' = IF last THEN done \cup {place} ELSE done
      /\ IF last THEN Unlocks(w) ELSE holder' = holder
      /\ shorts' \in 0..MaxShort

LEMMA SizesRange ==
  \A L \in Nat \ {0} : \A n \in Sizes(L) : n \in 1..L /\ n \in Nat /\ n >= 1
BY DEF Sizes

LEMMA SendForm ==
  ASSUME WriterTypes, NEW w \in Writers, NEW s \in Nat, WriterOk(w, s), Send(w)
  PROVE  \E n \in Nat : n >= 1 /\ s + n <= Len(Frame(cur[w])) /\ Takes(w, s, n)
<1> DEFINE m == cur[w]  chunk == Head(rest[w])
<1>1. m \in Sendable /\ s < Len(Frame(m)) /\ rest[w] = Pieces(m, s)
  BY DEF Send, WriterOk
<1>2. /\ Len(chunk) \in Nat \ {0} /\ s + Len(chunk) <= Len(Frame(m))
      /\ \A j \in 1..Len(chunk) :
           /\ SubSeq(chunk, 1, j) = Piece(m, s, s + j)
           /\ (IF SubSeq(chunk, j + 1, Len(chunk)) = <<>> THEN <<>>
               ELSE <<SubSeq(chunk, j + 1, Len(chunk))>>) \o Tail(rest[w]) = Pieces(m, s + j)
  <2> HIDE DEF m
  <2> DEFINE c == Head(Pieces(m, s))
  <2>1. /\ Len(c) \in Nat \ {0} /\ s + Len(c) <= Len(Frame(m))
        /\ \A j \in 1..Len(c) :
             /\ SubSeq(c, 1, j) = Piece(m, s, s + j)
             /\ (IF SubSeq(c, j + 1, Len(c)) = <<>> THEN <<>>
                 ELSE <<SubSeq(c, j + 1, Len(c))>>) \o Tail(Pieces(m, s)) = Pieces(m, s + j)
    BY <1>1, PiecesStep, Zenon
  <2> QED
    BY <1>1, <2>1, Zenon
<1>3. PICK n \in Sizes(Len(chunk)) :
        LET left  == SubSeq(chunk, n + 1, Len(chunk))
            after == (IF left = <<>> THEN <<>> ELSE <<left>>) \o Tail(rest[w])
            place == IF pos[w] = 0 THEN Len(started) + 1 ELSE pos[w]
            last  == after = <<>>
        IN  /\ left # <<>> => shorts < MaxShort
            /\ shorts' = IF left # <<>> THEN shorts + 1 ELSE shorts
            /\ stream' = stream \o SubSeq(chunk, 1, n)
            /\ rest' = [rest EXCEPT ![w] = after]
            /\ started' = IF pos[w] = 0 THEN Append(started, cur[w]) ELSE started
            /\ pos' = [pos EXCEPT ![w] = IF last THEN 0 ELSE place]
            /\ cur' = [cur EXCEPT ![w] = IF last THEN NoMsg ELSE @]
            /\ done' = IF last THEN done \cup {place} ELSE done
            /\ IF last THEN Unlocks(w) ELSE holder' = holder
  BY Zenon DEF Send
<1> HIDE DEF m, chunk
<1>4. n \in 1..Len(chunk) /\ n \in Nat /\ n >= 1
  BY <1>2, <1>3, SizesRange, Zenon
<1> DEFINE left  == SubSeq(chunk, n + 1, Len(chunk))
           after == (IF left = <<>> THEN <<>> ELSE <<left>>) \o Tail(rest[w])
<1>5. SubSeq(chunk, 1, n) = Piece(m, s, s + n) /\ after = Pieces(m, s + n)
  BY <1>2, <1>4, Zenon
<1>6. Len(Frame(m)) \in Nat /\ s + n \in Nat /\ s + n <= Len(Frame(m))
  <2>1. Len(Data(m)) \in Nat /\ Len(Frame(m)) = Len(Data(m)) + 3
    BY <1>1, FrameForm, Zenon
  <2> QED
    BY <1>2, <1>4, <2>1
<1>7. (after = <<>>) <=> (s + n = Len(Frame(m)))
  BY <1>1, <1>5, <1>6, PiecesEmpty, Zenon
<1> HIDE DEF after
<1>8. shorts' \in 0..MaxShort
  <2>1. shorts' = IF left # <<>> THEN shorts + 1 ELSE shorts
    BY <1>3, Zenon
  <2>2. left # <<>> => shorts < MaxShort
    BY <1>3, Zenon
  <2> HIDE DEF left
  <2>3. MaxShort \in Nat /\ shorts \in 0..MaxShort
    BY BoundsAssumption DEF WriterTypes
  <2> QED
    BY <2>1, <2>2, <2>3
<1>9. Takes(w, s, n)
  <2>1. /\ stream' = stream \o SubSeq(chunk, 1, n)
        /\ rest' = [rest EXCEPT ![w] = after]
        /\ started' = IF pos[w] = 0 THEN Append(started, m) ELSE started
        /\ pos' = [pos EXCEPT ![w] = IF after = <<>> THEN 0 ELSE
                                      IF pos[w] = 0 THEN Len(started) + 1 ELSE pos[w]]
        /\ cur' = [cur EXCEPT ![w] = IF after = <<>> THEN NoMsg ELSE @]
        /\ done' = IF after = <<>> THEN done \cup {IF pos[w] = 0 THEN Len(started) + 1 ELSE pos[w]}
                   ELSE done
        /\ IF after = <<>> THEN Unlocks(w) ELSE holder' = holder
    BY <1>3, Zenon DEF after, m
  <2>2. CASE after = <<>>
    <3>1. s + n = Len(Frame(cur[w]))
      BY <1>7, <2>2 DEF m
    <3> QED
      BY <1>5, <1>8, <2>1, <2>2, <3>1, Zenon DEF Takes, m
  <2>3. CASE after # <<>>
    <3>1. s + n # Len(Frame(cur[w]))
      BY <1>7, <2>3 DEF m
    <3> QED
      BY <1>5, <1>8, <2>1, <2>3, <3>1, Zenon DEF Takes, m
  <2> QED
    BY <2>2, <2>3
<1> QED
  BY <1>4, <1>6, <1>9, Zenon DEF m

\* What is sent is added to what the reader has not taken.
LEMMA ExtendWords ==
  ASSUME NEW T \in Seq(StreamWords), NEW p \in Seq(StreamWords), NEW r \in Nat, r <= Len(T)
  PROVE  SubSeq(T \o p, r + 1, Len(T \o p)) = SubSeq(T, r + 1, Len(T)) \o p
<1> DEFINE U == T \o p  S == SubSeq(T, r + 1, Len(T))
           a == SubSeq(U, r + 1, Len(U))  b == S \o p
<1>1. Len(T) \in Nat /\ Len(p) \in Nat
  OBVIOUS
<1>2. /\ U \in Seq(StreamWords) /\ Len(U) = Len(T) + Len(p)
      /\ \A i \in 1..Len(T) : U[i] = T[i]
      /\ \A j \in 1..Len(p) : U[j + Len(T)] = p[j]
  BY ConcatWords, Zenon
<1>3. /\ S \in Seq(StreamWords) /\ Len(S) = Len(T) - r
      /\ \A i \in 1..(Len(T) - r) : S[i] = T[r + i]
  <2>1. Len(T) <= Len(T)
    BY <1>1
  <2> QED
    BY <1>1, <2>1, SubWords, Zenon
<1> HIDE DEF U, S
<1>4. Len(U) \in Nat /\ r <= Len(U) /\ Len(U) <= Len(U) /\ Len(S) \in Nat
  BY <1>1, <1>2, <1>3
<1>5. /\ a \in Seq(StreamWords) /\ Len(a) = Len(U) - r
      /\ \A i \in 1..(Len(U) - r) : a[i] = U[r + i]
  BY <1>2, <1>4, SubWords, Zenon
<1>6. /\ b \in Seq(StreamWords) /\ Len(b) = Len(S) + Len(p)
      /\ \A i \in 1..Len(S) : b[i] = S[i]
      /\ \A j \in 1..Len(p) : b[j + Len(S)] = p[j]
  BY <1>3, ConcatWords, Zenon
<1> HIDE DEF a, b
<1>7. Len(a) = Len(b)
  BY <1>1, <1>2, <1>3, <1>5, <1>6
<1>8. ASSUME NEW i \in 1..Len(a) PROVE a[i] = b[i]
  <2>1. CASE i <= Len(S)
    <3>1. /\ i \in 1..(Len(U) - r) /\ i \in 1..Len(S) /\ i \in 1..(Len(T) - r)
          /\ r + i \in 1..Len(T)
      BY <1>1, <1>2, <1>3, <1>4, <1>5, <2>1
    <3> QED
      BY <1>2, <1>3, <1>5, <1>6, <3>1, Zenon
  <2>2. CASE ~(i <= Len(S))
    <3> DEFINE j == i - Len(S)
    <3>1. i \in 1..(Len(U) - r) /\ j \in 1..Len(p) /\ j + Len(S) = i /\ j + Len(T) = r + i
      BY <1>1, <1>2, <1>3, <1>4, <1>5, <2>2
    <3> HIDE DEF j
    <3> QED
      BY <1>2, <1>5, <1>6, <3>1, Zenon
  <2> QED
    BY <2>1, <2>2
<1>9. a = b
  BY <1>5, <1>6, <1>7, <1>8, SeqEqual, Zenon
<1> QED
  BY <1>9 DEF U, S, a, b

\* The frames lie one after the other.
LEMMA PlacesOrder ==
  ASSUME NEW at \in Seq(Nat), Places(at), started \in Seq(Sendable)
  PROVE  \A i, j \in 1..Len(at) : i <= j => at[i] <= at[j]
<1> SUFFICES ASSUME NEW i \in 1..Len(at), NEW j \in 1..Len(at), i <= j PROVE at[i] <= at[j]
  OBVIOUS
<1>1. at[i] \in Nat /\ at[j] \in Nat
  BY PlaceFacts
<1>2. CASE i = j
  BY <1>1, <1>2
<1>3. CASE i < j
  BY <1>1, <1>3 DEF Places
<1> QED
  BY <1>2, <1>3

LEMMA PlacesGrow ==
  ASSUME NEW at \in Seq(Nat), Places(at), started \in Seq(Sendable), NEW m \in Sendable,
         started' = Append(started, m)
  PROVE  LET at2 == Append(at, at[Len(at)] + Len(Frame(m)))
         IN  /\ at2 \in Seq(Nat) /\ Places(at2)' /\ Len(at2) = Len(at) + 1
             /\ \A i \in 1..Len(at) : at2[i] = at[i]
             /\ at2[Len(at) + 1] = at[Len(at)] + Len(Frame(m))
<1> DEFINE e == at[Len(at)] + Len(Frame(m))  at2 == Append(at, e)  L == Len(started)
<1>1. /\ L \in Nat /\ DOMAIN started = 1..L /\ Len(at) \in Nat /\ Len(at) = L + 1
      /\ Len(at) \in 1..Len(at) /\ \A i \in 1..Len(at) : at[i] \in Nat
  BY PlaceFacts
<1>2. Len(Frame(m)) \in Nat /\ Len(Frame(m)) > 0
  BY FrameLen
<1>3. e \in Nat /\ e > at[Len(at)]
  BY <1>1, <1>2
<1> HIDE DEF e
<1>4. /\ at2 \in Seq(Nat) /\ Len(at2) = Len(at) + 1
      /\ \A i \in 1..Len(at) : at2[i] = at[i]
      /\ at2[Len(at) + 1] = e
  BY <1>3, AppendProperties
<1>5. /\ Len(started') = L + 1 /\ DOMAIN started' = 1..(L + 1)
      /\ \A i \in 1..L : started'[i] = started[i]
      /\ started'[L + 1] = m
  BY <1>1, AppendProperties
<1> HIDE DEF at2
<1>6. Len(at2) = Len(started') + 1 /\ at2[1] = 0
  <2>1. at[1] = 0 /\ 1 \in 1..Len(at)
    BY <1>1 DEF Places
  <2> QED
    BY <1>1, <1>4, <1>5, <2>1
<1>7. ASSUME NEW i \in 1..(L + 1) PROVE at2[i + 1] = at2[i] + Len(Frame(started'[i]))
  <2>1. CASE i = L + 1
    <3>1. at2[i] = at[Len(at)] /\ at2[i + 1] = e
      BY <1>1, <1>4, <2>1
    <3>2. started'[i] = m
      BY <1>5, <2>1
    <3> QED
      BY <3>1, <3>2, Zenon DEF e
  <2>2. CASE i # L + 1
    <3>1. i \in 1..L /\ i \in 1..Len(at) /\ i + 1 \in 1..Len(at)
      BY <1>1, <2>2
    <3>2. at[i + 1] = at[i] + Len(Frame(started[i]))
      BY <1>1, <3>1 DEF Places
    <3>3. at2[i + 1] = at[i + 1] /\ at2[i] = at[i] /\ started'[i] = started[i]
      BY <1>4, <1>5, <3>1
    <3> QED
      BY <3>2, <3>3, Zenon
  <2> QED
    BY <2>1, <2>2
<1>8. ASSUME NEW i \in 1..Len(at2), NEW j \in 1..Len(at2), i < j PROVE at2[i] < at2[j]
  <2>1. i \in 1..Len(at)
    BY <1>1, <1>4, <1>8
  <2>2. CASE j = Len(at) + 1
    <3>1. at[i] <= at[Len(at)] /\ at[i] \in Nat /\ at[Len(at)] \in Nat
      BY <1>1, <2>1, PlacesOrder
    <3>2. at2[i] = at[i] /\ at2[j] = e
      BY <1>4, <2>1, <2>2
    <3> QED
      BY <1>3, <3>1, <3>2
  <2>3. CASE j # Len(at) + 1
    <3>1. j \in 1..Len(at)
      BY <1>1, <1>4, <2>3
    <3>2. at[i] < at[j]
      BY <1>8, <2>1, <3>1 DEF Places
    <3> QED
      BY <1>4, <2>1, <3>1, <3>2, Zenon
  <2> QED
    BY <2>2, <2>3
<1>9. Places(at2)'
  BY <1>5, <1>6, <1>7, <1>8, Zenon DEF Places
<1> QED
  BY <1>4, <1>9, Zenon DEF at2, e

LEMMA ReaderGrows ==
  ASSUME NEW T, NEW T2, NEW r \in Nat, NEW at \in Seq(Nat), NEW at2 \in Seq(Nat),
         NEW c \in Nat, NEW c2 \in Nat, c <= c2,
         Places(at), started \in Seq(Sendable), Reader(T, r, at, c),
         Len(at) <= Len(at2), \A i \in 1..Len(at) : at2[i] = at[i],
         \A i \in DOMAIN started : i \in DOMAIN started' /\ started'[i] = started[i],
         UNCHANGED <<phase, head, payload, accepted>>, overlapped => overlapped',
         accepted \in Seq(Frames)
  PROVE  Reader(T2, r, at2, c2)'
<1>0. Reading' = Reading /\ Next1' = Next1 /\ Next1 \in Nat /\ Next1 >= 1
  BY DEF Reading, Next1
<1> SUFFICES ASSUME Reading PROVE Reader(T2, r, at2, c2)'
  BY <1>0, Zenon DEF Reader
<1> DEFINE A == payload = Data(started[Next1])
           B == overlapped /\ \E j \in DOMAIN payload : payload[j] = Magic
<1>1. /\ Next1 <= Len(at)
      /\ phase = "header" => r = at[Next1]
      /\ phase \in {"payload", "check"} =>
           /\ Next1 \in DOMAIN started
           /\ head = [type |-> started[Next1].type, len |-> Len(Data(started[Next1]))]
      /\ phase = "payload" => r = at[Next1] + 2 /\ r <= c
      /\ phase = "check" => r = at[Next1] + 2 + head.len /\ ((r <= c /\ A) \/ B)
  BY Zenon DEF Reader
<1>2. Len(at) \in Nat /\ Len(at2) \in Nat /\ (r <= c => r <= c2)
  OBVIOUS
<1>3. Next1 \in 1..Len(at) /\ Next1 <= Len(at2)
  BY <1>0, <1>1, <1>2
<1>4. at2[Next1] = at[Next1]
  BY <1>3, Zenon
<1>5. phase \in {"payload", "check"} => Next1 \in DOMAIN started' /\ started'[Next1] = started[Next1]
  BY <1>1, Zenon
<1>6. B => B'
  BY Zenon
<1>7. phase = "check" /\ A => A'
  BY <1>0, <1>5, Zenon
<1> HIDE DEF A, B
<1>8. phase = "check" => (r <= c2 /\ A') \/ B'
  BY <1>1, <1>2, <1>6, <1>7, Zenon
<1>9. phase = "payload" => r <= c2
  BY <1>1, <1>2, Zenon
<1> QED
  BY <1>0, <1>1, <1>3, <1>4, <1>5, <1>8, <1>9, Zenon DEF Reader, A, B

\* The frames begun, after a send of w.
LEMMA StartedGrows ==
  ASSUME WriterTypes, NEW w \in Writers, NEW s \in Nat, WriterOk(w, s), ~Idle(w),
         started' = IF pos[w] = 0 THEN Append(started, cur[w]) ELSE started
  PROVE  LET place == IF pos[w] = 0 THEN Len(started) + 1 ELSE pos[w]
         IN  /\ started' \in Seq(Sendable)
             /\ \A i \in DOMAIN started : i \in DOMAIN started' /\ started'[i] = started[i]
             /\ \A i \in DOMAIN started' : Len(Data(started'[i])) <= MaxPayload
             /\ place \in Nat \ {0} /\ place \in DOMAIN started' /\ started'[place] = cur[w]
<1> DEFINE place == IF pos[w] = 0 THEN Len(started) + 1 ELSE pos[w]
<1>1. /\ started \in Seq(Sendable) /\ Len(started) \in Nat /\ DOMAIN started = 1..Len(started)
      /\ \A i \in DOMAIN started : Len(Data(started[i])) <= MaxPayload
  BY DEF WriterTypes
<1>2. cur[w] \in Sendable /\ Len(Data(cur[w])) <= MaxPayload /\ pos[w] \in Nat
  BY DEF WriterOk, WriterTypes
<1>3. CASE pos[w] = 0
  <2>1. started' = Append(started, cur[w]) /\ place = Len(started) + 1
    BY <1>3
  <2>2. /\ started' \in Seq(Sendable) /\ Len(started') = Len(started) + 1
        /\ \A i \in 1..Len(started) : started'[i] = started[i]
        /\ started'[Len(started) + 1] = cur[w]
    BY <1>1, <1>2, <2>1, AppendProperties
  <2>3. DOMAIN started' = 1..(Len(started) + 1)
    BY <2>2
  <2>4. \A i \in DOMAIN started' : i \in DOMAIN started \/ i = Len(started) + 1
    BY <1>1, <2>3
  <2>5. \A i \in DOMAIN started' : Len(Data(started'[i])) <= MaxPayload
    BY <1>1, <1>2, <2>2, <2>4
  <2>6. \A i \in DOMAIN started : i \in DOMAIN started'
    BY <1>1, <2>3
  <2>7. place \in Nat \ {0} /\ place \in DOMAIN started'
    BY <1>1, <2>1, <2>3
  <2> QED
    BY <1>1, <2>1, <2>2, <2>5, <2>6, <2>7, Zenon
<1>4. CASE pos[w] # 0
  <2>1. started' = started /\ place = pos[w] /\ pos[w] \in DOMAIN started /\ started[pos[w]] = cur[w]
    BY <1>4 DEF WriterOk
  <2> QED
    BY <1>1, <1>2, <1>4, <2>1
<1> QED
  BY <1>3, <1>4

LEMMA SendWriters ==
  ASSUME WriterTypes, NEW q \in [Writers -> Nat], \A v \in Writers : WriterOk(v, q[v]),
         NEW w \in Writers, ~Idle(w), NEW n \in Nat, n >= 1,
         q[w] + n <= Len(Frame(cur[w])), Takes(w, q[w], n),
         UNCHANGED <<dir, begun, open>>, overlapped' \in BOOLEAN
  PROVE  /\ WriterTypes'
         /\ \A v \in Writers : WriterOk(v, [q EXCEPT ![w] = q[w] + n][v])'
         /\ \A v \in Writers \ {w} : (MidFrame(v)' <=> MidFrame(v)) /\ pos'[v] = pos[v]
         /\ IF q[w] + n = Len(Frame(cur[w])) THEN ~MidFrame(w)'
            ELSE MidFrame(w)' /\ pos'[w] = IF pos[w] = 0 THEN Len(started) + 1 ELSE pos[w]
<1> DEFINE m == cur[w]  s == q[w]  last == s + n = Len(Frame(m))
           place == IF pos[w] = 0 THEN Len(started) + 1 ELSE pos[w]
           q2 == [q EXCEPT ![w] = q[w] + n]
<1>1. /\ started' = IF pos[w] = 0 THEN Append(started, m) ELSE started
      /\ rest' = [rest EXCEPT ![w] = Pieces(m, s + n)]
      /\ pos' = [pos EXCEPT ![w] = IF last THEN 0 ELSE place]
      /\ cur' = [cur EXCEPT ![w] = IF last THEN NoMsg ELSE @]
      /\ done' = IF last THEN done \cup {place} ELSE done
      /\ IF last THEN Unlocks(w) ELSE holder' = holder
      /\ shorts' \in 0..MaxShort
  BY Zenon DEF Takes
<1>2. WriterOk(w, s) /\ s \in Nat /\ m \in Sendable
  BY DEF WriterOk
<1>3. /\ started' \in Seq(Sendable)
      /\ \A i \in DOMAIN started : i \in DOMAIN started' /\ started'[i] = started[i]
      /\ \A i \in DOMAIN started' : Len(Data(started'[i])) <= MaxPayload
      /\ place \in Nat \ {0} /\ place \in DOMAIN started' /\ started'[place] = m
  BY <1>1, <1>2, StartedGrows, Zenon
<1>4. Len(Frame(m)) \in Nat /\ s + n \in Nat /\ s + n # 0
  BY <1>2, FrameLen
<1>5. (Pieces(m, s + n) = <<>>) <=> last
  BY <1>2, <1>4, PiecesEmpty, Zenon
<1> HIDE DEF place, last
<1>6. /\ rest'[w] = Pieces(m, s + n) /\ pos'[w] = (IF last THEN 0 ELSE place)
      /\ cur'[w] = (IF last THEN NoMsg ELSE m)
      /\ DOMAIN rest' = Writers
      /\ \A v \in Writers \ {w} : rest'[v] = rest[v] /\ pos'[v] = pos[v] /\ cur'[v] = cur[v]
  BY <1>1 DEF WriterTypes
<1>7. pos' \in [Writers -> Nat]
  <2>1. (IF last THEN 0 ELSE place) \in Nat
    BY <1>3
  <2> QED
    BY <1>1, <2>1 DEF WriterTypes
<1>8. cur' \in [Writers -> Sendable \cup {NoMsg}]
  BY <1>1, <1>2 DEF WriterTypes
<1>9. holder' \in Writers \cup {"none"} /\ (holder # w => holder' = holder) /\ (~last => holder' = holder)
  BY <1>1 DEF Unlocks, WriterTypes
<1>10. done' \subseteq DOMAIN started'
  BY <1>1, <1>3 DEF WriterTypes
<1>11. WriterTypes'
  BY <1>1, <1>3, <1>6, <1>7, <1>8, <1>9, <1>10 DEF WriterTypes
<1>12. \A v \in Writers \ {w} : (MidFrame(v)' <=> MidFrame(v)) /\ pos'[v] = pos[v]
  BY <1>6, Zenon DEF MidFrame, Idle
<1>13. Idle(w)' <=> last
  BY <1>5, <1>6, Zenon DEF Idle
<1>14. IF last THEN ~MidFrame(w)' ELSE MidFrame(w)' /\ pos'[w] = place
  BY <1>3, <1>6, <1>13 DEF MidFrame
<1>15. ASSUME NEW v \in Writers PROVE WriterOk(v, q2[v])'
  <2>1. CASE v = w
    <3>1. q2[w] = s + n
      OBVIOUS
    <3>2. CASE last
      BY <1>6, <1>13, <2>1, <3>2, Zenon DEF WriterOk
    <3>3. CASE ~last
      <4>1. /\ m \in Sendable \cap Own(w) /\ Len(Data(m)) <= MaxPayload /\ begun[w] >= 1
            /\ dir = "down" => holder = w
        BY <1>2 DEF WriterOk
      <4>2. s + n < Len(Frame(m))
        BY <1>4, <3>3 DEF last
      <4>3. Own(w)' = Own(w)
        BY Zenon DEF Own
      <4>4. cur'[w] = m /\ pos'[w] = place /\ place # 0 /\ ~Idle(w)'
        BY <1>3, <1>6, <1>13, <3>3
      <4> QED
        BY <1>3, <1>4, <1>6, <1>9, <2>1, <3>1, <3>3, <4>1, <4>2, <4>3, <4>4, Zenon DEF WriterOk
    <3> QED
      BY <3>2, <3>3
  <2>2. CASE v # w
    <3>1. q2[v] = q[v] /\ WriterOk(v, q[v])
      BY <2>2
    <3>2. (Idle(v)' <=> Idle(v)) /\ Own(v)' = Own(v)
      BY <1>6, <2>2, Zenon DEF Idle, Own
    <3>3. dir = "down" => Idle(v)
      BY <1>2, <2>2, <3>1, Zenon DEF WriterOk
    <3>4. cur'[v] = cur[v] /\ rest'[v] = rest[v] /\ begun'[v] = begun[v] /\ pos'[v] = pos[v]
      BY <1>6, <2>2
    <3> HIDE DEF q2
    <3> QED
      BY <1>3, <3>1, <3>2, <3>3, <3>4, Zenon DEF WriterOk
  <2> QED
    BY <2>1, <2>2
<1> QED
  BY <1>11, <1>12, <1>14, <1>15, Zenon DEF last, place

\* The stream and the places of its frames, after a send of w.
Grown(T, at, s, n, w, T2, at2) ==
  /\ Len(T2) = Len(T) + n
  /\ \A i \in 1..Len(T) : T2[i] = T[i]
  /\ \A j \in 1..n : T2[Len(T) + j] = Frame(cur[w])[s + j]
  /\ Len(at) <= Len(at2) /\ \A i \in 1..Len(at) : at2[i] = at[i]
  /\ pos[w] = 0 => /\ Len(at2) = Len(at) + 1
                   /\ at2[Len(at) + 1] = at[Len(at)] + Len(Frame(cur[w]))
  /\ pos[w] # 0 => at2 = at

LEMMA StreamGrows ==
  ASSUME NEW T \in Seq(StreamWords), NEW r \in Nat, NEW at \in Seq(Nat),
         WriterTypes, Places(at), Streamed(T, r),
         NEW w \in Writers, NEW s \in Nat, WriterOk(w, s), ~Idle(w), NEW n \in Nat, n >= 1,
         s + n <= Len(Frame(cur[w])), Takes(w, s, n)
  PROVE  \E T2 \in Seq(StreamWords), at2 \in Seq(Nat) :
           Grown(T, at, s, n, w, T2, at2) /\ Places(at2)' /\ Streamed(T2, r)'
<1>0. PICK m \in Sendable : m = cur[w]
  BY DEF WriterOk
<1> DEFINE p == Piece(m, s, s + n)  T2 == T \o p
<1>1. m \in Sendable /\ started \in Seq(Sendable) /\ Len(T) \in Nat /\ r <= Len(T)
  BY DEF WriterTypes, Streamed
<1>2. /\ s + n \in Nat /\ s <= s + n /\ s + n <= Len(Data(m)) + 3 /\ (s + n) - s = n
  BY <1>0, FrameLen
<1>3. p \in Seq(StreamWords) /\ Len(p) = n /\ \A i \in 1..n : p[i] = Frame(m)[s + i]
  <2>1. p \in Seq(StreamWords) /\ Len(p) = (s + n) - s
        /\ \A i \in 1..((s + n) - s) : p[i] = Frame(m)[s + i]
    BY <1>1, <1>2, PieceForm, Zenon
  <2> HIDE DEF p
  <2> QED
    BY <1>2, <2>1, Zenon
<1> HIDE DEF p
<1>4. /\ T2 \in Seq(StreamWords) /\ Len(T2) = Len(T) + Len(p)
      /\ \A i \in 1..Len(T) : T2[i] = T[i]
      /\ \A j \in 1..Len(p) : T2[j + Len(T)] = p[j]
  BY <1>3, ConcatWords, Zenon
<1>5. SubSeq(T2, r + 1, Len(T2)) = SubSeq(T, r + 1, Len(T)) \o p
  BY <1>1, <1>3, ExtendWords, Zenon
<1> HIDE DEF T2
<1>6. Streamed(T2, r)'
  <2>1. r <= Len(T2)
    BY <1>1, <1>3, <1>4
  <2>2. stream' = stream \o p /\ stream = SubSeq(T, r + 1, Len(T))
    BY <1>0, Zenon DEF Takes, Streamed, p
  <2> QED
    BY <1>5, <2>1, <2>2, Zenon DEF Streamed
<1>7. \A j \in 1..n : T2[Len(T) + j] = Frame(m)[s + j]
  <2> TAKE j \in 1..n
  <2>1. Len(T) + j = j + Len(T)
    BY <1>1
  <2> QED
    BY <1>3, <1>4, <2>1, Zenon
<1>8. Len(T2) = Len(T) + n
  BY <1>3, <1>4, Zenon
<1>9. started' = IF pos[w] = 0 THEN Append(started, m) ELSE started
  BY <1>0, Zenon DEF Takes
<1>10. Len(at) \in Nat
  OBVIOUS
<1>11. CASE pos[w] = 0
  <2> DEFINE at2 == Append(at, at[Len(at)] + Len(Frame(m)))
  <2>1. /\ at2 \in Seq(Nat) /\ Places(at2)' /\ Len(at2) = Len(at) + 1
        /\ \A i \in 1..Len(at) : at2[i] = at[i]
        /\ at2[Len(at) + 1] = at[Len(at)] + Len(Frame(m))
    BY <1>1, <1>9, <1>11, PlacesGrow, Zenon
  <2> HIDE DEF at2
  <2>2. Len(at) <= Len(at2)
    BY <1>10, <2>1
  <2>3. Grown(T, at, s, n, w, T2, at2)
    BY <1>0, <1>4, <1>7, <1>8, <1>11, <2>1, <2>2, Zenon DEF Grown
  <2> QED
    BY <1>4, <1>6, <2>1, <2>3, Zenon
<1>12. CASE pos[w] # 0
  <2>1. Places(at)'
    BY <1>9, <1>12, Zenon DEF Places
  <2>2. Len(at) <= Len(at)
    BY <1>10
  <2>3. Grown(T, at, s, n, w, T2, at)
    BY <1>0, <1>4, <1>7, <1>8, <1>12, <2>2, Zenon DEF Grown
  <2> QED
    BY <1>4, <1>6, <2>1, <2>3, Zenon
<1> QED
  BY <1>11, <1>12

\* A send that mixes no frames leaves none mixed.
LEMMA SendAlone ==
  ASSUME NEW T \in Seq(StreamWords), NEW at \in Seq(Nat), NEW q \in [Writers -> Nat],
         NEW T2 \in Seq(StreamWords), NEW at2 \in Seq(Nat),
         WriterTypes, WriterTypes', Places(at), Places(at2)', Clean(T, at, q), open, open',
         Matches(T, at, Len(T)), \A v \in Writers : WriterOk(v, q[v]),
         NEW w \in Writers, ~Idle(w), \A v \in Writers \ {w} : ~MidFrame(v),
         NEW n \in Nat, n >= 1, q[w] + n <= Len(Frame(cur[w])),
         Takes(w, q[w], n), Grown(T, at, q[w], n, w, T2, at2),
         \A v \in Writers \ {w} : (MidFrame(v)' <=> MidFrame(v)) /\ pos'[v] = pos[v],
         IF q[w] + n = Len(Frame(cur[w])) THEN ~MidFrame(w)'
         ELSE MidFrame(w)' /\ pos'[w] = IF pos[w] = 0 THEN Len(started) + 1 ELSE pos[w]
  PROVE  /\ Matches(T2, at2, Len(T2))'
         /\ Clean(T2, at2, [q EXCEPT ![w] = q[w] + n])'
<1>a. PICK m \in Sendable : m = cur[w]
  BY DEF WriterOk
<1>b. PICK s \in Nat : s = q[w]
  OBVIOUS
<1>c. PICK place \in Nat : place = IF pos[w] = 0 THEN Len(started) + 1 ELSE pos[w]
  BY DEF WriterTypes
<1> DEFINE q2 == [q EXCEPT ![w] = q[w] + n]  L == Len(Frame(m))
<1>1. /\ L \in Nat /\ L > 0 /\ (pos[w] = 0 <=> s = 0) /\ s + n <= L /\ Len(T) \in Nat
  BY <1>a, <1>b, FrameLen DEF WriterOk
<1>2. /\ Len(started) \in Nat /\ DOMAIN started = 1..Len(started)
      /\ Len(at) \in Nat /\ Len(at) = Len(started) + 1
      /\ \A i \in 1..Len(at) : at[i] \in Nat
  BY PlaceFacts DEF WriterTypes
<1>3. /\ started' \in Seq(Sendable) /\ place \in Nat \ {0} /\ started'[place] = m
      /\ \A i \in DOMAIN started : i \in DOMAIN started' /\ started'[i] = started[i]
  <2>1. started' = IF pos[w] = 0 THEN Append(started, m) ELSE started
    BY <1>a, Zenon DEF Takes
  <2> QED
    BY <1>a, <1>c, <2>1, StartedGrows, Zenon
<1>4. /\ Len(started') \in Nat /\ DOMAIN started' = 1..Len(started')
      /\ Len(at2) \in Nat /\ Len(at2) = Len(started') + 1
      /\ \A i \in 1..Len(at2) : at2[i] \in Nat
      /\ \A i \in DOMAIN started' : at2[i + 1] = at2[i] + Len(Frame(started'[i]))
      /\ \A i, j \in 1..Len(at2) : i <= j => at2[i] <= at2[j]
  <2>1. /\ Len(started') \in Nat /\ DOMAIN started' = 1..Len(started')
        /\ Len(at2) = Len(started') + 1
        /\ \A i \in DOMAIN started' : at2[i + 1] = at2[i] + Len(Frame(started'[i]))
        /\ \A i, j \in 1..Len(at2) : i < j => at2[i] < at2[j]
    BY <1>3, LenProperties, Zenon DEF Places
  <2>2. Len(at2) \in Nat /\ \A i \in 1..Len(at2) : at2[i] \in Nat
    BY ElementOfSeq
  <2>3. \A i, j \in 1..Len(at2) : i <= j => at2[i] <= at2[j]
    <3> TAKE i, j \in 1..Len(at2)
    <3>1. at2[i] \in Nat /\ at2[j] \in Nat
      BY <2>2
    <3>2. CASE i < j
      BY <2>1, <3>1, <3>2
    <3>3. CASE ~(i < j)
      BY <2>2, <3>1, <3>3
    <3> QED
      BY <3>2, <3>3
  <2> QED
    BY <2>1, <2>2, <2>3
<1>5. /\ Len(started') = place /\ Len(at2) = place + 1 /\ Len(T) = at2[place] + s
      /\ place \in 1..Len(at)
  <2>1. CASE pos[w] = 0
    <3>1. \A v \in Writers : ~MidFrame(v)
      BY <2>1 DEF MidFrame
    <3>2. Len(T) = at[Len(at)] /\ s = 0 /\ place = Len(at) /\ Len(at2) = Len(at) + 1
      BY <1>1, <1>2, <1>c, <2>1, <3>1 DEF Clean, Grown
    <3>3. at2[Len(at)] = at[Len(at)] /\ Len(at) \in 1..Len(at)
      <4>1. Len(at) \in 1..Len(at)
        BY <1>2
      <4> QED
        BY <4>1, Zenon DEF Grown
    <3>4. at[Len(at)] \in Nat
      BY <1>2, <3>3, Zenon
    <3>5. Len(started') = Len(at)
      <4>1. Len(at2) = Len(started') + 1 /\ Len(started') \in Nat /\ Len(at) \in Nat
        BY <1>2, <1>4, Zenon
      <4> QED
        BY <3>2, <4>1
    <3>6. at[Len(at)] + 0 = at[Len(at)]
      BY <3>4
    <3> QED
      BY <3>2, <3>3, <3>5, <3>6, Zenon
  <2>2. CASE pos[w] # 0
    <3>1. MidFrame(w)
      BY <2>2 DEF MidFrame
    <3>2. pos[w] = Len(started) /\ Len(T) = at[pos[w]] + s /\ at2 = at /\ place = pos[w]
      BY <1>b, <1>c, <2>2, <3>1, Zenon DEF Clean, Grown
    <3>3. place \in 1..Len(at)
      BY <1>2, <1>3, <3>2
    <3>4. Len(started') = Len(started)
      <4>1. Len(at2) = Len(started') + 1 /\ Len(at) = Len(started) + 1 /\ at2 = at
            /\ Len(started') \in Nat /\ Len(started) \in Nat
        BY <1>2, <1>4, <3>2, Zenon
      <4> QED
        BY <4>1
    <3> QED
      BY <1>2, <3>2, <3>3, <3>4, Zenon
  <2> QED
    BY <2>1, <2>2
<1>6. at2[place] \in Nat /\ at2[place + 1] = at2[place] + L
  <2>1. place \in DOMAIN started' /\ place \in 1..Len(at2)
    BY <1>3, <1>4, <1>5
  <2> QED
    BY <1>3, <1>4, <2>1
<1>7. Len(T2) = Len(T) + n /\ Len(T2) \in Nat
  BY <1>1 DEF Grown
<1> HIDE DEF L
<1>8. ASSUME NEW i \in DOMAIN started', NEW j \in 1..Len(Frame(started'[i])),
             at2[i] + j <= Len(T2)
      PROVE  T2[at2[i] + j] = Frame(started'[i])[j]
  <2>1. i \in 1..place /\ i \in 1..Len(at2) /\ i + 1 \in 1..Len(at2) /\ i \in 1..Len(at)
        /\ at2[i] \in Nat /\ j \in Nat /\ j >= 1
    <3>1. i \in 1..place
      BY <1>4, <1>5
    <3>2. i \in 1..Len(at2) /\ i + 1 \in 1..Len(at2) /\ i \in 1..Len(at)
      <4>1. Len(at2) = place + 1 /\ Len(at) \in Nat /\ place \in 1..Len(at)
        BY <1>2, <1>5, Zenon
      <4> QED
        BY <3>1, <4>1, Ranges, Zenon
    <3>3. j \in Nat /\ j >= 1
      OBVIOUS
    <3> QED
      BY <1>4, <3>1, <3>2, <3>3, Zenon
  <2>2. CASE at2[i] + j <= Len(T)
    <3>1. i \in DOMAIN started
      <4>1. CASE i < place
        <5>1. place <= Len(started) + 1 /\ i \in 1..place /\ Len(started) \in Nat
          BY <1>2, <1>5, <2>1
        <5>2. i \in 1..Len(started)
          BY <4>1, <5>1
        <5> QED
          BY <1>2, <5>2, Zenon
      <4>2. CASE i = place
        <5>1. s # 0
          BY <1>1, <1>5, <1>6, <2>1, <2>2, <4>2
        <5>2. pos[w] # 0
          BY <1>1, <5>1
        <5> QED
          BY <1>c, <4>2, <5>2, Zenon DEF WriterOk
      <4> QED
        BY <1>3, <2>1, <4>1, <4>2
    <3>2. at2[i] = at[i] /\ started'[i] = started[i]
      BY <1>3, <2>1, <3>1 DEF Grown
    <3>3. T[at[i] + j] = Frame(started[i])[j]
      BY <2>2, <3>1, <3>2, Zenon DEF Matches
    <3>4. at2[i] + j \in 1..Len(T)
      BY <1>1, <2>1, <2>2, InRange, Zenon
    <3>5. T2[at2[i] + j] = T[at2[i] + j]
      BY <3>4, Zenon DEF Grown
    <3> QED
      BY <3>2, <3>3, <3>5, Zenon
  <2>3. CASE ~(at2[i] + j <= Len(T))
    <3>1. i = place
      <4> SUFFICES ASSUME i # place PROVE FALSE
        OBVIOUS
      <4>1. i + 1 <= place /\ place \in 1..Len(at2)
        BY <1>3, <1>5, <2>1
      <4>2. at2[i + 1] <= at2[place]
        BY <1>4, <2>1, <4>1
      <4>3. at2[i + 1] = at2[i] + Len(Frame(started'[i])) /\ at2[i + 1] \in Nat
        BY <1>4, <2>1
      <4>4. Len(Frame(started'[i])) \in Nat
        <5>1. started'[i] \in Sendable
          BY <1>3, <1>4, ElementOfSeq
        <5> QED
          BY <5>1, FrameLen
      <4>5. PICK A \in Nat, B \in Nat, C \in Nat, l \in Nat :
              A = at2[i] /\ B = at2[i + 1] /\ C = at2[place] /\ l = Len(Frame(started'[i]))
        BY <1>6, <2>1, <4>3, <4>4, Zenon
      <4>6. B = A + l /\ B <= C /\ Len(T) = C + s /\ j \in 1..l
        BY <1>5, <4>2, <4>3, <4>5, Zenon
      <4>7. A + j <= Len(T)
        BY <4>6
      <4>8. at2[i] + j <= Len(T)
        BY <4>5, <4>7, Zenon
      <4> QED
        BY <2>3, <4>8, Zenon
    <3>2. started'[i] = m
      BY <1>3, <3>1, Zenon
    <3>3. PICK x \in 1..n : at2[i] + j = Len(T) + x /\ s + x = j
      <4>1. PICK A \in Nat : A = at2[i]
        BY <2>1
      <4>2. Len(T) = A + s /\ A + j <= Len(T2) /\ ~(A + j <= Len(T)) /\ Len(T2) = Len(T) + n
        BY <1>5, <1>7, <1>8, <2>3, <3>1, <4>1, Zenon
      <4>3. j - s \in 1..n /\ A + j = Len(T) + (j - s) /\ s + (j - s) = j
        BY <2>1, <4>2
      <4> QED
        BY <4>1, <4>3, Zenon
    <3>4. T2[Len(T) + x] = Frame(m)[s + x]
      BY <1>a, <1>b, <3>3, Zenon DEF Grown
    <3> QED
      BY <3>2, <3>3, <3>4, Zenon
  <2> QED
    BY <2>2, <2>3
<1>9. Matches(T2, at2, Len(T2))'
  BY <1>8, Zenon DEF Matches
<1>d. PICK A \in Nat : A = at2[place]
  BY <1>6
<1>e. Len(T) = A + s /\ Len(T2) = Len(T) + n /\ at2[Len(at2)] = A + L
  BY <1>5, <1>6, <1>7, <1>d, Zenon
<1>10. Len(T2) <= at2[Len(at2)]
  BY <1>1, <1>e
<1>11. (s + n = L) => Len(T2) = at2[Len(at2)]
  BY <1>1, <1>e
<1>12. \A v \in Writers : MidFrame(v)' => v = w
  OBVIOUS
<1>13. MidFrame(w)' => pos'[w] = Len(started') /\ Len(T2) = at2[pos'[w]] + q2[w]
  <2> SUFFICES ASSUME MidFrame(w)' PROVE pos'[w] = Len(started') /\ Len(T2) = at2[pos'[w]] + q2[w]
    OBVIOUS
  <2>1. pos'[w] = place /\ q2[w] = s + n
    BY <1>b, <1>c, Zenon
  <2>2. Len(T2) = A + (s + n)
    BY <1>1, <1>e
  <2> QED
    BY <1>5, <1>d, <2>1, <2>2, Zenon
<1>14. (\A v \in Writers : ~MidFrame(v)') => Len(T2) = at2[Len(at2)]
  BY <1>a, <1>b, <1>11, Zenon DEF L
<1>15. Clean(T2, at2, q2)'
  <2> HIDE DEF q2
  <2> QED
    BY <1>10, <1>12, <1>13, <1>14, Zenon DEF Clean
<1> QED
  BY <1>9, <1>15

\* A send leaves the words up to c alone.
LEMMA MatchesKept ==
  ASSUME NEW T \in Seq(StreamWords), NEW at \in Seq(Nat), NEW c \in Nat, NEW s \in Nat,
         NEW T2 \in Seq(StreamWords), NEW at2 \in Seq(Nat),
         WriterTypes, Places(at), Matches(T, at, c), c <= Len(T), c <= at[Len(at)],
         NEW w \in Writers, NEW n \in Nat, WriterOk(w, s), ~Idle(w),
         Takes(w, s, n), Grown(T, at, s, n, w, T2, at2)
  PROVE  Matches(T2, at2, c)'
<1>1. /\ Len(started) \in Nat /\ DOMAIN started = 1..Len(started)
      /\ Len(at) \in Nat /\ Len(at) = Len(started) + 1 /\ Len(at) \in 1..Len(at)
      /\ \A i \in 1..Len(at) : at[i] \in Nat
      /\ \A i \in DOMAIN started : i \in 1..Len(at)
  BY PlaceFacts DEF WriterTypes
<1>2. started' = IF pos[w] = 0 THEN Append(started, cur[w]) ELSE started
  BY Zenon DEF Takes
<1>3. /\ started' \in Seq(Sendable)
      /\ \A i \in DOMAIN started : i \in DOMAIN started' /\ started'[i] = started[i]
  BY <1>2, StartedGrows, Zenon
<1> SUFFICES ASSUME NEW i \in DOMAIN started', NEW j \in 1..Len(Frame(started'[i])),
                    at2[i] + j <= c
             PROVE  T2[at2[i] + j] = Frame(started'[i])[j]
  BY Zenon DEF Matches
<1>4. j \in Nat /\ j >= 1
  OBVIOUS
<1>5. CASE i \in DOMAIN started
  <2>1. i \in 1..Len(at) /\ at2[i] = at[i] /\ at[i] \in Nat
    BY <1>1, <1>5, Zenon DEF Grown
  <2>2. PICK A \in Nat : A = at[i]
    BY <2>1
  <2>3. A + j <= c
    BY <2>1, <2>2, Zenon
  <2>4. A + j \in 1..Len(T) /\ A + j <= Len(T)
    BY <1>4, <2>3
  <2>5. T[at[i] + j] = Frame(started[i])[j]
    BY <1>3, <1>5, <2>1, <2>2, <2>3, <2>4, Zenon DEF Matches
  <2>6. T2[A + j] = T[A + j]
    BY <2>4, Zenon DEF Grown
  <2> QED
    BY <1>3, <1>5, <2>1, <2>2, <2>5, <2>6, Zenon
<1>6. CASE i \notin DOMAIN started
  <2>1. pos[w] = 0
    BY <1>2, <1>6
  <2>2. cur[w] \in Sendable
    BY DEF WriterOk
  <2>3. DOMAIN started' = 1..(Len(started) + 1)
    BY <1>1, <1>2, <2>1, <2>2, AppendProperties DEF WriterTypes
  <2>4. i = Len(at)
    BY <1>1, <1>6, <2>3
  <2>5. at2[i] = at[Len(at)]
    BY <1>1, <2>4, Zenon DEF Grown
  <2>6. PICK A \in Nat : A = at[Len(at)]
    BY <1>1
  <2>7. A + j <= c /\ c <= A
    BY <2>5, <2>6, Zenon
  <2> QED
    BY <1>4, <2>7
<1> QED
  BY <1>5, <1>6

\* Once frames are mixed, a send changes nothing up to the place where they are.
LEMMA SendTorn ==
  ASSUME NEW T \in Seq(StreamWords), NEW at \in Seq(Nat), NEW k \in Nat, NEW c \in Nat,
         NEW s \in Nat, NEW T2 \in Seq(StreamWords), NEW at2 \in Seq(Nat),
         WriterTypes, Places(at), Matches(T, at, c), Torn(T, at, k, c), open, open',
         NEW w \in Writers, NEW n \in Nat, WriterOk(w, s), ~Idle(w),
         Takes(w, s, n), Grown(T, at, s, n, w, T2, at2),
         UNCHANGED <<dir, phase, accepted>>
  PROVE  Torn(T2, at2, k, c)' /\ Matches(T2, at2, c)'
<1>1. /\ dir = "up" /\ k \in DOMAIN started /\ at[k] < c /\ c < at[k + 1]
      /\ Len(T) > c /\ T[c + 1] = Magic /\ (Reading => Len(accepted) + 1 <= k)
  BY DEF Torn
<1>2. /\ Len(at) \in Nat /\ Len(at) \in 1..Len(at) /\ k \in 1..Len(at) /\ k + 1 \in 1..Len(at)
      /\ \A i \in 1..Len(at) : at[i] \in Nat
  BY <1>1, PlaceFacts, Zenon DEF WriterTypes
<1>3. at[k + 1] <= at[Len(at)]
  <2>1. k + 1 <= Len(at)
    BY <1>2
  <2> QED
    BY <1>2, <2>1, PlacesOrder, Zenon DEF WriterTypes
<1>4. PICK A \in Nat, B \in Nat : A = at[k + 1] /\ B = at[Len(at)]
  BY <1>2
<1>5. c <= B
  <2>1. c < A /\ A <= B
    BY <1>1, <1>3, <1>4, Zenon
  <2> QED
    BY <2>1
<1>6. c <= Len(T) /\ c <= at[Len(at)]
  <2>1. c <= Len(T)
    BY <1>1
  <2> QED
    BY <1>4, <1>5, <2>1, Zenon
<1>7. Matches(T2, at2, c)'
  BY <1>6, MatchesKept, Zenon
<1>8. at2[k] = at[k] /\ at2[k + 1] = at[k + 1]
  BY <1>2, Zenon DEF Grown
<1>9. k \in DOMAIN started'
  <2>1. started' = IF pos[w] = 0 THEN Append(started, cur[w]) ELSE started
    BY Zenon DEF Takes
  <2> QED
    BY <1>1, <2>1, StartedGrows, Zenon
<1>10. Len(T2) > c /\ T2[c + 1] = Magic
  <2>1. c + 1 \in 1..Len(T) /\ Len(T) + n > c
    BY <1>1
  <2> QED
    BY <1>1, <2>1, Zenon DEF Grown
<1>11. (Reading => Len(accepted) + 1 <= k)'
  BY <1>1, Zenon DEF Reading
<1> QED
  BY <1>1, <1>7, <1>8, <1>9, <1>10, <1>11, Zenon DEF Torn

\* A writer that begins inside another's frame: the reader has not got past it.
LEMMA SendOverlaps ==
  ASSUME NEW T \in Seq(StreamWords), NEW r \in Nat, NEW at \in Seq(Nat),
         NEW q \in [Writers -> Nat], NEW T2 \in Seq(StreamWords), NEW at2 \in Seq(Nat),
         WriterTypes, ReaderTypes, Places(at), Matches(T, at, Len(T)), Clean(T, at, q), open, open',
         r <= Len(T), Reader(T, r, at, Len(T)), \A v \in Writers : WriterOk(v, q[v]),
         NEW w \in Writers, NEW n \in Nat, n >= 1, ~Idle(w),
         NEW v \in Writers \ {w}, MidFrame(v),
         Takes(w, q[w], n), Grown(T, at, q[w], n, w, T2, at2),
         UNCHANGED <<dir, phase, accepted>>
  PROVE  (\E k \in Nat : Torn(T2, at2, k, Len(T))') /\ Matches(T2, at2, Len(T))'
<1>0. PICK k \in Nat, c \in Nat : k = Len(started) /\ c = Len(T)
  BY DEF WriterTypes
<1>1. /\ k \in Nat /\ DOMAIN started = 1..k
      /\ Len(at) \in Nat /\ Len(at) = k + 1 /\ Len(at) \in 1..Len(at) /\ Len(at) >= 1
      /\ \A i \in 1..Len(at) : at[i] \in Nat
      /\ \A i \in DOMAIN started : i \in 1..Len(at) /\ i + 1 \in 1..Len(at)
  BY <1>0, PlaceFacts, Zenon DEF WriterTypes
<1>2. dir = "up"
  BY DEF WriterOk, MidFrame, WriterTypes
<1>3. pos[w] = 0 /\ q[w] = 0 /\ cur[w] \in Sendable
  <2>1. ~MidFrame(w)
    BY Zenon DEF Clean
  <2> QED
    BY <2>1, Zenon DEF MidFrame, WriterOk
<1>4. /\ pos[v] = k /\ c = at[pos[v]] + q[v] /\ q[v] # 0 /\ q[v] \in Nat
      /\ q[v] < Len(Frame(cur[v])) /\ cur[v] \in Sendable
      /\ pos[v] \in DOMAIN started /\ started[pos[v]] = cur[v]
  BY <1>0, Zenon DEF Clean, WriterOk, MidFrame
<1>5. k \in DOMAIN started /\ started[k] = cur[v] /\ c = at[k] + q[v]
      /\ at[k + 1] = at[k] + Len(Frame(cur[v])) /\ at[k] \in Nat /\ at[k + 1] \in Nat
  <2>1. k \in DOMAIN started /\ started[k] = cur[v] /\ c = at[k] + q[v]
    BY <1>4, Zenon
  <2>2. at[k + 1] = at[k] + Len(Frame(started[k]))
    BY <2>1, Zenon DEF Places
  <2> QED
    BY <1>1, <2>1, <2>2, Zenon
<1>6. PICK A \in Nat, B \in Nat, x \in Nat, l \in Nat :
        A = at[k] /\ B = at[k + 1] /\ x = q[v] /\ l = Len(Frame(cur[v]))
  BY <1>4, <1>5, FrameLen, Zenon
<1>7. c = A + x /\ B = A + l /\ x # 0 /\ x < l
  BY <1>4, <1>5, <1>6, Zenon
<1>8. A < c /\ c < B /\ c <= B
  BY <1>7
<1>9. at[k] < c /\ c < at[k + 1] /\ c <= at[Len(at)] /\ c <= c
  <2>1. c <= c
    OBVIOUS
  <2> QED
    BY <1>1, <1>6, <1>8, <2>1, Zenon
<1>10. Matches(T2, at2, c)'
  BY <1>0, <1>9, MatchesKept, Zenon
<1>11. at2[k] = at[k] /\ at2[k + 1] = at[k + 1] /\ k \in DOMAIN started'
  <2>1. k \in 1..Len(at) /\ k + 1 \in 1..Len(at)
    BY <1>1, <1>5, Zenon
  <2>2. started' = IF pos[w] = 0 THEN Append(started, cur[w]) ELSE started
    BY Zenon DEF Takes
  <2> QED
    BY <1>5, <2>1, <2>2, StartedGrows, Zenon DEF Grown
<1>12. Len(T2) > c /\ T2[c + 1] = Magic
  <2>1. Len(T2) = c + n /\ \A j \in 1..n : T2[c + j] = Frame(cur[w])[0 + j]
    BY <1>0, <1>3, Zenon DEF Grown
  <2>2. Frame(cur[w])[1] = Magic
    BY <1>3, FrameForm, Zenon
  <2>3. 1 \in 1..n /\ 0 + 1 = 1 /\ c + n > c
    OBVIOUS
  <2> QED
    BY <2>1, <2>2, <2>3, Zenon
<1>13. Reading => Next1 <= k
  <2> SUFFICES ASSUME Reading PROVE Next1 <= k
    OBVIOUS
  <2>1. Next1 \in Nat /\ Next1 >= 1
    BY DEF Next1, ReaderTypes
  <2>2. phase \in {"header", "payload", "check"}
    BY DEF Reading, ReaderTypes, Phases
  <2>3. CASE phase = "header"
    <3>1. Next1 <= Len(at) /\ r = at[Next1] /\ r <= c
      BY <1>0, <2>3, Zenon DEF Reader
    <3>2. Next1 # k + 1
      <4> SUFFICES ASSUME Next1 = k + 1 PROVE FALSE
        OBVIOUS
      <4>1. r = B
        BY <1>6, <3>1, Zenon
      <4> QED
        BY <1>8, <3>1, <4>1
    <3> QED
      BY <1>1, <2>1, <3>1, <3>2
  <2>4. CASE phase \in {"payload", "check"}
    <3>1. Next1 \in DOMAIN started
      BY <2>4, Zenon DEF Reader
    <3> QED
      BY <1>1, <3>1
  <2> QED
    BY <2>2, <2>3, <2>4
<1>14. (Reading => Len(accepted) + 1 <= k)'
  BY <1>13, Zenon DEF Reading, Next1
<1>15. Torn(T2, at2, k, c)'
  BY <1>2, <1>9, <1>11, <1>12, <1>14, Zenon DEF Torn
<1> QED
  BY <1>0, <1>10, <1>15, Zenon

LEMMA SendStep ==
  ASSUME NEW T \in Seq(StreamWords), NEW r \in Nat, NEW at \in Seq(Nat),
         NEW q \in [Writers -> Nat], NEW k \in Nat, NEW c \in Nat,
         WriterTypes, ReaderTypes, Ghost(T, r, at, q, k, c),
         NEW w \in Writers, Send(w)
  PROVE  FrameInv'
<1>1. /\ Places(at) /\ Streamed(T, r) /\ Matches(T, at, c)
      /\ \A v \in Writers : WriterOk(v, q[v])
      /\ ~overlapped => c = Len(T) /\ Clean(T, at, q)
      /\ overlapped => Torn(T, at, k, c)
      /\ Reader(T, r, at, c) /\ FramesArriveIntact /\ StreamStaysInSync
  BY Zenon DEF Ghost
<1>2. /\ ~Idle(w) /\ open /\ open' /\ open' = open
      /\ overlapped' = (overlapped \/ \E v \in Writers \ {w} : MidFrame(v))
      /\ UNCHANGED <<dir, begun, phase, head, payload, accepted>>
  BY DEF Send, rvars
<1>3. q[w] \in Nat /\ WriterOk(w, q[w])
  BY <1>1
<1>4. PICK n \in Nat : n >= 1 /\ q[w] + n <= Len(Frame(cur[w])) /\ Takes(w, q[w], n)
  BY <1>3, SendForm, Zenon
<1>5. PICK T2 \in Seq(StreamWords), at2 \in Seq(Nat) :
        Grown(T, at, q[w], n, w, T2, at2) /\ Places(at2)' /\ Streamed(T2, r)'
  BY <1>1, <1>2, <1>3, <1>4, StreamGrows, Zenon
<1> DEFINE q2 == [q EXCEPT ![w] = q[w] + n]
<1>6. /\ WriterTypes'
      /\ \A v \in Writers : WriterOk(v, q2[v])'
      /\ \A v \in Writers \ {w} : (MidFrame(v)' <=> MidFrame(v)) /\ pos'[v] = pos[v]
      /\ IF q[w] + n = Len(Frame(cur[w])) THEN ~MidFrame(w)'
         ELSE MidFrame(w)' /\ pos'[w] = IF pos[w] = 0 THEN Len(started) + 1 ELSE pos[w]
  <2>1. overlapped' \in BOOLEAN /\ UNCHANGED <<dir, begun, open>>
    BY <1>2, Zenon
  <2> QED
    BY <1>1, <1>2, <1>4, <2>1, SendWriters, Zenon
<1>7. q2 \in [Writers -> Nat]
  <2>1. q[w] + n \in Nat
    BY <1>3
  <2> QED
    BY <2>1
<1> HIDE DEF q2
<1>8. ReaderTypes'
  BY <1>2 DEF ReaderTypes
<1>9. /\ started \in Seq(Sendable) /\ accepted \in Seq(Frames)
      /\ \A i \in DOMAIN started : i \in DOMAIN started' /\ started'[i] = started[i]
      /\ Len(at) <= Len(at2) /\ \A i \in 1..Len(at) : at2[i] = at[i]
      /\ r <= Len(T) /\ Len(T) \in Nat /\ Len(T2) \in Nat /\ Len(T) <= Len(T2)
  <2>1. started' = IF pos[w] = 0 THEN Append(started, cur[w]) ELSE started
    BY <1>4, Zenon DEF Takes
  <2>2. \A i \in DOMAIN started : i \in DOMAIN started' /\ started'[i] = started[i]
    BY <1>2, <1>3, <2>1, StartedGrows, Zenon
  <2>3. Len(T2) = Len(T) + n /\ Len(at) <= Len(at2) /\ \A i \in 1..Len(at) : at2[i] = at[i]
    BY <1>5, Zenon DEF Grown
  <2>4. Len(T) \in Nat /\ Len(T2) \in Nat
    OBVIOUS
  <2>5. Len(T) <= Len(T2)
    BY <2>3, <2>4
  <2> QED
    BY <1>1, <2>2, <2>3, <2>4, <2>5, Zenon DEF WriterTypes, ReaderTypes, Streamed
<1>10. FramesArriveIntact'
  <2>1. Len(started) \in Nat /\ Len(started') \in Nat /\ Len(started) <= Len(started')
        /\ Len(accepted) \in Nat
    <3>1. Len(at2) = Len(started') + 1 /\ Len(at) = Len(started) + 1
      BY <1>1, <1>5, Zenon DEF Places
    <3>2. Len(started) \in Nat /\ Len(started') \in Nat /\ Len(accepted) \in Nat
      BY <1>6, <1>9, LenProperties DEF WriterTypes
    <3> QED
      BY <1>9, <3>1, <3>2
  <2>2. Len(accepted') <= Len(started')
    BY <1>1, <1>2, <2>1 DEF FramesArriveIntact
  <2>3. DOMAIN accepted \subseteq DOMAIN started
    BY <1>1, <1>9, <2>1 DEF FramesArriveIntact
  <2> QED
    BY <1>1, <1>2, <1>9, <2>2, <2>3, Zenon DEF FramesArriveIntact
<1>11. StreamStaysInSync'
  BY <1>1, <1>2, Zenon DEF StreamStaysInSync
<1>12. CASE overlapped
  <2>1. overlapped' /\ Torn(T, at, k, c) /\ UNCHANGED <<dir, phase, accepted>>
        /\ (overlapped => overlapped') /\ UNCHANGED <<phase, head, payload, accepted>>
    BY <1>1, <1>2, <1>12, Zenon
  <2>2. Torn(T2, at2, k, c)' /\ Matches(T2, at2, c)'
    BY <1>1, <1>2, <1>3, <1>4, <1>5, <2>1, SendTorn, Zenon
  <2>3. Reader(T2, r, at2, c)'
    <3>1. c <= c
      OBVIOUS
    <3> QED
      BY <1>1, <1>9, <2>1, <3>1, ReaderGrows, Zenon
  <2>4. Ghost(T2, r, at2, q2, k, c)'
    BY <1>5, <1>6, <1>10, <1>11, <2>1, <2>2, <2>3, Zenon DEF Ghost
  <2> QED
    BY <1>6, <1>7, <1>8, <2>4, Zenon DEF FrameInv
<1>13. CASE ~overlapped /\ \E v \in Writers \ {w} : MidFrame(v)
  <2>1. PICK v \in Writers \ {w} : MidFrame(v)
    BY <1>13
  <2>2. overlapped' /\ c = Len(T) /\ Clean(T, at, q) /\ UNCHANGED <<dir, phase, accepted>>
        /\ (overlapped => overlapped') /\ UNCHANGED <<phase, head, payload, accepted>>
    BY <1>1, <1>2, <1>13, Zenon
  <2>3. Matches(T, at, Len(T)) /\ Reader(T, r, at, Len(T)) /\ r <= Len(T)
    BY <1>1, <1>9, <2>2, Zenon
  <2>4. PICK k2 \in Nat : Torn(T2, at2, k2, Len(T))' /\ Matches(T2, at2, Len(T))'
    BY <1>1, <1>2, <1>4, <1>5, <2>1, <2>2, <2>3, SendOverlaps, Zenon
  <2>5. Reader(T2, r, at2, c)'
    <3>1. c <= c
      OBVIOUS
    <3> QED
      BY <1>1, <1>9, <2>2, <3>1, ReaderGrows, Zenon
  <2>6. Torn(T2, at2, k2, c)' /\ Matches(T2, at2, c)'
    BY <2>2, <2>4, Zenon
  <2>7. Ghost(T2, r, at2, q2, k2, c)'
    BY <1>5, <1>6, <1>10, <1>11, <2>2, <2>5, <2>6, Zenon DEF Ghost
  <2> QED
    BY <1>6, <1>7, <1>8, <2>7, Zenon DEF FrameInv
<1>14. CASE ~overlapped /\ \A v \in Writers \ {w} : ~MidFrame(v)
  <2>1. ~overlapped' /\ c = Len(T) /\ Clean(T, at, q) /\ (overlapped => overlapped')
        /\ UNCHANGED <<phase, head, payload, accepted>>
    BY <1>1, <1>2, <1>14, Zenon
  <2>2. Matches(T, at, Len(T)) /\ Reader(T, r, at, Len(T))
    BY <1>1, <2>1, Zenon
  <2>3. Matches(T2, at2, Len(T2))' /\ Clean(T2, at2, q2)'
    BY <1>1, <1>2, <1>4, <1>5, <1>6, <1>14, <2>1, <2>2, SendAlone, Zenon DEF q2
  <2>4. Reader(T2, r, at2, Len(T2))'
    BY <1>1, <1>9, <2>1, <2>2, ReaderGrows, Zenon
  <2>5. PICK c2 \in Nat : c2 = Len(T2)
    BY <1>9
  <2>6. Matches(T2, at2, c2)' /\ Reader(T2, r, at2, c2)'
    BY <2>3, <2>4, <2>5, Zenon
  <2>7. Ghost(T2, r, at2, q2, k, c2)'
    BY <1>5, <1>6, <1>10, <1>11, <2>1, <2>3, <2>5, <2>6, Zenon DEF Ghost
  <2> QED
    BY <1>6, <1>7, <1>8, <2>7, Zenon DEF FrameInv
<1> QED
  BY <1>12, <1>13, <1>14

LEMMA WritersUnchanged ==
  ASSUME NEW T \in Seq(StreamWords), NEW r \in Nat, NEW at \in Seq(Nat),
         NEW q \in [Writers -> Nat], NEW k \in Nat, NEW c \in Nat,
         WriterTypes, Ghost(T, r, at, q, k, c), UNCHANGED <<dir, wvars, open>>
  PROVE  /\ WriterTypes' /\ Places(at)' /\ Matches(T, at, c)'
         /\ \A w \in Writers : WriterOk(w, q[w])'
         /\ (~overlapped => c = Len(T) /\ Clean(T, at, q))'
<1>1. UNCHANGED <<dir, cur, rest, pos, holder, begun, shorts, started, done, overlapped, open>>
  BY DEF wvars
<1>2. WriterTypes'
  BY <1>1 DEF WriterTypes
<1>3. Places(at)' /\ Matches(T, at, c)'
  BY <1>1, Zenon DEF Ghost, Places, Matches
<1>4. \A w \in Writers : WriterOk(w, q[w])'
  BY <1>1, Zenon DEF Ghost, WriterOk, Idle, Own
<1>5. (~overlapped => c = Len(T) /\ Clean(T, at, q))'
  <2>1. \A v \in Writers : /\ MidFrame(v)' <=> MidFrame(v)
                           /\ MidFrame(v) => pos'[v] = pos[v] /\ q[v] = q[v]
    BY <1>1, Zenon DEF MidFrame, Idle
  <2>2. UNCHANGED <<open, started>> /\ overlapped' = overlapped
    BY <1>1
  <2>3. ~overlapped => c = Len(T) /\ Clean(T, at, q)
    BY Zenon DEF Ghost
  <2> QED
    BY <2>1, <2>2, <2>3, CleanUnchanged, Zenon
<1> QED
  BY <1>2, <1>3, <1>4, <1>5

LEMMA StreamFacts ==
  ASSUME NEW T \in Seq(StreamWords), NEW r \in Nat, Streamed(T, r)
  PROVE  /\ stream \in Seq(StreamWords) /\ Len(T) \in Nat /\ Len(stream) \in Nat
         /\ Len(T) = r + Len(stream)
         /\ \A i \in 1..Len(stream) : stream[i] = T[r + i]
<1>1. r <= Len(T) /\ stream = SubSeq(T, r + 1, Len(T)) /\ Len(T) \in Nat /\ Len(T) <= Len(T)
  BY DEF Streamed
<1>2. /\ stream \in Seq(StreamWords) /\ Len(stream) = Len(T) - r
      /\ \A i \in 1..(Len(T) - r) : stream[i] = T[r + i]
  BY <1>1, SubWords, Zenon
<1>3. Len(stream) \in Nat /\ Len(T) = r + Len(stream)
  BY <1>1, <1>2
<1>4. \A i \in 1..Len(stream) : stream[i] = T[r + i]
  BY <1>2, Zenon
<1> QED
  BY <1>1, <1>2, <1>3, <1>4

\* Taking x words moves the reader x words on.
LEMMA ConsumeWords ==
  ASSUME NEW T \in Seq(StreamWords), NEW r \in Nat, Streamed(T, r),
         NEW x \in Nat, x <= Len(stream)
  PROVE  /\ Take(x) \in Seq(StreamWords) /\ Len(Take(x)) = x
         /\ \A i \in 1..x : Take(x)[i] = T[r + i]
         /\ Consume(x) => Streamed(T, r + x)'
<1>1. /\ stream \in Seq(StreamWords) /\ Len(T) \in Nat /\ Len(stream) \in Nat
      /\ Len(T) = r + Len(stream)
      /\ \A i \in 1..Len(stream) : stream[i] = T[r + i]
  BY StreamFacts
<1>2. /\ Take(x) \in Seq(StreamWords) /\ Len(Take(x)) = x
      /\ \A i \in 1..x : Take(x)[i] = stream[i]
  BY <1>1, PrefixWords, Zenon DEF Take
<1>3. \A i \in 1..x : Take(x)[i] = T[r + i]
  <2> TAKE i \in 1..x
  <2>1. i \in 1..Len(stream)
    BY <1>1
  <2> QED
    BY <1>1, <1>2, <2>1, Zenon
<1>4. ASSUME Consume(x) PROVE Streamed(T, r + x)'
  <2> DEFINE a == SubSeq(stream, x + 1, Len(stream))  b == SubSeq(T, (r + x) + 1, Len(T))
  <2>1. /\ Len(stream) <= Len(stream) /\ r + x \in Nat /\ r + x <= Len(T) /\ Len(T) <= Len(T)
        /\ Len(T) - (r + x) = Len(stream) - x
        /\ \A i \in 1..(Len(stream) - x) : x + i \in 1..Len(stream) /\ r + (x + i) = (r + x) + i
    BY <1>1
  <2>2. /\ a \in Seq(StreamWords) /\ Len(a) = Len(stream) - x
        /\ \A i \in 1..(Len(stream) - x) : a[i] = stream[x + i]
    BY <1>1, <2>1, SubWords, Zenon
  <2>3. /\ b \in Seq(StreamWords) /\ Len(b) = Len(T) - (r + x)
        /\ \A i \in 1..(Len(T) - (r + x)) : b[i] = T[(r + x) + i]
    BY <1>1, <2>1, SubWords, Zenon
  <2> HIDE DEF a, b
  <2>4. \A i \in 1..(Len(stream) - x) : a[i] = b[i]
    BY <1>1, <2>1, <2>2, <2>3, Zenon
  <2>5. Len(a) = Len(b) /\ \A i \in 1..Len(a) : a[i] = b[i]
    BY <2>1, <2>2, <2>3, <2>4, Zenon
  <2>6. a = b
    BY <2>2, <2>3, <2>5, SeqEqual, Zenon
  <2>7. stream' = a
    BY <1>4 DEF Consume, a
  <2> QED
    BY <2>1, <2>6, <2>7, Zenon DEF Streamed, b
<1> QED
  BY <1>2, <1>3, <1>4

\* A word of a frame on the stream is the writer's, unless frames were mixed before.
LEMMA WordAt ==
  ASSUME NEW T \in Seq(StreamWords), NEW r \in Nat, NEW at \in Seq(Nat),
         NEW q \in [Writers -> Nat], NEW k \in Nat, NEW c \in Nat,
         WriterTypes, Ghost(T, r, at, q, k, c),
         NEW i \in DOMAIN started, NEW j \in 1..Len(Frame(started[i])), at[i] + j <= Len(T)
  PROVE  \/ at[i] + j <= c /\ T[at[i] + j] = Frame(started[i])[j]
         \/ overlapped /\ c < at[i] + j
<1>1. at[i] \in Nat
  BY PlaceFacts, Zenon DEF WriterTypes, Ghost
<1>2. PICK A \in Nat : A = at[i]
  BY <1>1
<1>3. Len(T) \in Nat /\ A + j \in Nat /\ A + j <= Len(T)
  <2>1. A + j <= Len(T)
    BY <1>2, Zenon
  <2> QED
    BY <2>1
<1>4. CASE A + j <= c
  <2>1. at[i] + j <= c
    BY <1>2, <1>4, Zenon
  <2> QED
    BY <2>1, Zenon DEF Ghost, Matches
<1>5. CASE ~(A + j <= c)
  <2>1. c < A + j
    BY <1>3, <1>5
  <2>2. overlapped
    <3> SUFFICES ASSUME ~overlapped PROVE FALSE
      OBVIOUS
    <3>1. c = Len(T)
      BY Zenon DEF Ghost
    <3> QED
      BY <1>3, <1>5, <3>1
  <2> QED
    BY <1>2, <2>1, <2>2, Zenon
<1> QED
  BY <1>4, <1>5

LEMMA ReadHeaderStep ==
  ASSUME NEW T \in Seq(StreamWords), NEW r \in Nat, NEW at \in Seq(Nat),
         NEW q \in [Writers -> Nat], NEW k \in Nat, NEW c \in Nat,
         WriterTypes, ReaderTypes, Ghost(T, r, at, q, k, c), ReadHeader
  PROVE  FrameInv'
<1>1. /\ phase = "header" /\ Len(stream) >= 2 /\ Consume(2)
      /\ UNCHANGED <<dir, wvars, open>> /\ UNCHANGED <<payload, accepted>>
      /\ UNCHANGED <<started, overlapped>>
  BY DEF ReadHeader, wvars
<1>2. /\ WriterTypes' /\ Places(at)' /\ Matches(T, at, c)'
      /\ \A w \in Writers : WriterOk(w, q[w])'
      /\ (~overlapped => c = Len(T) /\ Clean(T, at, q))'
  BY <1>1, WritersUnchanged, Zenon
<1>3. Streamed(T, r) /\ Places(at) /\ started \in Seq(Sendable)
  BY Zenon DEF Ghost, WriterTypes
<1>4. /\ stream \in Seq(StreamWords) /\ Len(T) \in Nat /\ Len(stream) \in Nat
      /\ Len(T) = r + Len(stream)
      /\ \A i \in 1..Len(stream) : stream[i] = T[r + i]
  BY <1>3, StreamFacts, Zenon
<1>5. /\ Streamed(T, r + 2)' /\ Take(2)[1] = T[r + 1] /\ Take(2)[2] = T[r + 2]
      /\ r + 2 <= Len(T) /\ r + 2 \in Nat /\ stream[2] = T[r + 2]
  <2>1. 2 \in Nat /\ 2 <= Len(stream) /\ 1 \in 1..2 /\ 2 \in 1..2 /\ 2 \in 1..Len(stream)
    BY <1>1, <1>4
  <2>2. /\ \A i \in 1..2 : Take(2)[i] = T[r + i]
        /\ Consume(2) => Streamed(T, r + 2)'
    BY <1>3, <2>1, ConsumeWords, Zenon
  <2>3. r + 2 <= Len(T) /\ r + 2 \in Nat
    BY <1>1, <1>4
  <2> QED
    BY <1>1, <1>4, <2>1, <2>2, <2>3, Zenon
<1>6. PICK n \in Nat : n = Next1 /\ n >= 1
  BY DEF Next1, ReaderTypes
<1>7. Reading /\ n <= Len(at) /\ r = at[n]
  BY <1>1, <1>6, Zenon DEF Ghost, Reader, Reading, Left
<1>8. /\ Len(started) \in Nat /\ DOMAIN started = 1..Len(started)
      /\ Len(at) \in Nat /\ Len(at) = Len(started) + 1 /\ Len(at) \in 1..Len(at)
      /\ \A i \in 1..Len(at) : at[i] \in Nat
      /\ \A i \in DOMAIN started : i \in 1..Len(at) /\ i + 1 \in 1..Len(at)
  BY <1>3, PlaceFacts, Zenon
<1>9. n \in DOMAIN started
  <2>1. CASE overlapped
    <3>1. k \in DOMAIN started /\ n <= k
      BY <1>6, <1>7, <2>1, Zenon DEF Ghost, Torn, Next1
    <3> QED
      BY <1>6, <1>8, <3>1
  <2>2. CASE ~overlapped
    <3>1. Len(T) <= at[Len(at)]
      BY <2>2, Zenon DEF Ghost, Clean
    <3>2. n # Len(at)
      <4> SUFFICES ASSUME n = Len(at) PROVE FALSE
        OBVIOUS
      <4>1. Len(T) <= r
        BY <1>7, <3>1, Zenon
      <4> QED
        BY <1>4, <1>5, <4>1
    <3> QED
      BY <1>6, <1>7, <1>8, <3>2
  <2> QED
    BY <2>1, <2>2
<1>10. PICK m \in Sendable : m = started[n] /\ Len(Data(m)) <= MaxPayload
  BY <1>3, <1>9, ElementOfSeq DEF WriterTypes
<1>11. /\ Frame(m)[1] = Magic
       /\ Frame(m)[2] = <<"head", [type |-> m.type, len |-> Len(Data(m))]>>
       /\ Len(Data(m)) \in Nat /\ m.type \in known_type
       /\ Len(Frame(m)) = Len(Data(m)) + 3
  BY FrameForm, SendableType, Zenon
<1>12. 1 \in 1..Len(Frame(m)) /\ 2 \in 1..Len(Frame(m)) /\ r + 1 <= Len(T)
  BY <1>4, <1>5, <1>11
<1>13. \/ r + 1 <= c /\ T[r + 1] = Frame(m)[1]
       \/ overlapped /\ c < r + 1
  BY <1>7, <1>9, <1>10, <1>12, WordAt, Zenon
<1>14. \/ r + 2 <= c /\ T[r + 2] = Frame(m)[2]
       \/ overlapped /\ c < r + 2
  <2>1. at[n] + 2 <= Len(T) /\ 2 \in 1..Len(Frame(started[n]))
    BY <1>5, <1>7, <1>10, <1>12, Zenon
  <2>2. \/ at[n] + 2 <= c /\ T[at[n] + 2] = Frame(started[n])[2]
        \/ overlapped /\ c < at[n] + 2
    BY <1>9, <2>1, WordAt, Zenon
  <2> QED
    BY <1>7, <1>10, <2>2, Zenon
<1>15. ASSUME NEW ph, phase' = ph, ph \in {"payload", "bad"} PROVE (overlapped => Torn(T, at, k, c))'
  <2> SUFFICES ASSUME overlapped PROVE Torn(T, at, k, c)'
    BY <1>1
  <2>1. Torn(T, at, k, c)
    BY DEF Ghost
  <2>2. UNCHANGED <<dir, open, started, accepted>>
    BY <1>1
  <2> QED
    BY <1>7, <2>1, <2>2, Zenon DEF Torn
<1>16. FramesArriveIntact'
  BY <1>1, Zenon DEF Ghost, FramesArriveIntact
<1>17. CASE r + 2 <= c
  <2>1. r + 1 <= c
    <3>1. c \in Nat /\ r + 2 <= c
      BY <1>17
    <3> QED
      BY <3>1
  <2>2. ~(c < r + 1) /\ ~(c < r + 2)
    BY <1>17, <2>1
  <2>3. Take(2)[1] = Magic /\ stream[2] = Take(2)[2]
        /\ Take(2)[2] = <<"head", [type |-> m.type, len |-> Len(Data(m))]>>
    BY <1>5, <1>11, <1>13, <1>14, <2>2, Zenon
  <2>4. HeaderOk(Take(2))
    <3> DEFINE h == Take(2)
    <3>1. h[1] = Magic /\ h[2][1] = "head" /\ h[2][2] = [type |-> m.type, len |-> Len(Data(m))]
      BY <2>3
    <3> HIDE DEF h
    <3>2. h[2][2].type \in known_type /\ h[2][2].len <= MaxPayload
      BY <1>10, <1>11, <3>1
    <3>3. HeaderOk(h)
      BY <3>1, <3>2 DEF HeaderOk
    <3> QED
      BY <3>3 DEF h
  <2>5. phase' = "payload" /\ head' = [type |-> m.type, len |-> Len(Data(m))]
    <3>1. phase' = "payload" /\ head' = stream[2][2]
      BY <2>4, Zenon DEF ReadHeader
    <3>2. stream[2][2] = [type |-> m.type, len |-> Len(Data(m))]
      BY <2>3
    <3> QED
      BY <3>1, <3>2
  <2>6. ReaderTypes'
    <3>1. head' \in Heads
      BY <1>10, <1>11, <2>5, BoundsAssumption DEF Heads
    <3> QED
      BY <1>1, <2>5, <3>1 DEF ReaderTypes, Phases
  <2>7. StreamStaysInSync'
    BY <2>5 DEF StreamStaysInSync
  <2>8. PICK r2 \in Nat : r2 = r + 2
    BY <1>5
  <2>9. Next1' = n /\ started' = started
    BY <1>1, <1>6 DEF Next1
  <2>10. Reader(T, r2, at, c)'
    <3>1. r2 = at[n] + 2 /\ r2 <= c
      BY <1>7, <1>17, <2>8, Zenon
    <3>2. phase' # "header" /\ phase' # "check"
      BY <2>5
    <3> QED
      BY <1>7, <1>9, <1>10, <2>5, <2>9, <3>1, <3>2, Zenon DEF Reader
  <2>11. Streamed(T, r2)' /\ (overlapped => Torn(T, at, k, c))'
    BY <1>5, <1>15, <2>5, <2>8, Zenon
  <2>12. Ghost(T, r2, at, q, k, c)'
    BY <1>2, <1>16, <2>7, <2>10, <2>11, Zenon DEF Ghost
  <2> QED
    BY <1>2, <2>6, <2>12, Zenon DEF FrameInv
<1>18. CASE ~(r + 2 <= c)
  <2>1. overlapped
    BY <1>14, <1>18, Zenon
  <2>2. /\ Torn(T, at, k, c) /\ k \in DOMAIN started /\ at[k] < c
        /\ n <= k /\ (Len(T) > c => T[c + 1] = Magic)
    BY <1>6, <1>7, <2>1, Zenon DEF Ghost, Torn, Next1
  <2>3. n = k
    <3> SUFFICES ASSUME n # k PROVE FALSE
      OBVIOUS
    <3>1. n + 1 \in 1..Len(at) /\ k \in 1..Len(at) /\ n + 1 <= k
      BY <1>6, <1>8, <1>9, <2>2
    <3>2. at[n + 1] <= at[k] /\ at[n + 1] = at[n] + Len(Frame(m)) /\ at[k] \in Nat /\ at[n + 1] \in Nat
      BY <1>3, <1>8, <1>9, <1>10, <3>1, PlacesOrder, Zenon DEF Places
    <3>3. PICK A \in Nat, B \in Nat, l \in Nat : A = at[n + 1] /\ B = at[k] /\ l = Len(Frame(m))
      BY <3>2, FrameLen, Zenon
    <3>4. A = r + l /\ A <= B /\ B < c /\ l = Len(Data(m)) + 3
      BY <1>7, <1>11, <2>2, <3>2, <3>3, Zenon
    <3> QED
      BY <1>11, <1>18, <3>4
  <2>4. r < c
    BY <1>7, <2>2, <2>3, Zenon
  <2>5. c + 1 = r + 2 /\ Len(T) > c
    BY <1>4, <1>5, <1>18, <2>4
  <2>6. Take(2)[2] = Magic
    BY <1>5, <2>2, <2>5, Zenon
  <2>7. ~HeaderOk(Take(2))
    BY <2>6, WordKinds, Zenon DEF HeaderOk
  <2>8. phase' = "bad" /\ head' = head
    BY <2>7, Zenon DEF ReadHeader
  <2>9. ReaderTypes'
    BY <1>1, <2>8 DEF ReaderTypes, Phases, Left
  <2>10. StreamStaysInSync'
    <3>1. dir = "up"
      BY <2>2 DEF Torn
    <3> QED
      BY <1>1, <2>1, <3>1 DEF StreamStaysInSync
  <2>11. PICK r2 \in Nat : r2 = r + 2
    BY <1>5
  <2>12. Reader(T, r2, at, c)'
    BY <2>8 DEF Reader, Reading, Left
  <2>13. Streamed(T, r2)' /\ (overlapped => Torn(T, at, k, c))'
    BY <1>5, <1>15, <2>8, <2>11, Zenon
  <2>14. Ghost(T, r2, at, q, k, c)'
    BY <1>2, <1>16, <2>10, <2>12, <2>13, Zenon DEF Ghost
  <2> QED
    BY <1>2, <2>9, <2>14, Zenon DEF FrameInv
<1> QED
  BY <1>17, <1>18

\* What the reader knows of the frame it is in.
MidRead(T, r, at, c, n, m, A, d) ==
  /\ n = Next1 /\ n >= 1 /\ n \in DOMAIN started /\ m = started[n] /\ A = at[n]
  /\ d = Len(Data(m)) /\ d <= MaxPayload
  /\ head = [type |-> m.type, len |-> d] /\ m.type \in known_type
  /\ \A j \in 1..(d + 3) : A + j <= Len(T) =>
       \/ A + j <= c /\ T[A + j] = Frame(m)[j]
       \/ overlapped /\ c < A + j
  /\ \A j \in 1..d : Frame(m)[j + 2] = Data(m)[j]
  /\ Frame(m)[d + 3] = crc32(Data(m))
  /\ Data(m) \in Seq(DataWords)
  /\ n + 1 \in 1..Len(at) /\ at[n + 1] = A + (d + 3)
  /\ phase = "payload" => r = A + 2 /\ r <= c
  /\ phase = "check" =>
       /\ r = A + 2 + d
       /\ \/ r <= c /\ payload = Data(m)
          \/ overlapped /\ \E j \in DOMAIN payload : payload[j] = Magic

LEMMA MidReadFacts ==
  ASSUME NEW T \in Seq(StreamWords), NEW r \in Nat, NEW at \in Seq(Nat),
         NEW q \in [Writers -> Nat], NEW k \in Nat, NEW c \in Nat,
         WriterTypes, ReaderTypes, Ghost(T, r, at, q, k, c), phase \in {"payload", "check"}
  PROVE  \E n \in Nat, m \in Sendable, A \in Nat, d \in Nat : MidRead(T, r, at, c, n, m, A, d)
<1>1. PICK n \in Nat : n = Next1 /\ n >= 1
  BY DEF Next1, ReaderTypes
<1>2. Reading
  BY DEF Reading, Left
<1>3. /\ n \in DOMAIN started
      /\ head = [type |-> started[n].type, len |-> Len(Data(started[n]))]
      /\ phase = "payload" => r = at[n] + 2 /\ r <= c
      /\ phase = "check" =>
           /\ r = at[n] + 2 + head.len
           /\ \/ r <= c /\ payload = Data(started[n])
              \/ overlapped /\ \E j \in DOMAIN payload : payload[j] = Magic
  BY <1>1, <1>2, Zenon DEF Ghost, Reader
<1>4. Places(at) /\ started \in Seq(Sendable)
  BY Zenon DEF Ghost, WriterTypes
<1>5. /\ Len(started) \in Nat /\ DOMAIN started = 1..Len(started)
      /\ \A i \in 1..Len(at) : at[i] \in Nat
      /\ \A i \in DOMAIN started : i \in 1..Len(at) /\ i + 1 \in 1..Len(at)
  BY <1>4, PlaceFacts, Zenon
<1>6. PICK m \in Sendable : m = started[n] /\ Len(Data(m)) <= MaxPayload
  BY <1>3, <1>4, ElementOfSeq DEF WriterTypes
<1>7. /\ Frame(m)[Len(Data(m)) + 3] = crc32(Data(m))
      /\ Len(Data(m)) \in Nat /\ m.type \in known_type
      /\ Len(Frame(m)) = Len(Data(m)) + 3
      /\ \A j \in 1..Len(Data(m)) : Frame(m)[j + 2] = Data(m)[j]
      /\ Data(m) \in Seq(DataWords)
  BY FrameForm, DataType, SendableType, Zenon
<1>8. PICK d \in Nat : d = Len(Data(m))
  BY <1>7
<1>9. PICK A \in Nat : A = at[n]
  BY <1>3, <1>5, Zenon
<1>10. at[n + 1] = A + (d + 3)
  BY <1>3, <1>4, <1>6, <1>7, <1>8, <1>9, Zenon DEF Places
<1>11. ASSUME NEW j \in 1..(d + 3), A + j <= Len(T)
       PROVE  \/ A + j <= c /\ T[A + j] = Frame(m)[j]
              \/ overlapped /\ c < A + j
  <2>1. j \in 1..Len(Frame(started[n])) /\ at[n] + j <= Len(T)
    BY <1>6, <1>7, <1>8, <1>9, <1>11, Zenon
  <2>2. \/ at[n] + j <= c /\ T[at[n] + j] = Frame(started[n])[j]
        \/ overlapped /\ c < at[n] + j
    BY <1>3, <2>1, WordAt, Zenon
  <2> QED
    BY <1>6, <1>9, <2>2, Zenon
<1>12. head.len = d
  BY <1>3, <1>6, <1>8
<1>13. /\ phase = "payload" => r = A + 2 /\ r <= c
       /\ phase = "check" =>
            /\ r = A + 2 + d
            /\ \/ r <= c /\ payload = Data(m)
               \/ overlapped /\ \E j \in DOMAIN payload : payload[j] = Magic
  BY <1>3, <1>6, <1>9, <1>12, Zenon
<1>14. /\ head = [type |-> m.type, len |-> d] /\ d <= MaxPayload
       /\ Frame(m)[d + 3] = crc32(Data(m))
       /\ \A j \in 1..d : Frame(m)[j + 2] = Data(m)[j]
  BY <1>3, <1>6, <1>7, <1>8, Zenon
<1>15. MidRead(T, r, at, c, n, m, A, d)
  BY <1>1, <1>3, <1>5, <1>6, <1>7, <1>8, <1>9, <1>10, <1>11, <1>13, <1>14, Zenon DEF MidRead
<1> QED
  BY <1>15, Zenon

LEMMA ReadPayloadStep ==
  ASSUME NEW T \in Seq(StreamWords), NEW r \in Nat, NEW at \in Seq(Nat),
         NEW q \in [Writers -> Nat], NEW k \in Nat, NEW c \in Nat,
         WriterTypes, ReaderTypes, Ghost(T, r, at, q, k, c), ReadPayload
  PROVE  FrameInv'
<1>1. /\ phase = "payload" /\ phase' = "check" /\ Len(stream) >= head.len /\ Consume(head.len)
      /\ payload' = Take(head.len)
      /\ UNCHANGED <<dir, wvars, open>> /\ UNCHANGED <<head, accepted>>
      /\ UNCHANGED <<started, overlapped>>
  BY DEF ReadPayload, wvars
<1>2. /\ WriterTypes' /\ Places(at)' /\ Matches(T, at, c)'
      /\ \A w \in Writers : WriterOk(w, q[w])'
      /\ (~overlapped => c = Len(T) /\ Clean(T, at, q))'
  BY <1>1, WritersUnchanged, Zenon
<1>3. Streamed(T, r) /\ phase \in {"payload", "check"}
  BY <1>1 DEF Ghost
<1>4. Len(T) \in Nat /\ Len(stream) \in Nat /\ Len(T) = r + Len(stream)
  BY <1>3, StreamFacts, Zenon
<1>5. PICK n \in Nat, m \in Sendable, A \in Nat, d \in Nat : MidRead(T, r, at, c, n, m, A, d)
  BY <1>3, MidReadFacts, Zenon
<1>6. /\ n = Next1 /\ n \in DOMAIN started /\ m = started[n] /\ A = at[n]
      /\ d = Len(Data(m)) /\ head = [type |-> m.type, len |-> d]
      /\ \A j \in 1..(d + 3) : A + j <= Len(T) =>
           \/ A + j <= c /\ T[A + j] = Frame(m)[j]
           \/ overlapped /\ c < A + j
      /\ \A j \in 1..d : Frame(m)[j + 2] = Data(m)[j]
      /\ Data(m) \in Seq(DataWords)
      /\ r = A + 2 /\ r <= c
  BY <1>1, <1>5, Zenon DEF MidRead
<1>7. head.len = d
  BY <1>6
<1>8. d <= Len(stream)
  BY <1>1, <1>4, <1>7
<1>9. /\ payload' \in Seq(StreamWords) /\ Len(payload') = d
      /\ \A i \in 1..d : payload'[i] = T[r + i]
      /\ Streamed(T, r + d)'
  <2>1. /\ Take(d) \in Seq(StreamWords) /\ Len(Take(d)) = d
        /\ \A i \in 1..d : Take(d)[i] = T[r + i]
        /\ Consume(d) => Streamed(T, r + d)'
    BY <1>3, <1>8, ConsumeWords, Zenon
  <2> QED
    BY <1>1, <1>7, <2>1, Zenon
<1>10. ReaderTypes'
  BY <1>1, <1>9 DEF ReaderTypes, Phases
<1>11. FramesArriveIntact'
  BY <1>1, Zenon DEF Ghost, FramesArriveIntact
<1>12. StreamStaysInSync'
  BY <1>1 DEF StreamStaysInSync
<1>13. (overlapped => Torn(T, at, k, c))'
  <2> SUFFICES ASSUME overlapped PROVE Torn(T, at, k, c)'
    BY <1>1
  <2>1. Torn(T, at, k, c) /\ Reading
    BY <1>1 DEF Ghost, Reading, Left
  <2>2. UNCHANGED <<dir, open, started, accepted>>
    BY <1>1
  <2> QED
    BY <2>1, <2>2, Zenon DEF Torn
<1>14. PICK r2 \in Nat : r2 = r + d
  OBVIOUS
<1>a. r = A + 2 /\ r <= c /\ r2 <= Len(T)
  <2>1. r = A + 2 /\ r <= c
    BY <1>6, Zenon
  <2> QED
    BY <1>4, <1>8, <1>14, <2>1
<1>15. \/ r2 <= c /\ payload' = Data(m)
       \/ overlapped /\ \E j \in DOMAIN (payload') : payload'[j] = Magic
  <2>1. CASE r2 <= c
    <3>1. ASSUME NEW i \in 1..d PROVE payload'[i] = Data(m)[i]
      <4>1. PICK j \in 1..(d + 3) : j = i + 2
        <5>1. i + 2 \in 1..(d + 3)
          OBVIOUS
        <5> QED
          BY <5>1, Zenon
      <4>2. A + j <= Len(T) /\ A + j <= c /\ A + j = r + i /\ ~(c < A + j)
        BY <1>4, <1>a, <1>14, <2>1, <4>1
      <4>3. T[r + i] = Frame(m)[i + 2]
        BY <1>6, <4>1, <4>2, Zenon
      <4> QED
        BY <1>6, <1>9, <4>3, Zenon
    <3>2. Data(m) \in Seq(StreamWords)
      <4>1. DataWords \subseteq StreamWords
        BY DEF StreamWords
      <4> QED
        BY <1>6, <4>1, SeqMonotonic
    <3>3. Len(payload') = Len(Data(m)) /\ \A i \in 1..Len(payload') : payload'[i] = Data(m)[i]
      BY <1>6, <1>9, <3>1, Zenon
    <3>4. payload' = Data(m)
      BY <1>9, <3>2, <3>3, SeqEqual, Zenon
    <3> QED
      BY <2>1, <3>4
  <2>2. CASE ~(r2 <= c)
    <3>1. PICK j \in 1..(d + 3) : j = d + 2
      <4>1. d + 2 \in 1..(d + 3)
        OBVIOUS
      <4> QED
        BY <4>1, Zenon
    <3>2. A + j <= Len(T) /\ ~(A + j <= c)
      BY <1>4, <1>a, <1>14, <2>2, <3>1
    <3>3. overlapped
      BY <1>6, <3>2, Zenon
    <3>4. Len(T) > c
      BY <1>4, <1>a, <2>2
    <3>5. T[c + 1] = Magic
      BY <3>3, <3>4, Zenon DEF Ghost, Torn
    <3>6. PICK i \in 1..d : r + i = c + 1
      <4>1. (c + 1) - r \in 1..d /\ r + ((c + 1) - r) = c + 1
        BY <1>a, <1>14, <2>2
      <4> QED
        BY <4>1, Zenon
    <3>7. payload'[i] = Magic
      BY <1>9, <3>5, <3>6, Zenon
    <3>8. DOMAIN (payload') = 1..d
      BY <1>9
    <3> QED
      BY <3>3, <3>7, <3>8, Zenon
  <2> QED
    BY <2>1, <2>2
<1>16. Next1' = n
  BY <1>1, <1>6 DEF Next1
<1>17. Reader(T, r2, at, c)'
  <2>1. r2 = A + 2 + d
    BY <1>6, <1>14
  <2>2. n <= Len(at)
    BY <1>3, <1>6, Zenon DEF Ghost, Reader, Reading, Left
  <2>3. head' = [type |-> m.type, len |-> d] /\ head'.len = d
    BY <1>1, <1>6
  <2>4. phase' # "header" /\ phase' # "payload" /\ phase' = "check"
    BY <1>1
  <2>5. /\ n \in DOMAIN (started') /\ m = started'[n]
        /\ head' = [type |-> started'[n].type, len |-> Len(Data(started'[n]))]
        /\ r2 = at[n] + 2 + head'.len
        /\ \/ r2 <= c /\ payload' = Data(started'[n])
           \/ overlapped' /\ \E j \in DOMAIN (payload') : payload'[j] = Magic
    BY <1>1, <1>6, <1>15, <2>1, <2>3, Zenon
  <2> QED
    BY <1>16, <2>2, <2>4, <2>5, Zenon DEF Reader
<1>18. Ghost(T, r2, at, q, k, c)'
  BY <1>2, <1>9, <1>11, <1>12, <1>13, <1>14, <1>17, Zenon DEF Ghost
<1> QED
  BY <1>2, <1>10, <1>18, Zenon DEF FrameInv

LEMMA ReadCheckStep ==
  ASSUME NEW T \in Seq(StreamWords), NEW r \in Nat, NEW at \in Seq(Nat),
         NEW q \in [Writers -> Nat], NEW k \in Nat, NEW c \in Nat,
         WriterTypes, ReaderTypes, Ghost(T, r, at, q, k, c), ReadCheck
  PROVE  FrameInv'
<1>1. /\ phase = "check" /\ Len(stream) >= 1 /\ Consume(1)
      /\ head' = NoHead /\ payload' = <<>>
      /\ UNCHANGED <<dir, wvars, open>>
      /\ UNCHANGED <<started, overlapped>>
  BY DEF ReadCheck, wvars
<1>2. /\ WriterTypes' /\ Places(at)' /\ Matches(T, at, c)'
      /\ \A w \in Writers : WriterOk(w, q[w])'
      /\ (~overlapped => c = Len(T) /\ Clean(T, at, q))'
  BY <1>1, WritersUnchanged, Zenon
<1>3. Streamed(T, r) /\ phase \in {"payload", "check"} /\ Reading
  BY <1>1 DEF Ghost, Reading, Left
<1>4. /\ Len(T) \in Nat /\ Len(stream) \in Nat /\ Len(T) = r + Len(stream)
      /\ stream \in Seq(StreamWords)
      /\ \A i \in 1..Len(stream) : stream[i] = T[r + i]
  BY <1>3, StreamFacts, Zenon
<1>5. PICK n \in Nat, m \in Sendable, A \in Nat, d \in Nat : MidRead(T, r, at, c, n, m, A, d)
  BY <1>3, MidReadFacts, Zenon
<1>6. /\ n = Next1 /\ n \in DOMAIN started /\ m = started[n] /\ A = at[n] /\ n >= 1
      /\ d = Len(Data(m)) /\ head = [type |-> m.type, len |-> d] /\ m.type \in known_type
      /\ \A j \in 1..(d + 3) : A + j <= Len(T) =>
           \/ A + j <= c /\ T[A + j] = Frame(m)[j]
           \/ overlapped /\ c < A + j
      /\ Frame(m)[d + 3] = crc32(Data(m))
      /\ n + 1 \in 1..Len(at) /\ at[n + 1] = A + (d + 3)
      /\ r = A + 2 + d
      /\ \/ r <= c /\ payload = Data(m)
         \/ overlapped /\ \E j \in DOMAIN payload : payload[j] = Magic
  BY <1>1, <1>5, Zenon DEF MidRead
<1>7. /\ 1 \in 1..Len(stream) /\ r + 1 <= Len(T) /\ 1 <= Len(stream)
  BY <1>1, <1>4
<1>8. PICK r2 \in Nat : r2 = r + 1
  OBVIOUS
<1>9. /\ stream[1] = T[r2] /\ stream[1] \in StreamWords /\ Streamed(T, r2)'
  <2>1. Consume(1) => Streamed(T, r + 1)'
    BY <1>3, <1>7, ConsumeWords, Zenon
  <2>2. stream[1] \in StreamWords
    BY <1>4, <1>7, ElementOfSeq
  <2> QED
    BY <1>1, <1>4, <1>7, <1>8, <2>1, <2>2, Zenon
<1>10. \/ r2 <= c /\ T[r2] = crc32(Data(m))
       \/ overlapped /\ c < r2
  <2>1. PICK j \in 1..(d + 3) : j = d + 3
    <3>1. d + 3 \in 1..(d + 3)
      OBVIOUS
    <3> QED
      BY <3>1, Zenon
  <2>2. r = A + 2 + d
    BY <1>6, Zenon
  <2>3. A + j = r2 /\ A + j <= Len(T)
    BY <1>7, <1>8, <2>1, <2>2
  <2> QED
    BY <1>6, <2>1, <2>3, Zenon
<1>11. n = Len(accepted) + 1 /\ Len(accepted) \in Nat
  BY <1>6 DEF Next1, ReaderTypes
<1>12. Torn(T, at, k, c) \/ ~overlapped
  BY Zenon DEF Ghost
<1>13. CASE ~ChecksumOk(payload, stream[1])
  <2>1. phase' = "bad" /\ accepted' = accepted
    BY <1>13, Zenon DEF ReadCheck
  <2>2. overlapped
    <3> SUFFICES ASSUME ~overlapped PROVE FALSE
      OBVIOUS
    <3>1. payload = Data(m) /\ T[r2] = crc32(Data(m))
      BY <1>6, <1>10, Zenon
    <3> QED
      BY <1>9, <1>13, <3>1, Zenon DEF ChecksumOk
  <2>3. ReaderTypes'
    <3>1. NoHead \in Heads
      BY BoundsAssumption DEF NoHead, Heads
    <3>2. payload' \in Seq(StreamWords)
      BY <1>1
    <3> QED
      BY <1>1, <2>1, <3>1, <3>2 DEF ReaderTypes, Phases, Left
  <2>4. ~Reading'
    BY <2>1 DEF Reading, Left
  <2>5. Torn(T, at, k, c)' /\ dir = "up"
    <3>1. UNCHANGED <<dir, open, started>>
      BY <1>1
    <3> QED
      BY <1>12, <2>2, <2>4, <3>1, Zenon DEF Torn
  <2>6. StreamStaysInSync'
    BY <1>1, <2>2, <2>5 DEF StreamStaysInSync
  <2>7. Reader(T, r2, at, c)'
    BY <2>4, Zenon DEF Reader
  <2>8. FramesArriveIntact'
    BY <1>1, <2>1, Zenon DEF Ghost, FramesArriveIntact
  <2>9. Ghost(T, r2, at, q, k, c)'
    BY <1>2, <1>9, <2>5, <2>6, <2>7, <2>8, Zenon DEF Ghost
  <2> QED
    BY <1>2, <2>3, <2>9, Zenon DEF FrameInv
<1>14. CASE ChecksumOk(payload, stream[1])
  <2>1. crc32(payload) = T[r2] /\ crc32(payload) \in StreamWords
    BY <1>9, <1>14 DEF ChecksumOk
  <2>2. ~\E j \in DOMAIN payload : payload[j] = Magic
    <3> SUFFICES ASSUME NEW j \in DOMAIN payload, payload[j] = Magic PROVE FALSE
      OBVIOUS
    <3>1. payload \in Seq(DataWords)
      BY <2>1, WordKinds, Zenon
    <3>2. payload[j] \in DataWords
      BY <3>1, ElementOfSeq
    <3> QED
      BY <3>2, WordKinds, Zenon
  <2>3. r <= c /\ payload = Data(m)
    BY <1>6, <2>2, Zenon
  <2>4. r2 <= c
    <3> SUFFICES ASSUME ~(r2 <= c) PROVE FALSE
      OBVIOUS
    <3>1. overlapped
      BY <1>10, Zenon
    <3>2. r2 = c + 1 /\ Len(T) > c
      BY <1>4, <1>7, <1>8, <2>3
    <3>3. T[c + 1] = Magic
      BY <1>12, <3>1, <3>2, Zenon DEF Torn
    <3> QED
      BY <2>1, <3>2, <3>3, WordKinds, Zenon
  <2>5. PICK frame : frame = [type |-> head.type, payload |-> payload]
    OBVIOUS
  <2>6. accepted' = Append(accepted, frame)
    BY <1>14, <2>5, Zenon DEF ReadCheck
  <2>7. phase' \in {"header", "unwelcome"}
    <3>1. phase' = IF Welcome(frame) THEN "header" ELSE "unwelcome"
      BY <1>14, <2>5, Zenon DEF ReadCheck
    <3> QED
      BY <3>1
  <2>8. frame.type = m.type /\ frame.payload = Data(m) /\ frame \in Frames
    <3>1. payload \in Seq(StreamWords)
      BY DEF ReaderTypes
    <3> QED
      BY <1>6, <2>3, <2>5, <3>1 DEF Frames
  <2>9. /\ accepted' \in Seq(Frames) /\ Len(accepted') = n
        /\ \A i \in 1..Len(accepted) : accepted'[i] = accepted[i]
        /\ accepted'[n] = frame
    <3>1. accepted \in Seq(Frames)
      BY DEF ReaderTypes
    <3> QED
      BY <1>11, <2>6, <2>8, <3>1, AppendProperties
  <2>10. FramesArriveIntact'
    <3>1. n <= Len(started)
      BY <1>6 DEF WriterTypes
    <3>2. ASSUME NEW i \in 1..n
          PROVE  accepted'[i].type = started[i].type /\ accepted'[i].payload = Data(started[i])
      <4>1. CASE i = n
        BY <1>6, <2>8, <2>9, <4>1, Zenon
      <4>2. CASE i # n
        <5>1. i \in 1..Len(accepted)
          BY <1>11, <4>2
        <5>2. i \in DOMAIN accepted
          BY <5>1 DEF ReaderTypes
        <5> QED
          BY <2>9, <5>1, <5>2, Zenon DEF Ghost, FramesArriveIntact
      <4> QED
        BY <4>1, <4>2
    <3>3. DOMAIN (accepted') = 1..n
      BY <2>9
    <3> QED
      BY <1>1, <2>9, <3>1, <3>2, <3>3, Zenon DEF FramesArriveIntact
  <2>11. ReaderTypes'
    <3>1. NoHead \in Heads
      BY BoundsAssumption DEF NoHead, Heads
    <3>2. payload' \in Seq(StreamWords)
      BY <1>1
    <3>3. phase' \in Phases
      BY <2>7 DEF Phases, Left
    <3> QED
      BY <1>1, <2>9, <3>1, <3>2, <3>3, Zenon DEF ReaderTypes
  <2>12. StreamStaysInSync'
    BY <2>7 DEF StreamStaysInSync
  <2>13. PICK n2 \in Nat : n2 = n + 1
    OBVIOUS
  <2>14. Next1' = n2
    BY <2>9, <2>13, Zenon DEF Next1
  <2>15. r2 = at[n2]
    <3>1. r = A + 2 + d /\ at[n2] = A + (d + 3)
      BY <1>6, <2>13, Zenon
    <3>2. r2 = A + (d + 3)
      BY <1>8, <3>1
    <3> QED
      BY <3>1, <3>2
  <2>16. Reader(T, r2, at, c)'
    <3>1. n2 <= Len(at)
      BY <1>6, <2>13
    <3>2. phase' # "payload" /\ phase' # "check" /\ phase' \notin {"payload", "check"}
      BY <2>7
    <3> QED
      BY <2>14, <2>15, <3>1, <3>2, Zenon DEF Reader
  <2>17. (overlapped => Torn(T, at, k, c))'
    <3> SUFFICES ASSUME overlapped PROVE Torn(T, at, k, c)'
      BY <1>1
    <3>1. UNCHANGED <<dir, open, started>>
      BY <1>1
    <3>2. Torn(T, at, k, c) /\ k \in DOMAIN started /\ c < at[k + 1]
      BY <1>12, Zenon DEF Torn
    <3>3. n2 <= k
      <4> SUFFICES ASSUME ~(n2 <= k) PROVE FALSE
        OBVIOUS
      <4>1. Places(at) /\ started \in Seq(Sendable)
        BY Zenon DEF Ghost, WriterTypes
      <4>2. k + 1 <= n2 /\ k + 1 \in 1..Len(at) /\ n2 \in 1..Len(at)
        BY <1>6, <2>13, <3>2, <4>1, PlaceFacts
      <4>3. at[k + 1] <= at[n2] /\ at[k + 1] \in Nat
        BY <4>1, <4>2, PlacesOrder, PlaceFacts, Zenon
      <4>4. PICK B \in Nat : B = at[k + 1]
        BY <4>3
      <4>5. B <= r2 /\ c < B
        BY <2>15, <3>2, <4>3, <4>4, Zenon
      <4> QED
        BY <2>4, <4>5
    <3>4. Len(accepted') + 1 <= k
      BY <2>9, <2>13, <3>3
    <3> QED
      BY <3>1, <3>2, <3>4, Zenon DEF Torn
  <2>18. Ghost(T, r2, at, q, k, c)'
    BY <1>2, <1>9, <2>10, <2>12, <2>16, <2>17, Zenon DEF Ghost
  <2> QED
    BY <1>2, <2>11, <2>18, Zenon DEF FrameInv
<1> QED
  BY <1>13, <1>14

LEMMA ReadEofStep ==
  ASSUME NEW T \in Seq(StreamWords), NEW r \in Nat, NEW at \in Seq(Nat),
         NEW q \in [Writers -> Nat], NEW k \in Nat, NEW c \in Nat,
         WriterTypes, ReaderTypes, Ghost(T, r, at, q, k, c), ReadEof
  PROVE  FrameInv'
<1>1. /\ phase' = "eof" /\ UNCHANGED <<dir, wvars, open>>
      /\ UNCHANGED <<stream, head, payload, accepted>> /\ UNCHANGED <<started, overlapped>>
  BY DEF ReadEof, wvars
<1>2. /\ WriterTypes' /\ Places(at)' /\ Matches(T, at, c)'
      /\ \A w \in Writers : WriterOk(w, q[w])'
      /\ (~overlapped => c = Len(T) /\ Clean(T, at, q))'
  BY <1>1, WritersUnchanged, Zenon
<1>3. ReaderTypes'
  BY <1>1 DEF ReaderTypes, Phases, Left
<1>4. Streamed(T, r)'
  BY <1>1, Zenon DEF Ghost, Streamed
<1>5. ~Reading' /\ StreamStaysInSync'
  BY <1>1 DEF Reading, Left, StreamStaysInSync
<1>6. Reader(T, r, at, c)'
  BY <1>5, Zenon DEF Reader
<1>7. FramesArriveIntact'
  BY <1>1, Zenon DEF Ghost, FramesArriveIntact
<1>8. (overlapped => Torn(T, at, k, c))'
  <2>1. UNCHANGED <<dir, open, started, overlapped>>
    BY <1>1
  <2> QED
    BY <1>5, <2>1, Zenon DEF Ghost, Torn
<1>9. Ghost(T, r, at, q, k, c)'
  BY <1>2, <1>4, <1>5, <1>6, <1>7, <1>8, Zenon DEF Ghost
<1> QED
  BY <1>2, <1>3, <1>9, Zenon DEF FrameInv

LEMMA ReadStep ==
  ASSUME NEW T \in Seq(StreamWords), NEW r \in Nat, NEW at \in Seq(Nat),
         NEW q \in [Writers -> Nat], NEW k \in Nat, NEW c \in Nat,
         WriterTypes, ReaderTypes, Ghost(T, r, at, q, k, c), Read
  PROVE  FrameInv'
<1>1. CASE ReadHeader
  BY <1>1, ReadHeaderStep, Zenon
<1>2. CASE ReadPayload
  BY <1>2, ReadPayloadStep, Zenon
<1>3. CASE ReadCheck
  BY <1>3, ReadCheckStep, Zenon
<1>4. CASE ReadEof
  BY <1>4, ReadEofStep, Zenon
<1> QED
  BY <1>1, <1>2, <1>3, <1>4, Zenon DEF Read

LEMMA Stutter == FrameInv /\ UNCHANGED vars => FrameInv'
<1> SUFFICES ASSUME FrameInv, UNCHANGED vars PROVE FrameInv'
  OBVIOUS
<1>1. UNCHANGED <<dir, cur, rest, pos, holder, begun, shorts, stream, open, phase, head,
                  payload, started, done, accepted, overlapped>>
  BY DEF vars
<1>2. PICK T \in Seq(StreamWords), r \in Nat, at \in Seq(Nat), q \in [Writers -> Nat],
           k \in Nat, c \in Nat : Ghost(T, r, at, q, k, c)
  BY Zenon DEF FrameInv
<1>3. WriterTypes /\ ReaderTypes
  BY Zenon DEF FrameInv
<1>4. UNCHANGED <<dir, wvars, open>>
  BY <1>1 DEF wvars
<1>5. /\ WriterTypes' /\ Places(at)' /\ Matches(T, at, c)'
      /\ \A w \in Writers : WriterOk(w, q[w])'
      /\ (~overlapped => c = Len(T) /\ Clean(T, at, q))'
  BY <1>2, <1>3, <1>4, WritersUnchanged, Zenon
<1>6. ReaderTypes'
  BY <1>1, <1>3 DEF ReaderTypes
<1>7. Streamed(T, r)' /\ FramesArriveIntact' /\ StreamStaysInSync'
  BY <1>1, <1>2, Zenon DEF Ghost, Streamed, FramesArriveIntact, StreamStaysInSync
<1>8. Reader(T, r, at, c)'
  BY <1>1, <1>2, Zenon DEF Ghost, Reader, Reading, Next1
<1>9. (overlapped => Torn(T, at, k, c))'
  BY <1>1, <1>2, Zenon DEF Ghost, Torn, Reading
<1>10. Ghost(T, r, at, q, k, c)'
  BY <1>5, <1>7, <1>8, <1>9, Zenon DEF Ghost
<1> QED
  BY <1>5, <1>6, <1>10, Zenon DEF FrameInv

LEMMA FrameNext == FrameInv /\ [Next]_vars => FrameInv'
<1> SUFFICES ASSUME FrameInv, [Next]_vars PROVE FrameInv'
  OBVIOUS
<1>1. CASE UNCHANGED vars
  BY <1>1, Stutter, Zenon
<1>2. CASE Next
  <2>1. PICK T \in Seq(StreamWords), r \in Nat, at \in Seq(Nat), q \in [Writers -> Nat],
             k \in Nat, c \in Nat : Ghost(T, r, at, q, k, c)
    BY Zenon DEF FrameInv
  <2>2. WriterTypes /\ ReaderTypes
    BY Zenon DEF FrameInv
  <2>3. ASSUME NEW w \in Writers, BeginWrite(w) PROVE FrameInv'
    BY <2>1, <2>2, <2>3, BeginWriteStep, Zenon
  <2>4. ASSUME NEW w \in Writers, RefuseWrite(w) PROVE FrameInv'
    BY <2>1, <2>2, <2>4, RefuseWriteStep, Zenon
  <2>5. ASSUME NEW w \in Writers, Send(w) PROVE FrameInv'
    BY <2>1, <2>2, <2>5, SendStep, Zenon
  <2>6. ASSUME NEW w \in Writers, SendFails(w) PROVE FrameInv'
    BY <2>1, <2>2, <2>6, SendFailsStep, Zenon
  <2>7. CASE Break
    BY <2>1, <2>2, <2>7, BreakStep, Zenon
  <2>8. CASE Read
    BY <2>1, <2>2, <2>8, ReadStep, Zenon
  <2> QED
    BY <1>2, <2>3, <2>4, <2>5, <2>6, <2>7, <2>8, Zenon DEF Next
<1> QED
  BY <1>1, <1>2

LEMMA FrameAlways == Spec => []FrameInv
BY FrameInit, FrameNext, PTL DEF Spec

\* A message being written is one its writer may still send, or the greeting.
LEMMA OwnMessages ==
  ASSUME dir \in {"up", "down"}, NEW w \in Writers, begun[w] >= 1, begun[w] \in Nat
  PROVE  Own(w) \subseteq Messages(w) \cup Msgs("HELLO", Hellos) \cup Msgs("HELLO_ACK", Acks)
<1>1. begun[w] # 0
  OBVIOUS
<1> QED
  BY <1>1 DEF Own, Messages, UpMessages, DownMessages

LEMMA FrameTypes == FrameInv => TypeOK
<1> SUFFICES ASSUME FrameInv PROVE TypeOK
  OBVIOUS
<1>1. PICK T \in Seq(StreamWords), r \in Nat, at \in Seq(Nat), q \in [Writers -> Nat],
           k \in Nat, c \in Nat : Ghost(T, r, at, q, k, c)
  BY Zenon DEF FrameInv
<1>2. WriterTypes /\ ReaderTypes
  BY Zenon DEF FrameInv
<1> DEFINE All == {NoMsg} \cup (UNION {Messages(w) : w \in Writers})
                    \cup Msgs("HELLO", Hellos) \cup Msgs("HELLO_ACK", Acks)
<1>9. NoMsg \in All /\ \A x \in Msgs("HELLO", Hellos) \cup Msgs("HELLO_ACK", Acks) : x \in All
  OBVIOUS
<1>10. ASSUME NEW w \in Writers,
             NEW x \in Messages(w) \cup Msgs("HELLO", Hellos) \cup Msgs("HELLO_ACK", Acks)
      PROVE  x \in All
  <2>1. CASE x \in Messages(w)
    <3>1. x \in UNION {Messages(v) : v \in Writers}
      BY <2>1
    <3> QED
      BY <3>1
  <2>2. CASE x \notin Messages(w)
    BY <1>9, <2>2, Zenon
  <2> QED
    BY <2>1, <2>2
<1> HIDE DEF All
<1>3. ASSUME NEW w \in Writers
      PROVE  cur[w] \in All /\ Len(rest[w]) \in 0..3 /\ pos[w] \in 0..Len(started)
  <2>1. WriterOk(w, q[w])
    BY <1>1, Zenon DEF Ghost
  <2>2. Len(started) \in Nat /\ DOMAIN started = 1..Len(started)
    BY <1>2 DEF WriterTypes
  <2>3. CASE Idle(w)
    <3>1. cur[w] = NoMsg /\ pos[w] = 0 /\ rest[w] = <<>>
      BY <2>1, <2>3 DEF WriterOk, Idle
    <3> QED
      BY <1>9, <2>2, <3>1
  <2>4. CASE ~Idle(w)
    <3>1. /\ cur[w] \in Sendable /\ cur[w] \in Own(w) /\ begun[w] >= 1
          /\ q[w] < Len(Frame(cur[w])) /\ rest[w] = Pieces(cur[w], q[w])
          /\ pos[w] = 0 \/ pos[w] \in DOMAIN started
      BY <2>1, <2>4, Zenon DEF WriterOk
    <3>2. dir \in {"up", "down"} /\ begun[w] \in Nat /\ q[w] \in Nat
      BY <1>2 DEF WriterTypes
    <3>3. cur[w] \in Messages(w) \cup Msgs("HELLO", Hellos) \cup Msgs("HELLO_ACK", Acks)
      BY <3>1, <3>2, OwnMessages, Zenon
    <3>4. PICK m \in Sendable, p \in Nat : m = cur[w] /\ p = q[w]
      BY <3>1, <3>2
    <3>5. p < Len(Frame(m)) /\ rest[w] = Pieces(m, p)
      BY <3>1, <3>4, Zenon
    <3>6. Len(Pieces(m, p)) \in 1..3
      BY <3>5, PiecesStep, Zenon
    <3>7. cur[w] \in All
      BY <1>10, <3>3, Zenon
    <3>8. Len(rest[w]) \in 0..3
      BY <3>5, <3>6
    <3>9. pos[w] \in 0..Len(started)
      BY <2>2, <3>1
    <3> QED
      BY <3>7, <3>8, <3>9
  <2> QED
    BY <2>3, <2>4
<1>4. cur \in [Writers -> All]
  BY <1>2, <1>3, Zenon DEF WriterTypes
<1>5. \A w \in Writers : begun[w] \in 0..MaxFrames[w]
  <2>1. \A w \in Writers : begun[w] \in Nat /\ MaxFrames[w] \in Nat /\ begun[w] <= MaxFrames[w]
    BY <1>2, BoundsAssumption DEF WriterTypes
  <2> QED
    BY <2>1
<1>6. head.len \in 0..MaxPayload
  BY <1>2 DEF ReaderTypes, Heads
<1>7. /\ dir \in {"up", "down"} /\ holder \in Writers \cup {"none"} /\ shorts \in 0..MaxShort
      /\ open \in BOOLEAN /\ overlapped \in BOOLEAN /\ done \subseteq DOMAIN started
  BY <1>2 DEF WriterTypes
<1>8. phase \in {"header", "payload", "check"} \cup Left
  BY <1>2 DEF ReaderTypes, Phases
<1> QED
  BY <1>3, <1>4, <1>5, <1>6, <1>7, <1>8, Zenon DEF TypeOK, All

-----------------------------------------------------------------------------
(* What the decoders read.  A reader is given a payload s that holds the words e  *)
(* from some place on, and returns the value that was encoded as e.             *)

\* The payload s has the words e from place a on.
Carries(s, a, e) ==
  /\ s \in Nats /\ e \in Nats /\ a \in Nat /\ a >= 1 /\ Len(s) \in Nat /\ Len(e) \in Nat
  /\ a + Len(e) <= Len(s) + 1
  /\ \A i \in 1..Len(e) : s[a + i - 1] = e[i]

\* The same of the two parts of a concatenation.
LEMMA CarriesCat ==
  ASSUME NEW s, NEW a, NEW p \in Nats, NEW q \in Nats, Carries(s, a, p \o q)
  PROVE  Carries(s, a, p) /\ Carries(s, a + Len(p), q) /\ Len(p \o q) = Len(p) + Len(q)
         /\ Len(p) \in Nat /\ Len(q) \in Nat
<1>1. /\ Len(p) \in Nat /\ Len(q) \in Nat /\ Len(p \o q) = Len(p) + Len(q)
      /\ \A i \in 1..Len(p) : (p \o q)[i] = p[i]
      /\ \A j \in 1..Len(q) : (p \o q)[j + Len(p)] = q[j]
  BY ConcatAt DEF Nats
<1>2. PICK x \in Nat, y \in Nat, l \in Nat : x = Len(p) /\ y = Len(q) /\ l = Len(s)
  BY <1>1 DEF Carries
<1>3. /\ s \in Nats /\ a \in Nat /\ a >= 1 /\ a + (x + y) <= l + 1
      /\ \A i \in 1..(x + y) : s[a + i - 1] = (p \o q)[i]
  BY <1>1, <1>2 DEF Carries
<1>4. \A i \in 1..x : s[a + i - 1] = p[i]
  <2> TAKE i \in 1..x
  <2>1. i \in 1..(x + y)
    OBVIOUS
  <2> QED
    BY <1>1, <1>2, <1>3, <2>1
<1>5. \A i \in 1..y : s[(a + x) + i - 1] = q[i]
  <2> TAKE i \in 1..y
  <2>1. i + x \in 1..(x + y) /\ (a + x) + i - 1 = a + (i + x) - 1
    BY <1>3
  <2> QED
    BY <1>1, <1>2, <1>3, <2>1
<1>6. a + x <= l + 1 /\ a + x \in Nat /\ a + x >= 1 /\ (a + x) + y <= l + 1
  BY <1>3
<1> QED
  BY <1>1, <1>2, <1>3, <1>4, <1>5, <1>6 DEF Carries

\* The same where the first part is one word.
LEMMA CarriesWord ==
  ASSUME NEW s, NEW a, NEW v \in Nat, NEW q \in Nats, Carries(s, a, <<v>> \o q)
  PROVE  /\ Carries(s, a, <<v>>) /\ Carries(s, a + 1, q)
         /\ Len(<<v>> \o q) = 1 + Len(q) /\ Len(q) \in Nat
<1>0. <<v>> \in Nats /\ Len(<<v>>) = 1
  BY DEF Nats
<1>1. PICK p \in Nats : p = <<v>> /\ Len(p) = 1
  BY <1>0
<1>2. Carries(s, a, p \o q)
  BY <1>1
<1>3. Carries(s, a, p) /\ Carries(s, a + Len(p), q) /\ Len(p \o q) = Len(p) + Len(q) /\ Len(q) \in Nat
  BY <1>2, CarriesCat
<1> QED
  BY <1>1, <1>3

\* Reading on from a value.
LEMMA One == \A v : (CHOOSE y \in {v} : TRUE) = v
OBVIOUS

\* A word, an enumerated byte, a flag and a string are read back where they lie.
LEMMA WordReads ==
  ASSUME NEW s, NEW a, NEW v, Carries(s, a, <<v>>)
  PROVE  word(s, a) = Got(v, a + 1) /\ a <= Len(s) /\ s[a] = v
<1>1. Len(<<v>>) = 1 /\ <<v>>[1] = v /\ 1 \in 1..1
  OBVIOUS
<1>2. a \in Nat /\ Len(s) \in Nat /\ a + 1 <= Len(s) + 1 /\ s[a + 1 - 1] = v
  BY <1>1 DEF Carries
<1>3. a <= Len(s) /\ s[a] = v
  BY <1>2
<1> QED
  BY <1>3 DEF word

LEMMA EnumReads ==
  ASSUME NEW s, NEW a, NEW v, NEW n, Carries(s, a, <<v>>), v < n
  PROVE  enum(s, a, n) = Got(v, a + 1)
BY WordReads DEF enum

LEMMA FlagReads ==
  ASSUME NEW s, NEW a, NEW b \in BOOLEAN, Carries(s, a, Flag(b))
  PROVE  flag(s, a) = Got(b, a + 1) /\ Len(Flag(b)) = 1
<1>1. PICK v \in {0, 1} : v = (IF b THEN 1 ELSE 0) /\ (v # 0) = b
  OBVIOUS
<1>2. Flag(b) = <<v>>
  BY <1>1 DEF Flag
<1>3. a <= Len(s) /\ s[a] = v
  BY <1>2, WordReads
<1> QED
  BY <1>1, <1>2, <1>3 DEF flag

LEMMA StrReads ==
  ASSUME NEW s, NEW a, NEW x \in Nats, Carries(s, a, Str(x))
  PROVE  str(s, a) = Got(x, a + Len(Str(x)))
<1>1. <<Len(x)>> \in Nats /\ Len(x) \in Nat /\ Len(<<Len(x)>>) = 1
  BY DEF Nats
<1>2. Carries(s, a, <<Len(x)>>) /\ Carries(s, a + 1, x) /\ Len(Str(x)) = 1 + Len(x)
  BY <1>1, CarriesWord DEF Str
<1>3. word(s, a) = Got(Len(x), a + 1)
  BY <1>2, WordReads, Zenon
<1>4. PICK l \in Nat, n \in Nat : l = Len(s) /\ n = Len(x)
  BY <1>1, <1>2 DEF Carries
<1>5. /\ s \in Seq(Nat) /\ a \in Nat /\ a >= 1 /\ a + 1 + n <= l + 1
      /\ \A i \in 1..n : s[a + 1 + i - 1] = x[i]
  BY <1>2, <1>4 DEF Carries, Nats
<1>6. SubSeq(s, a + 1, a + n) = x
  <2>1. /\ SubSeq(s, a + 1, a + n) \in Seq(Nat) /\ Len(SubSeq(s, a + 1, a + n)) = (a + n) - a
        /\ \A i \in 1..((a + n) - a) : SubSeq(s, a + 1, a + n)[i] = s[a + i]
    <3>1. PICK b \in Nat : b = a + n /\ a <= b /\ b <= Len(s)
      BY <1>4, <1>5
    <3>2. /\ SubSeq(s, a + 1, b) \in Seq(Nat) /\ Len(SubSeq(s, a + 1, b)) = b - a
          /\ \A i \in 1..(b - a) : SubSeq(s, a + 1, b)[i] = s[a + i]
      BY <1>5, <3>1, SubSeqAt
    <3> QED
      BY <3>1, <3>2
  <2>2. (a + n) - a = n /\ \A i \in 1..n : a + 1 + i - 1 = a + i
    BY <1>5
  <2>3. x \in Seq(Nat) /\ Len(x) = n
    BY <1>4 DEF Nats
  <2>4. \A i \in 1..n : SubSeq(s, a + 1, a + n)[i] = x[i]
    BY <1>5, <2>1, <2>2
  <2> QED
    BY <2>1, <2>2, <2>3, <2>4, SeqEqual
<1>7. n <= l - a /\ (a + 1) + n = a + (1 + n)
  BY <1>5
<1>8. (IF n <= Len(s) - a THEN Got(SubSeq(s, a + 1, a + n), (a + 1) + n) ELSE Refused)
        = Got(x, a + Len(Str(x)))
  BY <1>2, <1>4, <1>6, <1>7
<1>9. str(s, a) = IF n <= Len(s) - a THEN Got(SubSeq(s, a + 1, a + n), (a + 1) + n) ELSE Refused
  BY <1>3, <1>4 DEF str, Then, Got
<1> QED
  BY <1>8, <1>9

\* An optional field as it is written is absent or has one value.
LEMMA PresentForms ==
  /\ \A x \in Optional(Nat) : PresentId(x) = <<>> \/ \E v \in Nat : PresentId(x) = <<v>>
  /\ \A x \in Optional(Strings) : PresentReason(x) = <<>> \/ \E v \in Nats : PresentReason(x) = <<v>>
<1>1. \A S : \A x \in Optional(S) : x = <<>> \/ \E v \in S : x = <<v>>
  <2> SUFFICES ASSUME NEW S, NEW x \in Optional(S) PROVE x = <<>> \/ \E v \in S : x = <<v>>
    OBVIOUS
  <2>1. x \in [{} -> S] \/ x \in [{1} -> S]
    BY DEF Optional
  <2>2. ASSUME x \in [{} -> S] PROVE x = <<>>
    BY <2>2
  <2>3. ASSUME x \in [{1} -> S] PROVE x = <<x[1]>> /\ x[1] \in S
    BY <2>3
  <2> QED
    BY <2>1, <2>2, <2>3
<1> QED
  BY <1>1, Zenon DEF PresentId, PresentReason, Strings, Nats

\* What is read of an absent optional field, and of a present one.
LEMMA AbsentReads ==
  ASSUME NEW s, NEW a, Carries(s, a, << 0 >>)
  PROVE  opt(s, a, word) = Got(<<>>, a + 1) /\ opt(s, a, str) = Got(<<>>, a + 1)
<1>1. enum(s, a, 2) = Got(0, a + 1)
  <2>1. 0 < 2
    OBVIOUS
  <2> QED
    BY <2>1, EnumReads
<1> QED
  BY <1>1 DEF opt, Then, Got

LEMMA OptWordReads ==
  ASSUME NEW s, NEW a, NEW v \in Nat, Carries(s, a, << 1 >> \o <<v>>)
  PROVE  opt(s, a, word) = Got(<<v>>, (a + 1) + 1) /\ Len(<< 1 >> \o <<v>>) = 2
<1>1. 1 < 2 /\ 1 \in Nat /\ <<v>> \in Nats /\ Len(<<v>>) = 1
  BY DEF Nats
<1>2. Carries(s, a, << 1 >>) /\ Carries(s, a + 1, <<v>>) /\ Len(<< 1 >> \o <<v>>) = 1 + Len(<<v>>)
  BY <1>1, CarriesWord
<1>3. enum(s, a, 2) = Got(1, a + 1)
  BY <1>1, <1>2, EnumReads
<1>4. word(s, a + 1) = Got(v, (a + 1) + 1)
  BY <1>2, WordReads
<1>5. opt(s, a, word) = Got(<<v>>, (a + 1) + 1)
  BY <1>3, <1>4 DEF opt, Then, Got
<1> QED
  BY <1>1, <1>2, <1>5

LEMMA OptStrReads ==
  ASSUME NEW s, NEW a, NEW v \in Nats, Carries(s, a, << 1 >> \o Str(v))
  PROVE  /\ opt(s, a, str) = Got(<<v>>, (a + 1) + Len(Str(v)))
         /\ Len(<< 1 >> \o Str(v)) = 1 + Len(Str(v)) /\ Len(Str(v)) \in Nat
<1>1. 1 < 2 /\ 1 \in Nat /\ Str(v) \in Nats
  BY StrType
<1>2. Carries(s, a, << 1 >>) /\ Carries(s, a + 1, Str(v)) /\ Len(<< 1 >> \o Str(v)) = 1 + Len(Str(v))
      /\ Len(Str(v)) \in Nat
  BY <1>1, CarriesWord
<1>3. enum(s, a, 2) = Got(1, a + 1)
  BY <1>1, <1>2, EnumReads
<1>4. str(s, a + 1) = Got(v, (a + 1) + Len(Str(v)))
  BY <1>2, StrReads
<1>5. opt(s, a, str) = Got(<<v>>, (a + 1) + Len(Str(v)))
  BY <1>3, <1>4 DEF opt, Then, Got
<1> QED
  BY <1>1, <1>2, <1>5

\* The reader of an optional identity undoes its writer, and so for a reason.
LEMMA OptIdReads ==
  ASSUME NEW s, NEW a, NEW x \in Optional(Nat), Carries(s, a, Opt(PresentId(x), Word))
  PROVE  opt(s, a, word) = Got(PresentId(x), a + Len(Opt(PresentId(x), Word)))
<1>0. a \in Nat
  BY DEF Carries
<1>1. CASE PresentId(x) = <<>>
  <2>1. Opt(PresentId(x), Word) = << 0 >> /\ Len(<< 0 >>) = 1
    BY <1>1 DEF Opt
  <2> QED
    BY <1>1, <2>1, AbsentReads
<1>2. ASSUME NEW v \in Nat, PresentId(x) = <<v>>
      PROVE  opt(s, a, word) = Got(PresentId(x), a + Len(Opt(PresentId(x), Word)))
  <2>1. Opt(PresentId(x), Word) = << 1 >> \o <<v>>
    BY <1>2 DEF Opt, Word
  <2>2. opt(s, a, word) = Got(<<v>>, (a + 1) + 1) /\ Len(<< 1 >> \o <<v>>) = 2
    BY <2>1, OptWordReads
  <2>3. (a + 1) + 1 = a + 2
    BY <1>0
  <2> QED
    BY <1>2, <2>1, <2>2, <2>3
<1> QED
  BY <1>1, <1>2, PresentForms, Zenon

LEMMA OptReasonReads ==
  ASSUME NEW s, NEW a, NEW x \in Optional(Strings), Carries(s, a, Opt(PresentReason(x), Str))
  PROVE  opt(s, a, str) = Got(PresentReason(x), a + Len(Opt(PresentReason(x), Str)))
<1>0. a \in Nat
  BY DEF Carries
<1>1. CASE PresentReason(x) = <<>>
  <2>1. Opt(PresentReason(x), Str) = << 0 >> /\ Len(<< 0 >>) = 1
    BY <1>1 DEF Opt
  <2> QED
    BY <1>1, <2>1, AbsentReads
<1>2. ASSUME NEW v \in Nats, PresentReason(x) = <<v>>
      PROVE  opt(s, a, str) = Got(PresentReason(x), a + Len(Opt(PresentReason(x), Str)))
  <2>1. Opt(PresentReason(x), Str) = << 1 >> \o Str(v)
    BY <1>2 DEF Opt
  <2>2. opt(s, a, str) = Got(<<v>>, (a + 1) + Len(Str(v))) /\ Len(<< 1 >> \o Str(v)) = 1 + Len(Str(v))
        /\ Len(Str(v)) \in Nat
    BY <2>1, OptStrReads
  <2>3. \A n \in Nat : (a + 1) + n = a + (1 + n)
    BY <1>0
  <2> QED
    BY <1>2, <2>1, <2>2, <2>3
<1> QED
  BY <1>1, <1>2, PresentForms, Zenon

\* A tuple of words.
LEMMA WordsReads ==
  ASSUME NEW s, NEW a, NEW e, Carries(s, a, e)
  PROVE  words(s, a, Len(e)) = Got(e, a + Len(e))
<1>1. PICK l \in Nat, n \in Nat : l = Len(s) /\ n = Len(e)
  BY DEF Carries
<1>2. /\ s \in Seq(Nat) /\ e \in Seq(Nat) /\ a \in Nat /\ a >= 1 /\ a + n <= l + 1
      /\ \A i \in 1..n : s[a + i - 1] = e[i]
  BY <1>1 DEF Carries, Nats
<1>a. /\ a - 1 \in Nat /\ a + n - 1 \in Nat /\ a - 1 <= a + n - 1 /\ a + n - 1 <= Len(s)
      /\ (a - 1) + 1 = a
  BY <1>1, <1>2
<1>3. PICK b \in Nat, c \in Nat : b = a - 1 /\ c = a + n - 1 /\ b <= c /\ c <= Len(s) /\ b + 1 = a
  BY <1>a
<1>4. /\ SubSeq(s, b + 1, c) \in Seq(Nat) /\ Len(SubSeq(s, b + 1, c)) = c - b
      /\ \A i \in 1..(c - b) : SubSeq(s, b + 1, c)[i] = s[b + i]
  BY <1>2, <1>3, SubSeqAt
<1>5. c - b = n /\ \A i \in 1..n : a + i - 1 = b + i
  BY <1>2, <1>3
<1>6. \A i \in 1..n : SubSeq(s, b + 1, c)[i] = e[i]
  BY <1>2, <1>4, <1>5
<1>7. SubSeq(s, b + 1, c) = e
  BY <1>1, <1>2, <1>4, <1>5, <1>6, SeqEqual
<1>8. n <= l + 1 - a
  BY <1>2
<1>9. SubSeq(s, a, a + n - 1) = e
  BY <1>3, <1>7
<1> QED
  BY <1>1, <1>8, <1>9 DEF words

\* Two functions that agree at 0, and at i whenever they agree before it.
LEMMA Agree ==
  ASSUME NEW n \in Nat, NEW f, NEW g, f[0] = g[0],
         \A i \in 1..n : f[i - 1] = g[i - 1] => f[i] = g[i]
  PROVE  f[n] = g[n]
<1> DEFINE S == {i \in Nat : i <= n => f[i] = g[i]}
<1>1. 0 \in S
  OBVIOUS
<1>2. ASSUME NEW i \in Nat, i \in S PROVE i + 1 \in S
  <2> SUFFICES ASSUME i + 1 <= n PROVE f[i + 1] = g[i + 1]
    OBVIOUS
  <2>1. i + 1 \in 1..n /\ (i + 1) - 1 = i /\ i <= n
    OBVIOUS
  <2> QED
    BY <1>2, <2>1
<1> HIDE DEF S
<1>3. Nat \subseteq S
  BY <1>1, <1>2, NatInd, Zenon
<1> QED
  BY <1>3 DEF S

\* One item more of a sequence.
LEMMA OneMore ==
  ASSUME NEW V, NEW vs \in Seq(V), NEW i \in 1..Len(vs)
  PROVE  SubSeq(vs, 1, i) = Append(SubSeq(vs, 1, i - 1), vs[i])
<1>1. PICK n \in Nat : n = Len(vs) /\ i \in 1..n /\ vs \in [1..n -> V]
  BY LenProperties
<1> DEFINE p == SubSeq(vs, 1, i - 1)  q == SubSeq(vs, 1, i)
<1>2. p = [j \in 1..(i - 1) |-> vs[j]] /\ q = [j \in 1..i |-> vs[j]]
  BY <1>1
<1>3. p \in Seq(V) /\ Len(p) = i - 1 /\ q \in Seq(V) /\ Len(q) = i
  BY <1>1, <1>2, IsASeq
<1>4. vs[i] \in V
  BY <1>1
<1>5. /\ Append(p, vs[i]) \in Seq(V) /\ Len(Append(p, vs[i])) = Len(p) + 1
      /\ \A j \in 1..(Len(p) + 1) : Append(p, vs[i])[j] = IF j = Len(p) + 1 THEN vs[i] ELSE p[j]
  <2> HIDE DEF p
  <2> QED
    BY <1>3, <1>4, AppendProperties
<1>6. \A j \in 1..i : Append(p, vs[i])[j] = q[j]
  <2> TAKE j \in 1..i
  <2>1. Len(p) + 1 = i /\ (j # i => j \in 1..(i - 1))
    BY <1>1, <1>3
  <2> QED
    BY <1>2, <1>5, <2>1
<1> HIDE DEF p, q
<1>7. Len(p) + 1 = i
  BY <1>1, <1>3
<1>8. Append(p, vs[i]) = q
  BY <1>3, <1>5, <1>6, <1>7, SeqEqual
<1> QED
  BY <1>8 DEF p, q

\* A list of words, of strings, of pairs of words, of commands and of objects: reading its
\* items one after the other gives the list, unless there are more than the bound.
ItemWord(s, acc) ==
  Then(acc, LAMBDA y : Then(word(s, y.at), LAMBDA x : Got(Append(y.v, x.v), x.at)))

WordList(s, at, bound) == list(s, at, bound, word)

\* A counted list of words, when the i-th item is read as vs[i] up to place c[i].
LEMMA ListWord ==
  ASSUME NEW s, NEW at, NEW bound, NEW n \in Nat, word(s, at) = Got(n, at + 1),
         NEW V, NEW vs \in Seq(V), Len(vs) = n,
         NEW c, c[0] = at + 1, \A i \in 1..n : word(s, c[i - 1]) = Got(vs[i], c[i])
  PROVE  WordList(s, at, bound) = IF n <= bound THEN Got(vs, c[n]) ELSE Refused
<1> DEFINE f == [i \in 0..n |-> Got(SubSeq(vs, 1, i), c[i])]
           w == word(s, at)
           E(g) == [i \in 0..w.v |-> IF i = 0 THEN Got(<<>>, w.at) ELSE ItemWord(s, g[i - 1])]
           r == CHOOSE g : g = E(g)
           F(x) == LET read[i \in 0..x.v] ==
                         IF i = 0 THEN Got(<<>>, x.at) ELSE ItemWord(s, read[i - 1])
                   IN  IF x.v <= bound THEN read[x.v] ELSE Refused
<1>0. w.v = n /\ w.at = at + 1 /\ w.ok
  BY DEF Got
<1>1. f[0] = Got(<<>>, at + 1) /\ f[n] = Got(vs, c[n])
  <2>1. 0 \in 0..n /\ n \in 0..n /\ SubSeq(vs, 1, 0) = <<>> /\ SubSeq(vs, 1, n) = vs
    OBVIOUS
  <2> QED
    BY <2>1
<1>2. ASSUME NEW i \in 1..n PROVE ItemWord(s, f[i - 1]) = f[i]
  <2>1. f[i - 1] = Got(SubSeq(vs, 1, i - 1), c[i - 1]) /\ f[i] = Got(SubSeq(vs, 1, i), c[i])
    OBVIOUS
  <2>2. SubSeq(vs, 1, i) = Append(SubSeq(vs, 1, i - 1), vs[i])
    BY OneMore
  <2>3. word(s, c[i - 1]) = Got(vs[i], c[i])
    OBVIOUS
  <2> HIDE DEF f
  <2> QED
    BY <2>1, <2>2, <2>3 DEF ItemWord, Then, Got
<1>3. f = E(f)
  <2>1. \A i \in 0..n : f[i] = IF i = 0 THEN Got(<<>>, at + 1) ELSE ItemWord(s, f[i - 1])
    <3> TAKE i \in 0..n
    <3>1. i = 0 \/ i \in 1..n
      OBVIOUS
    <3> HIDE DEF f
    <3> QED
      BY <1>1, <1>2, <3>1
  <2>2. f = [i \in 0..n |-> f[i]]
    OBVIOUS
  <2> HIDE DEF f, w
  <2> QED
    BY <1>0, <2>1, <2>2, Zenon
<1>4. r = E(r)
  <2> HIDE DEF f, E
  <2> QED
    BY <1>3, Zenon
<1>5. WordList(s, at, bound) = IF n <= bound THEN r[n] ELSE Refused
  <2>1. WordList(s, at, bound) = Then(w, F)
    BY DEF WordList, list, ItemWord
  <2>2. Then(w, F) = F(w)
    <3> HIDE DEF w, F
    <3> QED
      BY <1>0 DEF Then
  <2>3. F(w) = IF w.v <= bound THEN r[w.v] ELSE Refused
    OBVIOUS
  <2> HIDE DEF w, F, r
  <2> QED
    BY <1>0, <2>1, <2>2, <2>3
<1> HIDE DEF f, r
<1>6. r[0] = Got(<<>>, at + 1) /\ \A i \in 1..n : r[i] = ItemWord(s, r[i - 1])
  <2>1. 0 \in 0..n /\ \A i \in 1..n : i \in 0..n /\ i # 0
    OBVIOUS
  <2> HIDE DEF w
  <2> QED
    BY <1>0, <1>4, <2>1
<1>7. r[n] = f[n]
  <2>1. r[0] = f[0] /\ \A i \in 1..n : r[i - 1] = f[i - 1] => r[i] = f[i]
    BY <1>1, <1>2, <1>6
  <2> HIDE DEF E
  <2> QED
    BY <2>1, Agree
<1> QED
  BY <1>1, <1>5, <1>7

ItemStr(s, acc) ==
  Then(acc, LAMBDA y : Then(str(s, y.at), LAMBDA x : Got(Append(y.v, x.v), x.at)))

StrList(s, at, bound) == list(s, at, bound, str)

\* The same of a list of strings.
LEMMA ListStr ==
  ASSUME NEW s, NEW at, NEW bound, NEW n \in Nat, word(s, at) = Got(n, at + 1),
         NEW V, NEW vs \in Seq(V), Len(vs) = n,
         NEW c, c[0] = at + 1, \A i \in 1..n : str(s, c[i - 1]) = Got(vs[i], c[i])
  PROVE  StrList(s, at, bound) = IF n <= bound THEN Got(vs, c[n]) ELSE Refused
<1> DEFINE f == [i \in 0..n |-> Got(SubSeq(vs, 1, i), c[i])]
           w == word(s, at)
           E(g) == [i \in 0..w.v |-> IF i = 0 THEN Got(<<>>, w.at) ELSE ItemStr(s, g[i - 1])]
           r == CHOOSE g : g = E(g)
           F(x) == LET read[i \in 0..x.v] ==
                         IF i = 0 THEN Got(<<>>, x.at) ELSE ItemStr(s, read[i - 1])
                   IN  IF x.v <= bound THEN read[x.v] ELSE Refused
<1>0. w.v = n /\ w.at = at + 1 /\ w.ok
  BY DEF Got
<1>1. f[0] = Got(<<>>, at + 1) /\ f[n] = Got(vs, c[n])
  <2>1. 0 \in 0..n /\ n \in 0..n /\ SubSeq(vs, 1, 0) = <<>> /\ SubSeq(vs, 1, n) = vs
    OBVIOUS
  <2> QED
    BY <2>1
<1>2. ASSUME NEW i \in 1..n PROVE ItemStr(s, f[i - 1]) = f[i]
  <2>1. f[i - 1] = Got(SubSeq(vs, 1, i - 1), c[i - 1]) /\ f[i] = Got(SubSeq(vs, 1, i), c[i])
    OBVIOUS
  <2>2. SubSeq(vs, 1, i) = Append(SubSeq(vs, 1, i - 1), vs[i])
    BY OneMore
  <2>3. str(s, c[i - 1]) = Got(vs[i], c[i])
    OBVIOUS
  <2> HIDE DEF f
  <2> QED
    BY <2>1, <2>2, <2>3 DEF ItemStr, Then, Got
<1>3. f = E(f)
  <2>1. \A i \in 0..n : f[i] = IF i = 0 THEN Got(<<>>, at + 1) ELSE ItemStr(s, f[i - 1])
    <3> TAKE i \in 0..n
    <3>1. i = 0 \/ i \in 1..n
      OBVIOUS
    <3> HIDE DEF f
    <3> QED
      BY <1>1, <1>2, <3>1
  <2>2. f = [i \in 0..n |-> f[i]]
    OBVIOUS
  <2> HIDE DEF f, w
  <2> QED
    BY <1>0, <2>1, <2>2, Zenon
<1>4. r = E(r)
  <2> HIDE DEF f, E
  <2> QED
    BY <1>3, Zenon
<1>5. StrList(s, at, bound) = IF n <= bound THEN r[n] ELSE Refused
  <2>1. StrList(s, at, bound) = Then(w, F)
    BY DEF StrList, list, ItemStr
  <2>2. Then(w, F) = F(w)
    <3> HIDE DEF w, F
    <3> QED
      BY <1>0 DEF Then
  <2>3. F(w) = IF w.v <= bound THEN r[w.v] ELSE Refused
    OBVIOUS
  <2> HIDE DEF w, F, r
  <2> QED
    BY <1>0, <2>1, <2>2, <2>3
<1> HIDE DEF f, r
<1>6. r[0] = Got(<<>>, at + 1) /\ \A i \in 1..n : r[i] = ItemStr(s, r[i - 1])
  <2>1. 0 \in 0..n /\ \A i \in 1..n : i \in 0..n /\ i # 0
    OBVIOUS
  <2> HIDE DEF w
  <2> QED
    BY <1>0, <1>4, <2>1
<1>7. r[n] = f[n]
  <2>1. r[0] = f[0] /\ \A i \in 1..n : r[i - 1] = f[i - 1] => r[i] = f[i]
    BY <1>1, <1>2, <1>6
  <2> HIDE DEF E
  <2> QED
    BY <2>1, Agree
<1> QED
  BY <1>1, <1>5, <1>7

PairList(s, at, bound) == list(s, at, bound, LAMBDA t, p : words(t, p, 2))

ItemPair(s, acc) ==
  Then(acc, LAMBDA y : Then(words(s, y.at, 2), LAMBDA x : Got(Append(y.v, x.v), x.at)))

\* The same of a list of pairs.
LEMMA ListPair ==
  ASSUME NEW s, NEW at, NEW bound, NEW n \in Nat, word(s, at) = Got(n, at + 1),
         NEW V, NEW vs \in Seq(V), Len(vs) = n,
         NEW c, c[0] = at + 1, \A i \in 1..n : words(s, c[i - 1], 2) = Got(vs[i], c[i])
  PROVE  PairList(s, at, bound) = IF n <= bound THEN Got(vs, c[n]) ELSE Refused
<1> DEFINE f == [i \in 0..n |-> Got(SubSeq(vs, 1, i), c[i])]
           w == word(s, at)
           E(g) == [i \in 0..w.v |-> IF i = 0 THEN Got(<<>>, w.at) ELSE ItemPair(s, g[i - 1])]
           r == CHOOSE g : g = E(g)
           F(x) == LET read[i \in 0..x.v] ==
                         IF i = 0 THEN Got(<<>>, x.at) ELSE ItemPair(s, read[i - 1])
                   IN  IF x.v <= bound THEN read[x.v] ELSE Refused
<1>0. w.v = n /\ w.at = at + 1 /\ w.ok
  BY DEF Got
<1>1. f[0] = Got(<<>>, at + 1) /\ f[n] = Got(vs, c[n])
  <2>1. 0 \in 0..n /\ n \in 0..n /\ SubSeq(vs, 1, 0) = <<>> /\ SubSeq(vs, 1, n) = vs
    OBVIOUS
  <2> QED
    BY <2>1
<1>2. ASSUME NEW i \in 1..n PROVE ItemPair(s, f[i - 1]) = f[i]
  <2>1. f[i - 1] = Got(SubSeq(vs, 1, i - 1), c[i - 1]) /\ f[i] = Got(SubSeq(vs, 1, i), c[i])
    OBVIOUS
  <2>2. SubSeq(vs, 1, i) = Append(SubSeq(vs, 1, i - 1), vs[i])
    BY OneMore
  <2>3. words(s, c[i - 1], 2) = Got(vs[i], c[i])
    OBVIOUS
  <2> HIDE DEF f
  <2> QED
    BY <2>1, <2>2, <2>3 DEF ItemPair, Then, Got
<1>3. f = E(f)
  <2>1. \A i \in 0..n : f[i] = IF i = 0 THEN Got(<<>>, at + 1) ELSE ItemPair(s, f[i - 1])
    <3> TAKE i \in 0..n
    <3>1. i = 0 \/ i \in 1..n
      OBVIOUS
    <3> HIDE DEF f
    <3> QED
      BY <1>1, <1>2, <3>1
  <2>2. f = [i \in 0..n |-> f[i]]
    OBVIOUS
  <2> HIDE DEF f, w
  <2> QED
    BY <1>0, <2>1, <2>2, Zenon
<1>4. r = E(r)
  <2> HIDE DEF f, E
  <2> QED
    BY <1>3, Zenon
<1>5. PairList(s, at, bound) = IF n <= bound THEN r[n] ELSE Refused
  <2>1. PairList(s, at, bound) = Then(w, F)
    BY DEF PairList, list, ItemPair
  <2>2. Then(w, F) = F(w)
    <3> HIDE DEF w, F
    <3> QED
      BY <1>0 DEF Then
  <2>3. F(w) = IF w.v <= bound THEN r[w.v] ELSE Refused
    OBVIOUS
  <2> HIDE DEF w, F, r
  <2> QED
    BY <1>0, <2>1, <2>2, <2>3
<1> HIDE DEF f, r
<1>6. r[0] = Got(<<>>, at + 1) /\ \A i \in 1..n : r[i] = ItemPair(s, r[i - 1])
  <2>1. 0 \in 0..n /\ \A i \in 1..n : i \in 0..n /\ i # 0
    OBVIOUS
  <2> HIDE DEF w
  <2> QED
    BY <1>0, <1>4, <2>1
<1>7. r[n] = f[n]
  <2>1. r[0] = f[0] /\ \A i \in 1..n : r[i - 1] = f[i - 1] => r[i] = f[i]
    BY <1>1, <1>2, <1>6
  <2> HIDE DEF E
  <2> QED
    BY <2>1, Agree
<1> QED
  BY <1>1, <1>5, <1>7

ItemCmd(s, acc) ==
  Then(acc, LAMBDA y : Then(ReadCmd(s, y.at), LAMBDA x : Got(Append(y.v, x.v), x.at)))

CmdList(s, at, bound) == list(s, at, bound, ReadCmd)

\* The same of a list of commands.
LEMMA ListCmd ==
  ASSUME NEW s, NEW at, NEW bound, NEW n \in Nat, word(s, at) = Got(n, at + 1),
         NEW V, NEW vs \in Seq(V), Len(vs) = n,
         NEW c, c[0] = at + 1, \A i \in 1..n : ReadCmd(s, c[i - 1]) = Got(vs[i], c[i])
  PROVE  CmdList(s, at, bound) = IF n <= bound THEN Got(vs, c[n]) ELSE Refused
<1> DEFINE f == [i \in 0..n |-> Got(SubSeq(vs, 1, i), c[i])]
           w == word(s, at)
           E(g) == [i \in 0..w.v |-> IF i = 0 THEN Got(<<>>, w.at) ELSE ItemCmd(s, g[i - 1])]
           r == CHOOSE g : g = E(g)
           F(x) == LET read[i \in 0..x.v] ==
                         IF i = 0 THEN Got(<<>>, x.at) ELSE ItemCmd(s, read[i - 1])
                   IN  IF x.v <= bound THEN read[x.v] ELSE Refused
<1>0. w.v = n /\ w.at = at + 1 /\ w.ok
  BY DEF Got
<1>1. f[0] = Got(<<>>, at + 1) /\ f[n] = Got(vs, c[n])
  <2>1. 0 \in 0..n /\ n \in 0..n /\ SubSeq(vs, 1, 0) = <<>> /\ SubSeq(vs, 1, n) = vs
    OBVIOUS
  <2> QED
    BY <2>1
<1>2. ASSUME NEW i \in 1..n PROVE ItemCmd(s, f[i - 1]) = f[i]
  <2>1. f[i - 1] = Got(SubSeq(vs, 1, i - 1), c[i - 1]) /\ f[i] = Got(SubSeq(vs, 1, i), c[i])
    OBVIOUS
  <2>2. SubSeq(vs, 1, i) = Append(SubSeq(vs, 1, i - 1), vs[i])
    BY OneMore
  <2>3. ReadCmd(s, c[i - 1]) = Got(vs[i], c[i])
    OBVIOUS
  <2> HIDE DEF f
  <2> QED
    BY <2>1, <2>2, <2>3 DEF ItemCmd, Then, Got
<1>3. f = E(f)
  <2>1. \A i \in 0..n : f[i] = IF i = 0 THEN Got(<<>>, at + 1) ELSE ItemCmd(s, f[i - 1])
    <3> TAKE i \in 0..n
    <3>1. i = 0 \/ i \in 1..n
      OBVIOUS
    <3> HIDE DEF f
    <3> QED
      BY <1>1, <1>2, <3>1
  <2>2. f = [i \in 0..n |-> f[i]]
    OBVIOUS
  <2> HIDE DEF f, w
  <2> QED
    BY <1>0, <2>1, <2>2, Zenon
<1>4. r = E(r)
  <2> HIDE DEF f, E
  <2> QED
    BY <1>3, Zenon
<1>5. CmdList(s, at, bound) = IF n <= bound THEN r[n] ELSE Refused
  <2>1. CmdList(s, at, bound) = Then(w, F)
    BY DEF CmdList, list, ItemCmd
  <2>2. Then(w, F) = F(w)
    <3> HIDE DEF w, F
    <3> QED
      BY <1>0 DEF Then
  <2>3. F(w) = IF w.v <= bound THEN r[w.v] ELSE Refused
    OBVIOUS
  <2> HIDE DEF w, F, r
  <2> QED
    BY <1>0, <2>1, <2>2, <2>3
<1> HIDE DEF f, r
<1>6. r[0] = Got(<<>>, at + 1) /\ \A i \in 1..n : r[i] = ItemCmd(s, r[i - 1])
  <2>1. 0 \in 0..n /\ \A i \in 1..n : i \in 0..n /\ i # 0
    OBVIOUS
  <2> HIDE DEF w
  <2> QED
    BY <1>0, <1>4, <2>1
<1>7. r[n] = f[n]
  <2>1. r[0] = f[0] /\ \A i \in 1..n : r[i - 1] = f[i - 1] => r[i] = f[i]
    BY <1>1, <1>2, <1>6
  <2> HIDE DEF E
  <2> QED
    BY <2>1, Agree
<1> QED
  BY <1>1, <1>5, <1>7

ItemObject(s, acc) ==
  Then(acc, LAMBDA y : Then(decode_object(s, y.at), LAMBDA x : Got(Append(y.v, x.v), x.at)))

ObjectList(s, at, bound) == list(s, at, bound, decode_object)

\* The same of a list of objects.
LEMMA ListObject ==
  ASSUME NEW s, NEW at, NEW bound, NEW n \in Nat, word(s, at) = Got(n, at + 1),
         NEW V, NEW vs \in Seq(V), Len(vs) = n,
         NEW c, c[0] = at + 1, \A i \in 1..n : decode_object(s, c[i - 1]) = Got(vs[i], c[i])
  PROVE  ObjectList(s, at, bound) = IF n <= bound THEN Got(vs, c[n]) ELSE Refused
<1> DEFINE f == [i \in 0..n |-> Got(SubSeq(vs, 1, i), c[i])]
           w == word(s, at)
           E(g) == [i \in 0..w.v |-> IF i = 0 THEN Got(<<>>, w.at) ELSE ItemObject(s, g[i - 1])]
           r == CHOOSE g : g = E(g)
           F(x) == LET read[i \in 0..x.v] ==
                         IF i = 0 THEN Got(<<>>, x.at) ELSE ItemObject(s, read[i - 1])
                   IN  IF x.v <= bound THEN read[x.v] ELSE Refused
<1>0. w.v = n /\ w.at = at + 1 /\ w.ok
  BY DEF Got
<1>1. f[0] = Got(<<>>, at + 1) /\ f[n] = Got(vs, c[n])
  <2>1. 0 \in 0..n /\ n \in 0..n /\ SubSeq(vs, 1, 0) = <<>> /\ SubSeq(vs, 1, n) = vs
    OBVIOUS
  <2> QED
    BY <2>1
<1>2. ASSUME NEW i \in 1..n PROVE ItemObject(s, f[i - 1]) = f[i]
  <2>1. f[i - 1] = Got(SubSeq(vs, 1, i - 1), c[i - 1]) /\ f[i] = Got(SubSeq(vs, 1, i), c[i])
    OBVIOUS
  <2>2. SubSeq(vs, 1, i) = Append(SubSeq(vs, 1, i - 1), vs[i])
    BY OneMore
  <2>3. decode_object(s, c[i - 1]) = Got(vs[i], c[i])
    OBVIOUS
  <2> HIDE DEF f
  <2> QED
    BY <2>1, <2>2, <2>3 DEF ItemObject, Then, Got
<1>3. f = E(f)
  <2>1. \A i \in 0..n : f[i] = IF i = 0 THEN Got(<<>>, at + 1) ELSE ItemObject(s, f[i - 1])
    <3> TAKE i \in 0..n
    <3>1. i = 0 \/ i \in 1..n
      OBVIOUS
    <3> HIDE DEF f
    <3> QED
      BY <1>1, <1>2, <3>1
  <2>2. f = [i \in 0..n |-> f[i]]
    OBVIOUS
  <2> HIDE DEF f, w
  <2> QED
    BY <1>0, <2>1, <2>2, Zenon
<1>4. r = E(r)
  <2> HIDE DEF f, E
  <2> QED
    BY <1>3, Zenon
<1>5. ObjectList(s, at, bound) = IF n <= bound THEN r[n] ELSE Refused
  <2>1. ObjectList(s, at, bound) = Then(w, F)
    BY DEF ObjectList, list, ItemObject
  <2>2. Then(w, F) = F(w)
    <3> HIDE DEF w, F
    <3> QED
      BY <1>0 DEF Then
  <2>3. F(w) = IF w.v <= bound THEN r[w.v] ELSE Refused
    OBVIOUS
  <2> HIDE DEF w, F, r
  <2> QED
    BY <1>0, <2>1, <2>2, <2>3
<1> HIDE DEF f, r
<1>6. r[0] = Got(<<>>, at + 1) /\ \A i \in 1..n : r[i] = ItemObject(s, r[i - 1])
  <2>1. 0 \in 0..n /\ \A i \in 1..n : i \in 0..n /\ i # 0
    OBVIOUS
  <2> HIDE DEF w
  <2> QED
    BY <1>0, <1>4, <2>1
<1>7. r[n] = f[n]
  <2>1. r[0] = f[0] /\ \A i \in 1..n : r[i - 1] = f[i - 1] => r[i] = f[i]
    BY <1>1, <1>2, <1>6
  <2> HIDE DEF E
  <2> QED
    BY <2>1, Agree
<1> QED
  BY <1>1, <1>5, <1>7

\* The pieces of a flattened sequence lie one behind the other, between the places c.
Adjoin(c, s, a, es) ==
  /\ c[0] = a /\ c[Len(es)] = a + Len(FlattenSeq(es))
  /\ \A i \in 1..Len(es) : Carries(s, c[i - 1], es[i]) /\ c[i] = c[i - 1] + Len(es[i])

LEMMA FlattenPlaces ==
  ASSUME NEW es \in Seq(Nats), NEW s, NEW a, Carries(s, a, FlattenSeq(es))
  PROVE  \E c : Adjoin(c, s, a, es)
<1> USE DEF Adjoin
<1>1. PICK n \in Nat : n = Len(es)
  OBVIOUS
<1>2. CASE n = 0
  <2>1. FlattenSeq(es) = es /\ es = <<>> /\ Len(FlattenSeq(es)) = 0
    BY <1>1, <1>2, EmptySeq DEF FlattenSeq
  <2> DEFINE c == [i \in 0..0 |-> a]
  <2>2. c[0] = a /\ a + 0 = a
    BY DEF Carries
  <2> HIDE DEF c
  <2>3. c[Len(es)] = a + Len(FlattenSeq(es))
    BY <1>1, <1>2, <2>1, <2>2
  <2>4. 1..Len(es) = {}
    BY <1>1, <1>2
  <2> QED
    BY <2>2, <2>3, <2>4
<1>3. CASE n # 0
  <2>1. PICK f : /\ FlattenSeq(es) = f[n]
                 /\ f[1] = es[1]
                 /\ \A i \in 1..n : i # 1 => f[i] = f[i - 1] \o es[i]
                 /\ \A i \in 1..n : f[i] \in Nats
    BY <1>1, <1>3, FlattenForm, Zenon DEF Nats
  <2>2. \A i \in 1..n : es[i] \in Nats
    BY <1>1, ElementOfSeq
  <2> DEFINE S == {k \in Nat : k < n => Carries(s, a, f[n - k])}
  <2>3. 0 \in S
    <3>1. n - 0 = n
      OBVIOUS
    <3> QED
      BY <2>1, <3>1
  <2>4. ASSUME NEW k \in Nat, k \in S PROVE k + 1 \in S
    <3> SUFFICES ASSUME k + 1 < n PROVE Carries(s, a, f[n - (k + 1)])
      OBVIOUS
    <3>1. PICK i \in 1..n : i = n - k /\ i # 1 /\ i - 1 = n - (k + 1) /\ i - 1 \in 1..n
      OBVIOUS
    <3>2. Carries(s, a, f[i])
      BY <2>4, <3>1
    <3>3. f[i] = f[i - 1] \o es[i] /\ f[i - 1] \in Nats /\ es[i] \in Nats
      BY <2>1, <2>2, <3>1
    <3>4. Carries(s, a, f[i - 1])
      BY <3>2, <3>3, CarriesCat
    <3> QED
      BY <3>1, <3>4
  <2> HIDE DEF S
  <2>5. Nat \subseteq S
    BY <2>3, <2>4, NatInd, Zenon
  <2>6. ASSUME NEW i \in 1..n PROVE Carries(s, a, f[i])
    <3>1. n - i \in Nat /\ n - i < n /\ n - (n - i) = i
      OBVIOUS
    <3> QED
      BY <2>5, <3>1 DEF S
  <2> DEFINE c == [i \in 0..n |-> IF i = 0 THEN a ELSE a + Len(f[i])]
  <2>7. ASSUME NEW i \in 1..n PROVE Carries(s, c[i - 1], es[i]) /\ c[i] = c[i - 1] + Len(es[i])
    <3>1. c[i] = a + Len(f[i]) /\ c[i - 1] = IF i = 1 THEN a ELSE a + Len(f[i - 1])
      OBVIOUS
    <3> HIDE DEF c
    <3>2. CASE i = 1
      <4>1. Carries(s, a, es[1]) /\ f[1] = es[1]
        BY <2>1, <2>6, <3>2
      <4> QED
        BY <3>1, <3>2, <4>1
    <3>3. CASE i # 1
      <4>1. i - 1 \in 1..n
        BY <3>3
      <4>2. f[i] = f[i - 1] \o es[i] /\ f[i - 1] \in Nats /\ es[i] \in Nats /\ Carries(s, a, f[i])
        BY <2>1, <2>2, <2>6, <3>3, <4>1
      <4>3. /\ Carries(s, a + Len(f[i - 1]), es[i]) /\ Len(f[i]) = Len(f[i - 1]) + Len(es[i])
            /\ Len(f[i - 1]) \in Nat /\ Len(es[i]) \in Nat
        <5>1. PICK p \in Nats, q \in Nats : p = f[i - 1] /\ q = es[i] /\ f[i] = p \o q
          BY <4>2
        <5>2. Carries(s, a, p \o q)
          BY <4>2, <5>1
        <5>3. Carries(s, a + Len(p), q) /\ Len(p \o q) = Len(p) + Len(q) /\ Len(p) \in Nat /\ Len(q) \in Nat
          <6>1. Carries(s, a + Len(p), q)
            BY <5>2, CarriesCat
          <6>2. Len(p \o q) = Len(p) + Len(q) /\ Len(p) \in Nat /\ Len(q) \in Nat
            BY <5>2, CarriesCat
          <6> QED
            BY <6>1, <6>2
        <5> QED
          BY <5>1, <5>3
      <4>4. a \in Nat
        BY DEF Carries
      <4>5. PICK x \in Nat, y \in Nat : x = Len(f[i - 1]) /\ y = Len(es[i]) /\ Len(f[i]) = x + y
        BY <4>3
      <4>6. c[i - 1] = a + x /\ c[i] = a + (x + y)
        BY <3>1, <3>3, <4>5
      <4>7. c[i] = c[i - 1] + y
        BY <4>4, <4>6
      <4> QED
        BY <4>3, <4>5, <4>6, <4>7
    <3> QED
      BY <3>2, <3>3
  <2>8. c[0] = a /\ c[n] = a + Len(FlattenSeq(es))
    BY <1>3, <2>1
  <2> HIDE DEF c
  <2> QED
    BY <1>1, <2>7, <2>8
<1> QED
  BY <1>2, <1>3

\* N is a record of the layout's fields.
Covers(layout, L, N) == N = [x \in {layout[i] : i \in 1..L} |-> N[x]]

ObjectFieldsOf(layout, s, at) == fields(layout, s, at, ReadObjectField)

\* The fields of an object, of a command and of a message: when each is read as N has it
\* up to the k-th, the record is N, or refused if there is a k-th.
FieldObject(name, s, acc) ==
  Then(acc, LAMBDA y : Then(ReadObjectField(name, s, y.at), LAMBDA x :
    Got([n \in DOMAIN y.v \cup {name} |-> IF n = name THEN x.v ELSE y.v[n]], x.at)))

ObjectCut(layout, L, N, s, at, c, k) ==
  /\ L \in Nat /\ L = Len(layout) /\ Covers(layout, L, N) /\ c[0] = at /\ k \in 1..(L + 1)
  /\ k <= L => ReadObjectField(layout[k], s, c[k - 1]) = Refused
  /\ \A i \in 1..L : i < k => ReadObjectField(layout[i], s, c[i - 1]) = Got(N[layout[i]], c[i])

LEMMA FieldsObject ==
  ASSUME NEW layout, NEW L, NEW N, NEW s, NEW at, NEW c, NEW k,
         ObjectCut(layout, L, N, s, at, c, k)
  PROVE  ObjectFieldsOf(layout, s, at) = IF k <= L THEN Refused ELSE Got(N, c[L])
<1>0. /\ L \in Nat /\ L = Len(layout) /\ Covers(layout, L, N) /\ c[0] = at /\ k \in 1..(L + 1)
      /\ k <= L => ReadObjectField(layout[k], s, c[k - 1]) = Refused
      /\ \A i \in 1..L : i < k => ReadObjectField(layout[i], s, c[i - 1]) = Got(N[layout[i]], c[i])
  BY DEF ObjectCut
<1> USE <1>0
<1> DEFINE R(i) == [x \in {layout[j] : j \in 1..i} |-> N[x]]
           f == [i \in 0..L |-> IF i < k THEN Got(R(i), c[i]) ELSE Refused]
           E(g) == [i \in 0..Len(layout) |->
                      IF i = 0 THEN Got(<<>>, at) ELSE FieldObject(layout[i], s, g[i - 1])]
           r == CHOOSE g : g = E(g)
<1>1. f[0] = Got(<<>>, at)
  <2>1. R(0) = <<>>
    OBVIOUS
  <2>2. 0 \in 0..L /\ 0 < k
    OBVIOUS
  <2> HIDE DEF R
  <2> QED
    BY <2>1, <2>2
<1>2. f[L] = IF k <= L THEN Refused ELSE Got(N, c[L])
  <2>1. R(L) = N /\ L \in 0..L /\ (L < k <=> ~(k <= L))
    BY DEF Covers
  <2> HIDE DEF R
  <2> QED
    BY <2>1
<1>3. ASSUME NEW i \in 1..L PROVE FieldObject(layout[i], s, f[i - 1]) = f[i]
  <2>1. /\ f[i - 1] = IF i - 1 < k THEN Got(R(i - 1), c[i - 1]) ELSE Refused
        /\ f[i] = IF i < k THEN Got(R(i), c[i]) ELSE Refused
    <3> HIDE DEF R
    <3> QED
      OBVIOUS
  <2>2. CASE i < k
    <3>1. ReadObjectField(layout[i], s, c[i - 1]) = Got(N[layout[i]], c[i])
      BY <2>2
    <3>2. DOMAIN R(i - 1) = {layout[j] : j \in 1..(i - 1)} /\ \A x \in DOMAIN R(i - 1) : R(i - 1)[x] = N[x]
      OBVIOUS
    <3>3. DOMAIN R(i - 1) \cup {layout[i]} = {layout[j] : j \in 1..i}
      <4>1. \A j \in 1..i : j = i \/ j \in 1..(i - 1)
        OBVIOUS
      <4>2. i \in 1..i /\ \A j \in 1..(i - 1) : j \in 1..i
        OBVIOUS
      <4> QED
        BY <3>2, <4>1, <4>2
    <3>4. [n \in DOMAIN R(i - 1) \cup {layout[i]} |->
           IF n = layout[i] THEN N[layout[i]] ELSE R(i - 1)[n]] = R(i)
      BY <3>2, <3>3
    <3>5. f[i - 1] = Got(R(i - 1), c[i - 1]) /\ f[i] = Got(R(i), c[i])
      BY <2>1, <2>2
    <3> HIDE DEF f
    <3> DEFINE w == f[i - 1]
               H(x) == Got([n \in DOMAIN w.v \cup {layout[i]} |->
                              IF n = layout[i] THEN x.v ELSE w.v[n]], x.at)
               G(y) == Then(ReadObjectField(layout[i], s, y.at), LAMBDA x :
                         Got([n \in DOMAIN y.v \cup {layout[i]} |->
                                IF n = layout[i] THEN x.v ELSE y.v[n]], x.at))
               z == ReadObjectField(layout[i], s, w.at)
    <3>6. w.ok /\ w.v = R(i - 1) /\ w.at = c[i - 1]
      <4> HIDE DEF R
      <4> QED
        BY <3>5 DEF Got
    <3>7. z.ok /\ z.v = N[layout[i]] /\ z.at = c[i]
      BY <3>1, <3>6 DEF Got
    <3>8. FieldObject(layout[i], s, w) = Then(w, G)
      BY DEF FieldObject
    <3>9. Then(w, G) = G(w)
      <4> HIDE DEF w, G
      <4> QED
        BY <3>6 DEF Then
    <3>10. G(w) = Then(z, H)
      <4> HIDE DEF w
      <4> QED
        OBVIOUS
    <3>11. Then(z, H) = H(z)
      <4> HIDE DEF z, H
      <4> QED
        BY <3>7 DEF Then
    <3>12. H(z) = Got(R(i), c[i])
      <4> HIDE DEF w, z, R
      <4> QED
        BY <3>4, <3>6, <3>7
    <3> HIDE DEF w, z, G, H, R
    <3>13. FieldObject(layout[i], s, w) = f[i]
      BY <3>5, <3>8, <3>9, <3>10, <3>11, <3>12
    <3> QED
      BY <3>13 DEF w
  <2>3. CASE i = k
    <3>1. ReadObjectField(layout[i], s, c[i - 1]) = Refused /\ i - 1 < k /\ ~(i < k)
      BY <2>3
    <3>2. f[i - 1] = Got(R(i - 1), c[i - 1]) /\ f[i] = Refused
      BY <2>1, <3>1
    <3> HIDE DEF R, f
    <3> QED
      BY <3>1, <3>2 DEF FieldObject, Then, Got, Refused
  <2>4. CASE i > k
    <3>1. ~(i - 1 < k) /\ ~(i < k)
      BY <2>4
    <3>2. f[i - 1] = Refused /\ f[i] = Refused
      BY <2>1, <3>1
    <3> HIDE DEF R, f
    <3> QED
      BY <3>2 DEF FieldObject, Then, Refused
  <2>5. i < k \/ i = k \/ i > k
    OBVIOUS
  <2> QED
    BY <2>2, <2>3, <2>4, <2>5
<1>4. f = E(f)
  <2>1. \A i \in 0..L : f[i] = IF i = 0 THEN Got(<<>>, at) ELSE FieldObject(layout[i], s, f[i - 1])
    <3> TAKE i \in 0..L
    <3>1. i = 0 \/ i \in 1..L
      OBVIOUS
    <3> HIDE DEF f
    <3> QED
      BY <1>1, <1>3, <3>1
  <2>2. f = [i \in 0..L |-> f[i]]
    <3> HIDE DEF R
    <3> QED
      OBVIOUS
  <2> HIDE DEF f
  <2> QED
    BY <2>1, <2>2, Zenon
<1> HIDE DEF R
<1>5. r = E(r)
  <2> HIDE DEF f, E
  <2> QED
    BY <1>4, Zenon
<1>6. ObjectFieldsOf(layout, s, at) = r[Len(layout)]
  <2> HIDE DEF f
  <2> QED
    BY DEF ObjectFieldsOf, fields, FieldObject
<1> HIDE DEF f, r
<1>7. r[0] = Got(<<>>, at) /\ \A i \in 1..L : r[i] = FieldObject(layout[i], s, r[i - 1])
  <2>1. 0 \in 0..L /\ \A i \in 1..L : i \in 0..L /\ i # 0
    OBVIOUS
  <2> QED
    BY <1>5, <2>1
<1>8. r[L] = f[L]
  <2>1. r[0] = f[0] /\ \A i \in 1..L : r[i - 1] = f[i - 1] => r[i] = f[i]
    BY <1>1, <1>3, <1>7
  <2> HIDE DEF E
  <2> QED
    BY <2>1, Agree
<1> QED
  BY <1>2, <1>6, <1>8

MessageFieldsOf(layout, s, at) == fields(layout, s, at, ReadMessageField)

FieldMessage(name, s, acc) ==
  Then(acc, LAMBDA y : Then(ReadMessageField(name, s, y.at), LAMBDA x :
    Got([n \in DOMAIN y.v \cup {name} |-> IF n = name THEN x.v ELSE y.v[n]], x.at)))

MessageCut(layout, L, N, s, at, c, k) ==
  /\ L \in Nat /\ L = Len(layout) /\ Covers(layout, L, N) /\ c[0] = at /\ k \in 1..(L + 1)
  /\ k <= L => ReadMessageField(layout[k], s, c[k - 1]) = Refused
  /\ \A i \in 1..L : i < k => ReadMessageField(layout[i], s, c[i - 1]) = Got(N[layout[i]], c[i])

LEMMA FieldsMessage ==
  ASSUME NEW layout, NEW L, NEW N, NEW s, NEW at, NEW c, NEW k,
         MessageCut(layout, L, N, s, at, c, k)
  PROVE  MessageFieldsOf(layout, s, at) = IF k <= L THEN Refused ELSE Got(N, c[L])
<1>0. /\ L \in Nat /\ L = Len(layout) /\ Covers(layout, L, N) /\ c[0] = at /\ k \in 1..(L + 1)
      /\ k <= L => ReadMessageField(layout[k], s, c[k - 1]) = Refused
      /\ \A i \in 1..L : i < k => ReadMessageField(layout[i], s, c[i - 1]) = Got(N[layout[i]], c[i])
  BY DEF MessageCut
<1> USE <1>0
<1> DEFINE R(i) == [x \in {layout[j] : j \in 1..i} |-> N[x]]
           f == [i \in 0..L |-> IF i < k THEN Got(R(i), c[i]) ELSE Refused]
           E(g) == [i \in 0..Len(layout) |->
                      IF i = 0 THEN Got(<<>>, at) ELSE FieldMessage(layout[i], s, g[i - 1])]
           r == CHOOSE g : g = E(g)
<1>1. f[0] = Got(<<>>, at)
  <2>1. R(0) = <<>>
    OBVIOUS
  <2>2. 0 \in 0..L /\ 0 < k
    OBVIOUS
  <2> HIDE DEF R
  <2> QED
    BY <2>1, <2>2
<1>2. f[L] = IF k <= L THEN Refused ELSE Got(N, c[L])
  <2>1. R(L) = N /\ L \in 0..L /\ (L < k <=> ~(k <= L))
    BY DEF Covers
  <2> HIDE DEF R
  <2> QED
    BY <2>1
<1>3. ASSUME NEW i \in 1..L PROVE FieldMessage(layout[i], s, f[i - 1]) = f[i]
  <2>1. /\ f[i - 1] = IF i - 1 < k THEN Got(R(i - 1), c[i - 1]) ELSE Refused
        /\ f[i] = IF i < k THEN Got(R(i), c[i]) ELSE Refused
    <3> HIDE DEF R
    <3> QED
      OBVIOUS
  <2>2. CASE i < k
    <3>1. ReadMessageField(layout[i], s, c[i - 1]) = Got(N[layout[i]], c[i])
      BY <2>2
    <3>2. DOMAIN R(i - 1) = {layout[j] : j \in 1..(i - 1)} /\ \A x \in DOMAIN R(i - 1) : R(i - 1)[x] = N[x]
      OBVIOUS
    <3>3. DOMAIN R(i - 1) \cup {layout[i]} = {layout[j] : j \in 1..i}
      <4>1. \A j \in 1..i : j = i \/ j \in 1..(i - 1)
        OBVIOUS
      <4>2. i \in 1..i /\ \A j \in 1..(i - 1) : j \in 1..i
        OBVIOUS
      <4> QED
        BY <3>2, <4>1, <4>2
    <3>4. [n \in DOMAIN R(i - 1) \cup {layout[i]} |->
           IF n = layout[i] THEN N[layout[i]] ELSE R(i - 1)[n]] = R(i)
      BY <3>2, <3>3
    <3>5. f[i - 1] = Got(R(i - 1), c[i - 1]) /\ f[i] = Got(R(i), c[i])
      BY <2>1, <2>2
    <3> HIDE DEF f
    <3> DEFINE w == f[i - 1]
               H(x) == Got([n \in DOMAIN w.v \cup {layout[i]} |->
                              IF n = layout[i] THEN x.v ELSE w.v[n]], x.at)
               G(y) == Then(ReadMessageField(layout[i], s, y.at), LAMBDA x :
                         Got([n \in DOMAIN y.v \cup {layout[i]} |->
                                IF n = layout[i] THEN x.v ELSE y.v[n]], x.at))
               z == ReadMessageField(layout[i], s, w.at)
    <3>6. w.ok /\ w.v = R(i - 1) /\ w.at = c[i - 1]
      <4> HIDE DEF R
      <4> QED
        BY <3>5 DEF Got
    <3>7. z.ok /\ z.v = N[layout[i]] /\ z.at = c[i]
      BY <3>1, <3>6 DEF Got
    <3>8. FieldMessage(layout[i], s, w) = Then(w, G)
      BY DEF FieldMessage
    <3>9. Then(w, G) = G(w)
      <4> HIDE DEF w, G
      <4> QED
        BY <3>6 DEF Then
    <3>10. G(w) = Then(z, H)
      <4> HIDE DEF w
      <4> QED
        OBVIOUS
    <3>11. Then(z, H) = H(z)
      <4> HIDE DEF z, H
      <4> QED
        BY <3>7 DEF Then
    <3>12. H(z) = Got(R(i), c[i])
      <4> HIDE DEF w, z, R
      <4> QED
        BY <3>4, <3>6, <3>7
    <3> HIDE DEF w, z, G, H, R
    <3>13. FieldMessage(layout[i], s, w) = f[i]
      BY <3>5, <3>8, <3>9, <3>10, <3>11, <3>12
    <3> QED
      BY <3>13 DEF w
  <2>3. CASE i = k
    <3>1. ReadMessageField(layout[i], s, c[i - 1]) = Refused /\ i - 1 < k /\ ~(i < k)
      BY <2>3
    <3>2. f[i - 1] = Got(R(i - 1), c[i - 1]) /\ f[i] = Refused
      BY <2>1, <3>1
    <3> HIDE DEF R, f
    <3> QED
      BY <3>1, <3>2 DEF FieldMessage, Then, Got, Refused
  <2>4. CASE i > k
    <3>1. ~(i - 1 < k) /\ ~(i < k)
      BY <2>4
    <3>2. f[i - 1] = Refused /\ f[i] = Refused
      BY <2>1, <3>1
    <3> HIDE DEF R, f
    <3> QED
      BY <3>2 DEF FieldMessage, Then, Refused
  <2>5. i < k \/ i = k \/ i > k
    OBVIOUS
  <2> QED
    BY <2>2, <2>3, <2>4, <2>5
<1>4. f = E(f)
  <2>1. \A i \in 0..L : f[i] = IF i = 0 THEN Got(<<>>, at) ELSE FieldMessage(layout[i], s, f[i - 1])
    <3> TAKE i \in 0..L
    <3>1. i = 0 \/ i \in 1..L
      OBVIOUS
    <3> HIDE DEF f
    <3> QED
      BY <1>1, <1>3, <3>1
  <2>2. f = [i \in 0..L |-> f[i]]
    <3> HIDE DEF R
    <3> QED
      OBVIOUS
  <2> HIDE DEF f
  <2> QED
    BY <2>1, <2>2, Zenon
<1> HIDE DEF R
<1>5. r = E(r)
  <2> HIDE DEF f, E
  <2> QED
    BY <1>4, Zenon
<1>6. MessageFieldsOf(layout, s, at) = r[Len(layout)]
  <2> HIDE DEF f
  <2> QED
    BY DEF MessageFieldsOf, fields, FieldMessage
<1> HIDE DEF f, r
<1>7. r[0] = Got(<<>>, at) /\ \A i \in 1..L : r[i] = FieldMessage(layout[i], s, r[i - 1])
  <2>1. 0 \in 0..L /\ \A i \in 1..L : i \in 0..L /\ i # 0
    OBVIOUS
  <2> QED
    BY <1>5, <2>1
<1>8. r[L] = f[L]
  <2>1. r[0] = f[0] /\ \A i \in 1..L : r[i - 1] = f[i - 1] => r[i] = f[i]
    BY <1>1, <1>3, <1>7
  <2> HIDE DEF E
  <2> QED
    BY <2>1, Agree
<1> QED
  BY <1>2, <1>6, <1>8

CmdFieldsOf(layout, s, at) == fields(layout, s, at, LAMBDA name, t, p : word(t, p))

FieldCmd(name, s, acc) ==
  Then(acc, LAMBDA y : Then(word(s, y.at), LAMBDA x :
    Got([n \in DOMAIN y.v \cup {name} |-> IF n = name THEN x.v ELSE y.v[n]], x.at)))

CmdCut(layout, L, N, s, at, c, k) ==
  /\ L \in Nat /\ L = Len(layout) /\ Covers(layout, L, N) /\ c[0] = at /\ k \in 1..(L + 1)
  /\ k <= L => word(s, c[k - 1]) = Refused
  /\ \A i \in 1..L : i < k => word(s, c[i - 1]) = Got(N[layout[i]], c[i])

LEMMA FieldsCmd ==
  ASSUME NEW layout, NEW L, NEW N, NEW s, NEW at, NEW c, NEW k,
         CmdCut(layout, L, N, s, at, c, k)
  PROVE  CmdFieldsOf(layout, s, at) = IF k <= L THEN Refused ELSE Got(N, c[L])
<1>0. /\ L \in Nat /\ L = Len(layout) /\ Covers(layout, L, N) /\ c[0] = at /\ k \in 1..(L + 1)
      /\ k <= L => word(s, c[k - 1]) = Refused
      /\ \A i \in 1..L : i < k => word(s, c[i - 1]) = Got(N[layout[i]], c[i])
  BY DEF CmdCut
<1> USE <1>0
<1> DEFINE R(i) == [x \in {layout[j] : j \in 1..i} |-> N[x]]
           f == [i \in 0..L |-> IF i < k THEN Got(R(i), c[i]) ELSE Refused]
           E(g) == [i \in 0..Len(layout) |->
                      IF i = 0 THEN Got(<<>>, at) ELSE FieldCmd(layout[i], s, g[i - 1])]
           r == CHOOSE g : g = E(g)
<1>1. f[0] = Got(<<>>, at)
  <2>1. R(0) = <<>>
    OBVIOUS
  <2>2. 0 \in 0..L /\ 0 < k
    OBVIOUS
  <2> HIDE DEF R
  <2> QED
    BY <2>1, <2>2
<1>2. f[L] = IF k <= L THEN Refused ELSE Got(N, c[L])
  <2>1. R(L) = N /\ L \in 0..L /\ (L < k <=> ~(k <= L))
    BY DEF Covers
  <2> HIDE DEF R
  <2> QED
    BY <2>1
<1>3. ASSUME NEW i \in 1..L PROVE FieldCmd(layout[i], s, f[i - 1]) = f[i]
  <2>1. /\ f[i - 1] = IF i - 1 < k THEN Got(R(i - 1), c[i - 1]) ELSE Refused
        /\ f[i] = IF i < k THEN Got(R(i), c[i]) ELSE Refused
    <3> HIDE DEF R
    <3> QED
      OBVIOUS
  <2>2. CASE i < k
    <3>1. word(s, c[i - 1]) = Got(N[layout[i]], c[i])
      BY <2>2
    <3>2. DOMAIN R(i - 1) = {layout[j] : j \in 1..(i - 1)} /\ \A x \in DOMAIN R(i - 1) : R(i - 1)[x] = N[x]
      OBVIOUS
    <3>3. DOMAIN R(i - 1) \cup {layout[i]} = {layout[j] : j \in 1..i}
      <4>1. \A j \in 1..i : j = i \/ j \in 1..(i - 1)
        OBVIOUS
      <4>2. i \in 1..i /\ \A j \in 1..(i - 1) : j \in 1..i
        OBVIOUS
      <4> QED
        BY <3>2, <4>1, <4>2
    <3>4. [n \in DOMAIN R(i - 1) \cup {layout[i]} |->
           IF n = layout[i] THEN N[layout[i]] ELSE R(i - 1)[n]] = R(i)
      BY <3>2, <3>3
    <3>5. f[i - 1] = Got(R(i - 1), c[i - 1]) /\ f[i] = Got(R(i), c[i])
      BY <2>1, <2>2
    <3> HIDE DEF f
    <3> DEFINE w == f[i - 1]
               H(x) == Got([n \in DOMAIN w.v \cup {layout[i]} |->
                              IF n = layout[i] THEN x.v ELSE w.v[n]], x.at)
               G(y) == Then(word(s, y.at), LAMBDA x :
                         Got([n \in DOMAIN y.v \cup {layout[i]} |->
                                IF n = layout[i] THEN x.v ELSE y.v[n]], x.at))
               z == word(s, w.at)
    <3>6. w.ok /\ w.v = R(i - 1) /\ w.at = c[i - 1]
      <4> HIDE DEF R
      <4> QED
        BY <3>5 DEF Got
    <3>7. z.ok /\ z.v = N[layout[i]] /\ z.at = c[i]
      BY <3>1, <3>6 DEF Got
    <3>8. FieldCmd(layout[i], s, w) = Then(w, G)
      BY DEF FieldCmd
    <3>9. Then(w, G) = G(w)
      <4> HIDE DEF w, G
      <4> QED
        BY <3>6 DEF Then
    <3>10. G(w) = Then(z, H)
      <4> HIDE DEF w
      <4> QED
        OBVIOUS
    <3>11. Then(z, H) = H(z)
      <4> HIDE DEF z, H
      <4> QED
        BY <3>7 DEF Then
    <3>12. H(z) = Got(R(i), c[i])
      <4> HIDE DEF w, z, R
      <4> QED
        BY <3>4, <3>6, <3>7
    <3> HIDE DEF w, z, G, H, R
    <3>13. FieldCmd(layout[i], s, w) = f[i]
      BY <3>5, <3>8, <3>9, <3>10, <3>11, <3>12
    <3> QED
      BY <3>13 DEF w
  <2>3. CASE i = k
    <3>1. word(s, c[i - 1]) = Refused /\ i - 1 < k /\ ~(i < k)
      BY <2>3
    <3>2. f[i - 1] = Got(R(i - 1), c[i - 1]) /\ f[i] = Refused
      BY <2>1, <3>1
    <3> HIDE DEF R, f
    <3> QED
      BY <3>1, <3>2 DEF FieldCmd, Then, Got, Refused
  <2>4. CASE i > k
    <3>1. ~(i - 1 < k) /\ ~(i < k)
      BY <2>4
    <3>2. f[i - 1] = Refused /\ f[i] = Refused
      BY <2>1, <3>1
    <3> HIDE DEF R, f
    <3> QED
      BY <3>2 DEF FieldCmd, Then, Refused
  <2>5. i < k \/ i = k \/ i > k
    OBVIOUS
  <2> QED
    BY <2>2, <2>3, <2>4, <2>5
<1>4. f = E(f)
  <2>1. \A i \in 0..L : f[i] = IF i = 0 THEN Got(<<>>, at) ELSE FieldCmd(layout[i], s, f[i - 1])
    <3> TAKE i \in 0..L
    <3>1. i = 0 \/ i \in 1..L
      OBVIOUS
    <3> HIDE DEF f
    <3> QED
      BY <1>1, <1>3, <3>1
  <2>2. f = [i \in 0..L |-> f[i]]
    <3> HIDE DEF R
    <3> QED
      OBVIOUS
  <2> HIDE DEF f
  <2> QED
    BY <2>1, <2>2, Zenon
<1> HIDE DEF R
<1>5. r = E(r)
  <2> HIDE DEF f, E
  <2> QED
    BY <1>4, Zenon
<1>6. CmdFieldsOf(layout, s, at) = r[Len(layout)]
  <2> HIDE DEF f
  <2> QED
    BY DEF CmdFieldsOf, fields, FieldCmd
<1> HIDE DEF f, r
<1>7. r[0] = Got(<<>>, at) /\ \A i \in 1..L : r[i] = FieldCmd(layout[i], s, r[i - 1])
  <2>1. 0 \in 0..L /\ \A i \in 1..L : i \in 0..L /\ i # 0
    OBVIOUS
  <2> QED
    BY <1>5, <2>1
<1>8. r[L] = f[L]
  <2>1. r[0] = f[0] /\ \A i \in 1..L : r[i - 1] = f[i - 1] => r[i] = f[i]
    BY <1>1, <1>3, <1>7
  <2> HIDE DEF E
  <2> QED
    BY <2>1, Agree
<1> QED
  BY <1>2, <1>6, <1>8

\* The dependency generations: every kind is written once, so what is read is the map.
LEMMA DepsReads ==
  ASSUME NEW s, NEW a, NEW d, DOMAIN d \subseteq 0..(NumKinds - 1), d \in [DOMAIN d -> Nat],
         Carries(s, a, List(SortedDeps(d), LAMBDA x : x))
  PROVE  deps(s, a) = Got(d, a + Len(List(SortedDeps(d), LAMBDA x : x)))
<1>1. /\ Enum(DOMAIN d, Kinds(d)) /\ Cardinality(DOMAIN d) \in Nat
      /\ SortedDeps(d) = [i \in 1..Cardinality(DOMAIN d) |-> <<Kinds(d)[i], d[Kinds(d)[i]]>>]
  BY SortedDepsForm, Zenon
<1>2. PICK n \in Nat, ks \in {Kinds(d)}, e \in {SortedDeps(d)} :
        n = Cardinality(DOMAIN d) /\ ks = Kinds(d) /\ e = SortedDeps(d)
  BY <1>1
<1>3. /\ e = [i \in 1..n |-> <<ks[i], d[ks[i]]>>] /\ ks \in [1..n -> DOMAIN d]
      /\ \A i, j \in 1..n : i # j => ks[i] # ks[j]
  BY <1>1, <1>2, Zenon DEF Enum
<1>a. e \in Seq(Nats)
  BY <1>2, DepsType, Zenon
<1>b. DOMAIN e = 1..n /\ [i \in DOMAIN e |-> e[i]] = e
  BY <1>3
<1>c. Len(e) = n
  BY <1>a, <1>b
<1>4. e \in Seq(Nats) /\ DOMAIN e = 1..n /\ Len(e) = n /\ [i \in DOMAIN e |-> e[i]] = e
  BY <1>a, <1>b, <1>c
<1>5. List(SortedDeps(d), LAMBDA x : x) = <<n>> \o FlattenSeq(e)
  BY <1>2, <1>4 DEF List
<1>6. n <= MaxDeps
  <2>1. DOMAIN d \in SUBSET (0..11) /\ 0 \in Int
    BY DEF NumKinds
  <2>2. PICK t \in Int : t = 11 /\ DOMAIN d \in SUBSET (0..t)
    BY <2>1
  <2>3. IsFiniteSet(0..t) /\ Cardinality(0..t) = IF 0 > t THEN 0 ELSE t - 0 + 1
    BY <2>1, FS_Interval, Zenon
  <2>4. Cardinality(DOMAIN d) <= Cardinality(0..t)
    BY <2>2, <2>3, FS_Subset, Zenon
  <2>5. n <= 12 /\ MaxDeps \in Nat /\ MaxDeps >= 12
    BY <1>2, <2>2, <2>3, <2>4, LimitsAssumption DEF NumKinds
  <2> QED
    BY <2>5
<1>7. FlattenSeq(e) \in Nats
  BY <1>4, FlattenType, Zenon DEF Nats
<1>8. /\ Carries(s, a, <<n>>) /\ Carries(s, a + 1, FlattenSeq(e))
      /\ Len(<<n>> \o FlattenSeq(e)) = 1 + Len(FlattenSeq(e)) /\ Len(FlattenSeq(e)) \in Nat
  <2>1. Carries(s, a, <<n>> \o FlattenSeq(e))
    BY <1>5
  <2> QED
    BY <1>7, <2>1, CarriesWord
<1>d. PICK c : Adjoin(c, s, a + 1, e)
  <2>1. PICK b : b = a + 1 /\ Carries(s, b, FlattenSeq(e))
    BY <1>8
  <2>2. \E c : Adjoin(c, s, b, e)
    BY <1>a, <2>1, FlattenPlaces, Zenon
  <2> QED
    BY <2>1, <2>2
<1>9. /\ c[0] = a + 1 /\ c[n] = (a + 1) + Len(FlattenSeq(e))
      /\ \A i \in 1..n : Carries(s, c[i - 1], e[i]) /\ c[i] = c[i - 1] + Len(e[i])
  BY <1>c, <1>d DEF Adjoin
<1>10. word(s, a) = Got(n, a + 1)
  BY <1>8, WordReads
<1>11. ASSUME NEW i \in 1..n PROVE words(s, c[i - 1], 2) = Got(e[i], c[i])
  <2>1. e[i] = <<ks[i], d[ks[i]]>>
    BY <1>3
  <2>2. Len(e[i]) = 2
    BY <2>1
  <2>3. Carries(s, c[i - 1], e[i]) /\ c[i] = c[i - 1] + 2
    BY <1>4, <1>9, <2>2
  <2>4. words(s, c[i - 1], Len(e[i])) = Got(e[i], c[i - 1] + Len(e[i]))
    BY <2>3, WordsReads, Zenon
  <2> QED
    BY <2>2, <2>3, <2>4
<1>12. PairList(s, a, MaxDeps) = Got(e, c[n])
  <2>1. PairList(s, a, MaxDeps) = IF n <= MaxDeps THEN Got(e, c[n]) ELSE Refused
    <3>1. \A i \in 1..n : words(s, c[i - 1], 2) = Got(e[i], c[i])
      BY <1>11
    <3>2. c[0] = a + 1
      BY <1>9
    <3> QED
      BY <1>a, <1>c, <1>10, <3>1, <3>2, ListPair
  <2> QED
    BY <1>6, <2>1
<1>13. c[n] = a + Len(List(SortedDeps(d), LAMBDA x : x))
  <2>1. PICK l \in Nat : l = Len(FlattenSeq(e)) /\ a \in Nat
    BY <1>8 DEF Carries
  <2>2. c[n] = (a + 1) + l /\ (a + 1) + l = a + (1 + l)
    BY <1>4, <1>9, <2>1
  <2> QED
    BY <1>5, <1>8, <2>1, <2>2
<1>14. {ks[i] : i \in 1..n} = DOMAIN d
  <2>1. IsFiniteSet(DOMAIN d) /\ IsFiniteSet(1..n) /\ Cardinality(1..n) = n
    <3>1. DOMAIN d \in SUBSET Nat /\ \A x \in DOMAIN d : x < 12
      BY DEF NumKinds
    <3>2. IsFiniteSet(DOMAIN d)
      <4>1. 12 \in Nat
        OBVIOUS
      <4> QED
        BY <3>1, <4>1, Enumerable, Zenon
    <3>3. IsFiniteSet(1..n) /\ Cardinality(1..n) = IF 1 > n THEN 0 ELSE n - 1 + 1
      <4>1. 1 \in Int /\ n \in Int
        OBVIOUS
      <4> QED
        BY <4>1, FS_Interval, Zenon
    <3> QED
      BY <3>2, <3>3
  <2>2. ks \in Injection(1..n, DOMAIN d)
    BY <1>3 DEF Injection, IsInjective
  <2>3. ks \in Surjection(1..n, DOMAIN d)
    BY <1>2, <2>1, <2>2, FS_Injection
  <2>4. \A x \in DOMAIN d : \E i \in 1..n : ks[i] = x
    BY <2>3 DEF Surjection
  <2>5. \A i \in 1..n : ks[i] \in DOMAIN d
    BY <1>3
  <2> QED
    BY <2>4, <2>5
<1>15. \A i \in 1..n : e[i][1] = ks[i] /\ e[i][2] = d[ks[i]]
  BY <1>3
<1> DEFINE w == Got(e, c[n])
           F(r) == LET kind(i) == r.v[i][1]
                   IN  IF /\ \A i \in DOMAIN r.v : kind(i) < NumKinds
                          /\ \A i, j \in DOMAIN r.v : kind(i) = kind(j) => i = j
                       THEN Got([k \in {kind(i) : i \in DOMAIN r.v} |->
                                   r.v[CHOOSE i \in DOMAIN r.v : kind(i) = k][2]], r.at)
                       ELSE Refused
<1>16. w.ok /\ w.v = e /\ w.at = c[n]
  BY DEF Got
<1>17. deps(s, a) = Then(PairList(s, a, MaxDeps), F)
  BY DEF deps, PairList
<1>18. Then(w, F) = F(w)
  <2> HIDE DEF w, F
  <2> QED
    BY <1>16 DEF Then
<1>19. F(w) = Got(d, c[n])
  <2>1. DOMAIN w.v = 1..n /\ \A i \in 1..n : w.v[i][1] = ks[i] /\ w.v[i][2] = d[ks[i]]
    BY <1>4, <1>15, <1>16
  <2>2. \A i \in 1..n : ks[i] \in DOMAIN d /\ ks[i] < NumKinds
    <3> TAKE i \in 1..n
    <3>1. ks[i] \in DOMAIN d
      BY <1>3
    <3>2. ks[i] \in 0..11
      BY <3>1 DEF NumKinds
    <3> QED
      BY <3>1, <3>2 DEF NumKinds
  <2> HIDE DEF w
  <2>a. \A i \in DOMAIN w.v : w.v[i][1] < NumKinds
    BY <2>1, <2>2, Zenon
  <2>b. \A i, j \in DOMAIN w.v : w.v[i][1] = w.v[j][1] => i = j
    <3> SUFFICES ASSUME NEW i \in 1..n, NEW j \in 1..n, w.v[i][1] = w.v[j][1] PROVE i = j
      BY <2>1, Zenon
    <3>1. ks[i] = ks[j]
      BY <2>1, Zenon
    <3> QED
      BY <1>3, <3>1, Zenon
  <2>c. {w.v[i][1] : i \in DOMAIN w.v} = DOMAIN d
    <3>1. {w.v[i][1] : i \in 1..n} = {ks[i] : i \in 1..n}
      BY <2>1
    <3> QED
      BY <1>14, <2>1, <3>1, Zenon
  <2>3. /\ \A i \in DOMAIN w.v : w.v[i][1] < NumKinds
        /\ \A i, j \in DOMAIN w.v : w.v[i][1] = w.v[j][1] => i = j
        /\ {w.v[i][1] : i \in DOMAIN w.v} = DOMAIN d
    BY <2>a, <2>b, <2>c, Zenon
  <2> DEFINE v(k) == w.v[CHOOSE i \in DOMAIN w.v : w.v[i][1] = k][2]
  <2>4. ASSUME NEW k \in DOMAIN d PROVE v(k) = d[k]
    <3>1. \E i \in DOMAIN w.v : w.v[i][1] = k
      BY <2>3
    <3>2. PICK i \in DOMAIN w.v : i = (CHOOSE j \in DOMAIN w.v : w.v[j][1] = k) /\ w.v[i][1] = k
      BY <3>1
    <3>3. w.v[i][2] = d[k]
      <4>1. i \in 1..n
        BY <2>1, Zenon
      <4>2. w.v[i][1] = ks[i] /\ w.v[i][2] = d[ks[i]] /\ w.v[i][1] = k
        BY <2>1, <3>2, <4>1, Zenon
      <4>3. ks[i] = k
        BY <4>2, Zenon
      <4> QED
        BY <4>2, <4>3, Zenon
    <3> QED
      BY <3>2, <3>3
  <2> HIDE DEF v
  <2>5. [k \in {w.v[i][1] : i \in DOMAIN w.v} |-> v(k)] = d
    BY <2>3, <2>4
  <2>6. F(w) = Got([k \in {w.v[i][1] : i \in DOMAIN w.v} |-> v(k)], w.at)
    BY <2>3, Zenon DEF v
  <2> HIDE DEF F
  <2> QED
    BY <1>16, <2>5, <2>6 DEF w
<1> HIDE DEF F
<1> QED
  BY <1>12, <1>13, <1>17, <1>18, <1>19

\* The words e lie in s from place a up to place b.
Spans(s, a, b, e) == Carries(s, a, e) /\ b = a + Len(e)

\* What lies between two places, part by part.
LEMMA SpansCat ==
  ASSUME NEW s, NEW a, NEW b, NEW p \in Nats, NEW q \in Nats, Spans(s, a, b, p \o q)
  PROVE  \E m : Spans(s, a, m, p) /\ Spans(s, m, b, q)
<1>1. Carries(s, a, p \o q) /\ b = a + Len(p \o q) /\ a \in Nat
  BY DEF Spans, Carries
<1>2. Carries(s, a, p) /\ Carries(s, a + Len(p), q)
  BY <1>1, CarriesCat
<1>3. Len(p \o q) = Len(p) + Len(q) /\ Len(p) \in Nat /\ Len(q) \in Nat
  BY <1>1, CarriesCat
<1>4. b = (a + Len(p)) + Len(q)
  BY <1>1, <1>3
<1> QED
  BY <1>2, <1>4 DEF Spans

\* One word of a tuple.
LEMMA WordOf ==
  ASSUME NEW s, NEW a, NEW b, NEW e, Spans(s, a, b, e), NEW i \in 1..Len(e)
  PROVE  Carries(s, (a + i) - 1, <<e[i]>>) /\ word(s, (a + i) - 1) = Got(e[i], a + i)
<1>1. PICK l \in Nat, n \in Nat : l = Len(s) /\ n = Len(e) /\ i \in 1..n
  BY DEF Spans, Carries
<1>2. /\ s \in Nats /\ e \in Nats /\ a \in Nat /\ a >= 1 /\ a + n <= l + 1
      /\ \A j \in 1..n : s[a + j - 1] = e[j]
  BY <1>1 DEF Spans, Carries
<1>3. PICK x \in Nat : x = e[i] /\ s[(a + i) - 1] = x
  BY <1>1, <1>2 DEF Nats
<1>4. PICK c \in Nat : c = (a + i) - 1 /\ c >= 1 /\ c + 1 <= l + 1 /\ c + 1 = a + i
  <2>1. (a + i) - 1 \in Nat /\ (a + i) - 1 >= 1 /\ ((a + i) - 1) + 1 <= l + 1 /\ ((a + i) - 1) + 1 = a + i
    BY <1>1, <1>2
  <2> QED
    BY <2>1
<1>5. <<x>> \in Nats /\ Len(<<x>>) = 1 /\ <<x>>[1] = x
  BY DEF Nats
<1>6. \A j \in 1..1 : s[c + j - 1] = <<x>>[j]
  <2> TAKE j \in 1..1
  <2>1. j = 1 /\ c + j - 1 = c
    OBVIOUS
  <2> QED
    BY <1>3, <1>4, <1>5, <2>1
<1>7. Carries(s, c, <<x>>)
  BY <1>1, <1>2, <1>4, <1>5, <1>6 DEF Carries
<1>8. word(s, c) = Got(x, c + 1)
  BY <1>7, WordReads
<1> QED
  BY <1>3, <1>4, <1>7, <1>8

\* What an object's fields are.
LEMMA ObjectFields ==
  ASSUME NEW o, IsObject(o)
  PROVE  /\ o.id \in Nat /\ o.category \in 0..11 /\ o.owner \in Nats /\ o.model \in Optional(Nat)
         /\ o.state \in 0..9 /\ o.reason \in Nats /\ o.dims \in [1..2 -> 0..5]
         /\ o.last_used \in Nat /\ o.residency \in 0..4 /\ o.warmth_gen \in Nat
         /\ o.invalidation \in Optional(Strings) /\ o.provenance \in 0..4
         /\ DOMAIN o.deps \subseteq 0..(NumKinds - 1) /\ o.deps \in [DOMAIN o.deps -> Nat]
         /\ DOMAIN o = {"id", "category", "owner", "model", "state", "reason", "dims", "last_used",
                        "residency", "warmth_gen", "deps", "invalidation", "provenance"}
         /\ o = [x \in DOMAIN o |-> o[x]]
<1>1. /\ DOMAIN o.deps \subseteq 0..(NumKinds - 1)
      /\ o \in [id : Nat, category : 0..11, owner : Strings, model : Optional(Nat),
                state : 0..9, reason : Strings, dims : [1..NumDims -> 0..5],
                last_used : Nat, residency : 0..4, warmth_gen : Nat,
                deps : [DOMAIN o.deps -> Nat], invalidation : Optional(Strings),
                provenance : 0..4]
  BY Zenon DEF IsObject
<1>2. o.id \in Nat /\ o.last_used \in Nat /\ o.warmth_gen \in Nat
  BY <1>1
<1>3. o.category \in 0..11 /\ o.state \in 0..9 /\ o.residency \in 0..4 /\ o.provenance \in 0..4
  BY <1>1
<1>4. o.owner \in Nats /\ o.reason \in Nats
  BY <1>1 DEF Strings, Nats
<1>5. o.model \in Optional(Nat)
  BY <1>1
<1>6. o.invalidation \in Optional(Strings)
  BY <1>1
<1>7. o.dims \in [1..2 -> 0..5]
  BY <1>1 DEF NumDims
<1>8. o.deps \in [DOMAIN o.deps -> Nat]
  BY <1>1
<1>9. DOMAIN o = {"id", "category", "owner", "model", "state", "reason", "dims", "last_used",
                  "residency", "warmth_gen", "deps", "invalidation", "provenance"}
  BY <1>1
<1>10. o = [x \in DOMAIN o |-> o[x]]
  BY <1>1
<1> QED
  BY <1>1, <1>2, <1>3, <1>4, <1>5, <1>6, <1>7, <1>8, <1>9, <1>10

\* The readers of an object's fields, by name.
LEMMA ObjectReaders ==
  ASSUME NEW s, NEW p
  PROVE  /\ ReadObjectField("id", s, p) = word(s, p)
         /\ ReadObjectField("category", s, p) = enum(s, p, 12)
         /\ ReadObjectField("owner", s, p) = str(s, p)
         /\ ReadObjectField("model", s, p) = opt(s, p, word)
         /\ ReadObjectField("state", s, p) = enum(s, p, 10)
         /\ ReadObjectField("reason", s, p) = str(s, p)
         /\ ReadObjectField("last_used", s, p) = word(s, p)
         /\ ReadObjectField("residency", s, p) = enum(s, p, 5)
         /\ ReadObjectField("warmth_gen", s, p) = word(s, p)
         /\ ReadObjectField("deps", s, p) = deps(s, p)
         /\ ReadObjectField("invalidation", s, p) = opt(s, p, str)
         /\ ReadObjectField("provenance", s, p) = enum(s, p, 5)
         /\ ReadObjectField("dims", s, p) =
              Then(words(s, p, 2), LAMBDA d : IF \A i \in DOMAIN d.v : d.v[i] < 6 THEN d ELSE Refused)
<1>1. DOMAIN EnumSize = {"category", "state", "residency", "provenance"}
      /\ EnumSize["category"] = 12 /\ EnumSize["state"] = 10
      /\ EnumSize["residency"] = 5 /\ EnumSize["provenance"] = 5
  BY DEF EnumSize
<1>2. ReadObjectField("id", s, p) = word(s, p)
  BY <1>1 DEF ReadObjectField
<1>3. ReadObjectField("category", s, p) = enum(s, p, 12)
  BY <1>1 DEF ReadObjectField
<1>4. ReadObjectField("owner", s, p) = str(s, p)
  BY <1>1 DEF ReadObjectField
<1>5. ReadObjectField("model", s, p) = opt(s, p, word)
  BY <1>1 DEF ReadObjectField
<1>6. ReadObjectField("state", s, p) = enum(s, p, 10)
  BY <1>1 DEF ReadObjectField
<1>7. ReadObjectField("reason", s, p) = str(s, p)
  BY <1>1 DEF ReadObjectField
<1>8. ReadObjectField("last_used", s, p) = word(s, p)
  BY <1>1 DEF ReadObjectField
<1>9. ReadObjectField("residency", s, p) = enum(s, p, 5)
  BY <1>1 DEF ReadObjectField
<1>10. ReadObjectField("warmth_gen", s, p) = word(s, p)
  BY <1>1 DEF ReadObjectField
<1>11. ReadObjectField("deps", s, p) = deps(s, p)
  BY <1>1 DEF ReadObjectField
<1>12. ReadObjectField("invalidation", s, p) = opt(s, p, str)
  BY <1>1 DEF ReadObjectField
<1>13. ReadObjectField("provenance", s, p) = enum(s, p, 5)
  BY <1>1 DEF ReadObjectField
<1>14. ReadObjectField("dims", s, p) =
         Then(words(s, p, 2), LAMBDA d : IF \A i \in DOMAIN d.v : d.v[i] < 6 THEN d ELSE Refused)
  BY <1>1 DEF ReadObjectField, NumDims
<1> QED
  BY <1>2, <1>3, <1>4, <1>5, <1>6, <1>7, <1>8, <1>9, <1>10, <1>11, <1>12, <1>13, <1>14

\* A tuple of words, one by one.
LEMMA WordSpan ==
  ASSUME NEW s, NEW a, NEW b, NEW e, Spans(s, a, b, e), NEW i \in 1..Len(e)
  PROVE  Spans(s, (a + i) - 1, a + i, <<e[i]>>)
<1>1. Carries(s, (a + i) - 1, <<e[i]>>)
  BY WordOf
<1>2. a \in Nat /\ i \in Nat /\ Len(<<e[i]>>) = 1
  BY DEF Spans, Carries
<1> QED
  BY <1>1, <1>2 DEF Spans

LEMMA Two ==
  ASSUME NEW s, NEW a, NEW b, NEW x, NEW y, Spans(s, a, b, <<x, y>>)
  PROVE  \E m : Spans(s, a, m, <<x>>) /\ Spans(s, m, b, <<y>>)
<1>1. PICK e : e = <<x, y>> /\ Len(e) = 2 /\ e[1] = x /\ e[2] = y
  OBVIOUS
<1>2. Spans(s, a, b, e) /\ 1 \in 1..Len(e) /\ 2 \in 1..Len(e) /\ a \in Nat /\ b = a + 2
  BY <1>1 DEF Spans, Carries
<1>3. Spans(s, (a + 1) - 1, a + 1, <<x>>) /\ Spans(s, (a + 2) - 1, a + 2, <<y>>)
  BY <1>1, <1>2, WordSpan
<1>4. (a + 1) - 1 = a /\ (a + 2) - 1 = a + 1
  BY <1>2
<1> QED
  BY <1>2, <1>3, <1>4

LEMMA Three ==
  ASSUME NEW s, NEW a, NEW b, NEW x, NEW y, NEW z, Spans(s, a, b, <<x, y, z>>)
  PROVE  \E m, n : Spans(s, a, m, <<x>>) /\ Spans(s, m, n, <<y>>) /\ Spans(s, n, b, <<z>>)
<1>1. PICK e : e = <<x, y, z>> /\ Len(e) = 3 /\ e[1] = x /\ e[2] = y /\ e[3] = z
  OBVIOUS
<1>2. Spans(s, a, b, e) /\ {1, 2, 3} \subseteq 1..Len(e) /\ a \in Nat /\ b = a + 3
  BY <1>1 DEF Spans, Carries
<1>3. /\ Spans(s, (a + 1) - 1, a + 1, <<x>>) /\ Spans(s, (a + 2) - 1, a + 2, <<y>>)
      /\ Spans(s, (a + 3) - 1, a + 3, <<z>>)
  BY <1>1, <1>2, WordSpan
<1>4. (a + 1) - 1 = a /\ (a + 2) - 1 = a + 1 /\ (a + 3) - 1 = a + 2
  BY <1>2
<1> QED
  BY <1>2, <1>3, <1>4

\* decode_object, field by field.
ObjectAll(L, N, s, at, c) ==
  /\ L \in Nat /\ L = Len(ObjectLayout) /\ Covers(ObjectLayout, L, N) /\ c[0] = at
  /\ \A i \in 1..L : ReadObjectField(ObjectLayout[i], s, c[i - 1]) = Got(N[ObjectLayout[i]], c[i])

LEMMA DecodeObject ==
  ASSUME NEW L, NEW N, NEW s, NEW at, NEW c, ObjectAll(L, N, s, at, c)
  PROVE  decode_object(s, at) = Got(N, c[L])
<1> USE DEF ObjectAll
<1>1. PICK k \in 1..(L + 1) : k = L + 1 /\ ~(k <= L)
  OBVIOUS
<1>2. ObjectCut(ObjectLayout, L, N, s, at, c, k)
  BY <1>1 DEF ObjectCut
<1>4. ObjectFieldsOf(ObjectLayout, s, at) = IF k <= L THEN Refused ELSE Got(N, c[L])
  BY <1>2, FieldsObject
<1> QED
  BY <1>1, <1>4 DEF decode_object, ObjectFieldsOf

\* What each reader gets of the words it should find, and so for an object's fields.
LEMMA SpanWord ==
  ASSUME NEW s, NEW a, NEW b, NEW v, Spans(s, a, b, <<v>>)
  PROVE  word(s, a) = Got(v, b)
<1>1. Carries(s, a, <<v>>) /\ b = a + 1
  BY DEF Spans
<1> QED
  BY <1>1, WordReads

LEMMA SpanEnum ==
  ASSUME NEW s, NEW a, NEW b, NEW v, NEW n, Spans(s, a, b, <<v>>), v < n
  PROVE  enum(s, a, n) = Got(v, b)
<1>1. Carries(s, a, <<v>>) /\ b = a + 1
  BY DEF Spans
<1> QED
  BY <1>1, EnumReads

\* The readers of an object's fields.
LEMMA FieldWord ==
  ASSUME NEW s, NEW a, NEW b, NEW v, Spans(s, a, b, <<v>>)
  PROVE  /\ ReadObjectField("id", s, a) = Got(v, b)
         /\ ReadObjectField("last_used", s, a) = Got(v, b)
         /\ ReadObjectField("warmth_gen", s, a) = Got(v, b)
<1>1. word(s, a) = Got(v, b)
  BY SpanWord
<1> QED
  BY <1>1, ObjectReaders

LEMMA FieldCategory ==
  ASSUME NEW s, NEW a, NEW b, NEW v, Spans(s, a, b, <<v>>), v < 12
  PROVE  ReadObjectField("category", s, a) = Got(v, b)
<1>1. enum(s, a, 12) = Got(v, b)
  BY SpanEnum
<1> QED
  BY <1>1, ObjectReaders

LEMMA FieldState ==
  ASSUME NEW s, NEW a, NEW b, NEW v, Spans(s, a, b, <<v>>), v < 10
  PROVE  ReadObjectField("state", s, a) = Got(v, b)
<1>1. enum(s, a, 10) = Got(v, b)
  BY SpanEnum
<1> QED
  BY <1>1, ObjectReaders

LEMMA FieldFive ==
  ASSUME NEW s, NEW a, NEW b, NEW v, Spans(s, a, b, <<v>>), v < 5
  PROVE  /\ ReadObjectField("residency", s, a) = Got(v, b)
         /\ ReadObjectField("provenance", s, a) = Got(v, b)
<1>1. enum(s, a, 5) = Got(v, b)
  BY SpanEnum
<1> QED
  BY <1>1, ObjectReaders

LEMMA FieldStr ==
  ASSUME NEW s, NEW a, NEW b, NEW x \in Nats, Spans(s, a, b, Str(x))
  PROVE  /\ ReadObjectField("owner", s, a) = Got(x, b)
         /\ ReadObjectField("reason", s, a) = Got(x, b)
<1>1. str(s, a) = Got(x, b)
  BY StrReads DEF Spans
<1> QED
  BY <1>1, ObjectReaders

LEMMA FieldModel ==
  ASSUME NEW s, NEW a, NEW b, NEW x \in Optional(Nat), Spans(s, a, b, Opt(PresentId(x), Word))
  PROVE  ReadObjectField("model", s, a) = Got(PresentId(x), b)
<1>1. opt(s, a, word) = Got(PresentId(x), b)
  BY OptIdReads DEF Spans
<1> QED
  BY <1>1, ObjectReaders

LEMMA FieldInvalidation ==
  ASSUME NEW s, NEW a, NEW b, NEW x \in Optional(Strings), Spans(s, a, b, Opt(PresentReason(x), Str))
  PROVE  ReadObjectField("invalidation", s, a) = Got(PresentReason(x), b)
<1>1. opt(s, a, str) = Got(PresentReason(x), b)
  BY OptReasonReads DEF Spans
<1> QED
  BY <1>1, ObjectReaders

LEMMA FieldDeps ==
  ASSUME NEW s, NEW a, NEW b, NEW d, DOMAIN d \subseteq 0..(NumKinds - 1), d \in [DOMAIN d -> Nat],
         Spans(s, a, b, List(SortedDeps(d), LAMBDA x : x))
  PROVE  ReadObjectField("deps", s, a) = Got(d, b)
<1>1. deps(s, a) = Got(d, b)
  BY DepsReads DEF Spans
<1> QED
  BY <1>1, ObjectReaders

\* The dimensions are read as they were written.
LEMMA DimsRead ==
  ASSUME NEW s, NEW a, NEW b, NEW d \in [1..2 -> 0..5], Spans(s, a, b, d)
  PROVE  ReadObjectField("dims", s, a) = Got(d, b)
<1>1. Len(d) = 2
  BY DEF Spans, Carries, Nats
<1>2. words(s, a, 2) = Got(d, b)
  <2>1. words(s, a, Len(d)) = Got(d, a + Len(d))
    BY WordsReads DEF Spans
  <2> QED
    BY <1>1, <2>1 DEF Spans
<1> DEFINE w == words(s, a, 2)
           F(x) == IF \A i \in DOMAIN x.v : x.v[i] < 6 THEN x ELSE Refused
<1>3. w.ok /\ w.v = d
  BY <1>2 DEF Got
<1>4. ReadObjectField("dims", s, a) = Then(w, F)
  BY ObjectReaders
<1>5. F(w) = w
  <2> HIDE DEF w
  <2>1. \A i \in DOMAIN w.v : w.v[i] < 6
    BY <1>3
  <2> QED
    BY <2>1
<1> HIDE DEF w, F
<1>6. Then(w, F) = F(w)
  BY <1>3 DEF Then
<1> QED
  BY <1>2, <1>4, <1>5, <1>6 DEF w

\* decode_object reads back what encode_object wrote.
LEMMA ObjectReads ==
  ASSUME NEW o, IsObject(o), NEW s, NEW a, NEW b, Spans(s, a, b, encode_object(o))
  PROVE  decode_object(s, a) = Got(Normal(o), b)
<1>1. /\ o.id \in Nat /\ o.category \in 0..11 /\ o.owner \in Nats /\ o.model \in Optional(Nat)
      /\ o.state \in 0..9 /\ o.reason \in Nats /\ o.dims \in [1..2 -> 0..5]
      /\ o.last_used \in Nat /\ o.residency \in 0..4 /\ o.warmth_gen \in Nat
      /\ o.invalidation \in Optional(Strings) /\ o.provenance \in 0..4
      /\ DOMAIN o.deps \subseteq 0..(NumKinds - 1) /\ o.deps \in [DOMAIN o.deps -> Nat]
      /\ DOMAIN o = {"id", "category", "owner", "model", "state", "reason", "dims", "last_used",
                     "residency", "warmth_gen", "deps", "invalidation", "provenance"}
      /\ o = [x \in DOMAIN o |-> o[x]]
  BY ObjectFields, Zenon
<1>2. /\ Str(o.owner) \in Nats /\ Str(o.reason) \in Nats
      /\ Opt(PresentId(o.model), Word) \in Nats
      /\ Opt(PresentReason(o.invalidation), Str) \in Nats
      /\ List(SortedDeps(o.deps), LAMBDA d : d) \in Nats
  BY <1>1, StrType, OptTypes, DepsType, Zenon
<1>3. <<o.id, o.category>> \in Nats /\ <<o.state>> \in Nats /\ <<o.provenance>> \in Nats
      /\ <<o.last_used, o.residency, o.warmth_gen>> \in Nats
  BY <1>1 DEF Nats
<1>4. o.dims \in Nats
  <2>1. o.dims \in [1..2 -> Nat] /\ 2 \in Nat
    BY <1>1
  <2> QED
    BY <2>1, MapNat, Zenon
<1>5. PICK e1 \in Nats, e2 \in Nats, e3 \in Nats, e4 \in Nats, e5 \in Nats,
           e6 \in Nats, e7 \in Nats, e8 \in Nats, e9 \in Nats, e10 \in Nats :
        /\ e1 = <<o.id, o.category>>
        /\ e2 = Str(o.owner)
        /\ e3 = Opt(PresentId(o.model), Word)
        /\ e4 = <<o.state>>
        /\ e5 = Str(o.reason)
        /\ e6 = o.dims
        /\ e7 = <<o.last_used, o.residency, o.warmth_gen>>
        /\ e8 = List(SortedDeps(o.deps), LAMBDA d : d)
        /\ e9 = Opt(PresentReason(o.invalidation), Str)
        /\ e10 = <<o.provenance>>
  BY <1>2, <1>3, <1>4, Zenon
<1>6. Spans(s, a, b, e1 \o e2 \o e3 \o e4 \o e5 \o e6 \o e7 \o e8 \o e9 \o e10)
  BY <1>5 DEF encode_object
<1>7. PICK p2 \in Nats, p3 \in Nats, p4 \in Nats, p5 \in Nats,
           p6 \in Nats, p7 \in Nats, p8 \in Nats, p9 \in Nats :
        /\ p2 = e1 \o e2
        /\ p3 = p2 \o e3
        /\ p4 = p3 \o e4
        /\ p5 = p4 \o e5
        /\ p6 = p5 \o e6
        /\ p7 = p6 \o e7
        /\ p8 = p7 \o e8
        /\ p9 = p8 \o e9
  BY NatsCat, Zenon
<1>8. PICK m10 : Spans(s, a, m10, p9) /\ Spans(s, m10, b, e10)
  <2>1. e1 \o e2 \o e3 \o e4 \o e5 \o e6 \o e7 \o e8 \o e9 \o e10 = p9 \o e10
    BY <1>7
  <2>2. Spans(s, a, b, p9 \o e10)
    BY <1>6, <2>1, Zenon
  <2> QED
    BY <2>2, SpansCat
<1>9. PICK m9 : Spans(s, a, m9, p8) /\ Spans(s, m9, m10, e9)
  <2>1. Spans(s, a, m10, p8 \o e9)
    BY <1>7, <1>8, Zenon
  <2> QED
    BY <2>1, SpansCat
<1>10. PICK m8 : Spans(s, a, m8, p7) /\ Spans(s, m8, m9, e8)
  <2>1. Spans(s, a, m9, p7 \o e8)
    BY <1>7, <1>9, Zenon
  <2> QED
    BY <2>1, SpansCat
<1>11. PICK m7 : Spans(s, a, m7, p6) /\ Spans(s, m7, m8, e7)
  <2>1. Spans(s, a, m8, p6 \o e7)
    BY <1>7, <1>10, Zenon
  <2> QED
    BY <2>1, SpansCat
<1>12. PICK m6 : Spans(s, a, m6, p5) /\ Spans(s, m6, m7, e6)
  <2>1. Spans(s, a, m7, p5 \o e6)
    BY <1>7, <1>11, Zenon
  <2> QED
    BY <2>1, SpansCat
<1>13. PICK m5 : Spans(s, a, m5, p4) /\ Spans(s, m5, m6, e5)
  <2>1. Spans(s, a, m6, p4 \o e5)
    BY <1>7, <1>12, Zenon
  <2> QED
    BY <2>1, SpansCat
<1>14. PICK m4 : Spans(s, a, m4, p3) /\ Spans(s, m4, m5, e4)
  <2>1. Spans(s, a, m5, p3 \o e4)
    BY <1>7, <1>13, Zenon
  <2> QED
    BY <2>1, SpansCat
<1>15. PICK m3 : Spans(s, a, m3, p2) /\ Spans(s, m3, m4, e3)
  <2>1. Spans(s, a, m4, p2 \o e3)
    BY <1>7, <1>14, Zenon
  <2> QED
    BY <2>1, SpansCat
<1>16. PICK m2 : Spans(s, a, m2, e1) /\ Spans(s, m2, m3, e2)
  <2>1. Spans(s, a, m3, e1 \o e2)
    BY <1>7, <1>15, Zenon
  <2> QED
    BY <2>1, SpansCat
<1>17. /\ Spans(s, a, m2, <<o.id, o.category>>) /\ Spans(s, m2, m3, Str(o.owner))
       /\ Spans(s, m3, m4, Opt(PresentId(o.model), Word)) /\ Spans(s, m4, m5, <<o.state>>)
       /\ Spans(s, m5, m6, Str(o.reason)) /\ Spans(s, m6, m7, o.dims)
       /\ Spans(s, m7, m8, <<o.last_used, o.residency, o.warmth_gen>>)
       /\ Spans(s, m8, m9, List(SortedDeps(o.deps), LAMBDA d : d))
       /\ Spans(s, m9, m10, Opt(PresentReason(o.invalidation), Str))
       /\ Spans(s, m10, b, <<o.provenance>>)
  BY <1>5, <1>8, <1>9, <1>10, <1>11, <1>12, <1>13, <1>14, <1>15, <1>16, Zenon
<1>18. PICK x1 : Spans(s, a, x1, <<o.id>>) /\ Spans(s, x1, m2, <<o.category>>)
  <2>1. o.id \in Nat /\ o.category \in Nat /\ Spans(s, a, m2, <<o.id, o.category>>)
    BY <1>1, <1>17
  <2> QED
    BY <2>1, Two, Zenon
<1>19. PICK x8, x9 : /\ Spans(s, m7, x8, <<o.last_used>>) /\ Spans(s, x8, x9, <<o.residency>>)
                     /\ Spans(s, x9, m8, <<o.warmth_gen>>)
  <2>1. /\ o.last_used \in Nat /\ o.residency \in Nat /\ o.warmth_gen \in Nat
        /\ Spans(s, m7, m8, <<o.last_used, o.residency, o.warmth_gen>>)
    BY <1>1, <1>17
  <2> QED
    BY <2>1, Three, Zenon
<1>20. /\ o.category < 12 /\ o.state < 10 /\ o.residency < 5 /\ o.provenance < 5
  BY <1>1
<1>21. ReadObjectField("id", s, a) = Got(o.id, x1)
  <2>1. Spans(s, a, x1, <<o.id>>)
    BY <1>18, Zenon
  <2> QED
    BY <2>1, FieldWord, Zenon
<1>22. ReadObjectField("category", s, x1) = Got(o.category, m2)
  <2>1. Spans(s, x1, m2, <<o.category>>)
    BY <1>18, Zenon
  <2>2. o.category < 12
    BY <1>20, Zenon
  <2> QED
    BY <2>1, <2>2, FieldCategory, Zenon
<1>23. ReadObjectField("owner", s, m2) = Got(o.owner, m3)
  <2>1. Spans(s, m2, m3, Str(o.owner))
    BY <1>17, Zenon
  <2>2. o.owner \in Nats
    BY <1>1, Zenon
  <2> QED
    BY <2>1, <2>2, FieldStr, Zenon
<1>24. ReadObjectField("model", s, m3) = Got(PresentId(o.model), m4)
  <2>1. Spans(s, m3, m4, Opt(PresentId(o.model), Word))
    BY <1>17, Zenon
  <2>2. o.model \in Optional(Nat)
    BY <1>1, Zenon
  <2> QED
    BY <2>1, <2>2, FieldModel, Zenon
<1>25. ReadObjectField("state", s, m4) = Got(o.state, m5)
  <2>1. Spans(s, m4, m5, <<o.state>>)
    BY <1>17, Zenon
  <2>2. o.state < 10
    BY <1>20, Zenon
  <2> QED
    BY <2>1, <2>2, FieldState, Zenon
<1>26. ReadObjectField("reason", s, m5) = Got(o.reason, m6)
  <2>1. Spans(s, m5, m6, Str(o.reason))
    BY <1>17, Zenon
  <2>2. o.reason \in Nats
    BY <1>1, Zenon
  <2> QED
    BY <2>1, <2>2, FieldStr, Zenon
<1>27. ReadObjectField("dims", s, m6) = Got(o.dims, m7)
  <2>1. Spans(s, m6, m7, o.dims)
    BY <1>17, Zenon
  <2>2. o.dims \in [1..2 -> 0..5]
    BY <1>1, Zenon
  <2> QED
    BY <2>1, <2>2, DimsRead, Zenon
<1>28. ReadObjectField("last_used", s, m7) = Got(o.last_used, x8)
  <2>1. Spans(s, m7, x8, <<o.last_used>>)
    BY <1>19, Zenon
  <2> QED
    BY <2>1, FieldWord, Zenon
<1>29. ReadObjectField("residency", s, x8) = Got(o.residency, x9)
  <2>1. Spans(s, x8, x9, <<o.residency>>)
    BY <1>19, Zenon
  <2>2. o.residency < 5
    BY <1>20, Zenon
  <2> QED
    BY <2>1, <2>2, FieldFive, Zenon
<1>30. ReadObjectField("warmth_gen", s, x9) = Got(o.warmth_gen, m8)
  <2>1. Spans(s, x9, m8, <<o.warmth_gen>>)
    BY <1>19, Zenon
  <2> QED
    BY <2>1, FieldWord, Zenon
<1>31. ReadObjectField("deps", s, m8) = Got(o.deps, m9)
  <2>1. Spans(s, m8, m9, List(SortedDeps(o.deps), LAMBDA d : d))
    BY <1>17, Zenon
  <2>2. DOMAIN o.deps \subseteq 0..(NumKinds - 1) /\ o.deps \in [DOMAIN o.deps -> Nat]
    BY <1>1, Zenon
  <2> QED
    BY <2>1, <2>2, FieldDeps, Zenon
<1>32. ReadObjectField("invalidation", s, m9) = Got(PresentReason(o.invalidation), m10)
  <2>1. Spans(s, m9, m10, Opt(PresentReason(o.invalidation), Str))
    BY <1>17, Zenon
  <2>2. o.invalidation \in Optional(Strings)
    BY <1>1, Zenon
  <2> QED
    BY <2>1, <2>2, FieldInvalidation, Zenon
<1>33. ReadObjectField("provenance", s, m10) = Got(o.provenance, b)
  <2>1. Spans(s, m10, b, <<o.provenance>>)
    BY <1>17, Zenon
  <2>2. o.provenance < 5
    BY <1>20, Zenon
  <2> QED
    BY <2>1, <2>2, FieldFive, Zenon
<1> DEFINE N == Normal(o)
           t == <<a, x1, m2, m3, m4, m5, m6, m7, x8, x9, m8, m9, m10, b>>
           c == [i \in 0..13 |-> t[i + 1]]
<1>34. /\ DOMAIN N = DOMAIN o /\ N = [x \in DOMAIN N |-> N[x]]
       /\ N["id"] = o.id
       /\ N["category"] = o.category
       /\ N["owner"] = o.owner
       /\ N["model"] = PresentId(o.model)
       /\ N["state"] = o.state
       /\ N["reason"] = o.reason
       /\ N["dims"] = o.dims
       /\ N["last_used"] = o.last_used
       /\ N["residency"] = o.residency
       /\ N["warmth_gen"] = o.warmth_gen
       /\ N["deps"] = o.deps
       /\ N["invalidation"] = PresentReason(o.invalidation)
       /\ N["provenance"] = o.provenance
  BY <1>1 DEF Normal
<1>35. /\ Len(ObjectLayout) = 13
       /\ ObjectLayout[1] = "id"
       /\ ObjectLayout[2] = "category"
       /\ ObjectLayout[3] = "owner"
       /\ ObjectLayout[4] = "model"
       /\ ObjectLayout[5] = "state"
       /\ ObjectLayout[6] = "reason"
       /\ ObjectLayout[7] = "dims"
       /\ ObjectLayout[8] = "last_used"
       /\ ObjectLayout[9] = "residency"
       /\ ObjectLayout[10] = "warmth_gen"
       /\ ObjectLayout[11] = "deps"
       /\ ObjectLayout[12] = "invalidation"
       /\ ObjectLayout[13] = "provenance"
  BY DEF ObjectLayout
<1>36. c[0] = a /\ c[1] = x1 /\ c[2] = m2 /\ c[3] = m3 /\ c[4] = m4 /\ c[5] = m5 /\ c[6] = m6
       /\ c[7] = m7 /\ c[8] = x8 /\ c[9] = x9 /\ c[10] = m8 /\ c[11] = m9 /\ c[12] = m10 /\ c[13] = b
  OBVIOUS
<1> HIDE DEF c, N
<1>37. \A i \in 1..13 : i = 1 \/ i = 2 \/ i = 3 \/ i = 4 \/ i = 5 \/ i = 6 \/ i = 7
         \/ i = 8 \/ i = 9 \/ i = 10 \/ i = 11 \/ i = 12 \/ i = 13
  OBVIOUS
<1>38. ASSUME NEW i \in 1..13
       PROVE  ReadObjectField(ObjectLayout[i], s, c[i - 1]) = Got(N[ObjectLayout[i]], c[i])
  <2>1. CASE i = 1
    <3>1. ObjectLayout[i] = "id" /\ c[i - 1] = a /\ c[i] = x1
      BY <1>35, <1>36, <2>1
    <3> QED
      BY <1>21, <1>34, <3>1, Zenon
  <2>2. CASE i = 2
    <3>1. ObjectLayout[i] = "category" /\ c[i - 1] = x1 /\ c[i] = m2
      BY <1>35, <1>36, <2>2
    <3> QED
      BY <1>22, <1>34, <3>1, Zenon
  <2>3. CASE i = 3
    <3>1. ObjectLayout[i] = "owner" /\ c[i - 1] = m2 /\ c[i] = m3
      BY <1>35, <1>36, <2>3
    <3> QED
      BY <1>23, <1>34, <3>1, Zenon
  <2>4. CASE i = 4
    <3>1. ObjectLayout[i] = "model" /\ c[i - 1] = m3 /\ c[i] = m4
      BY <1>35, <1>36, <2>4
    <3> QED
      BY <1>24, <1>34, <3>1, Zenon
  <2>5. CASE i = 5
    <3>1. ObjectLayout[i] = "state" /\ c[i - 1] = m4 /\ c[i] = m5
      BY <1>35, <1>36, <2>5
    <3> QED
      BY <1>25, <1>34, <3>1, Zenon
  <2>6. CASE i = 6
    <3>1. ObjectLayout[i] = "reason" /\ c[i - 1] = m5 /\ c[i] = m6
      BY <1>35, <1>36, <2>6
    <3> QED
      BY <1>26, <1>34, <3>1, Zenon
  <2>7. CASE i = 7
    <3>1. ObjectLayout[i] = "dims" /\ c[i - 1] = m6 /\ c[i] = m7
      BY <1>35, <1>36, <2>7
    <3> QED
      BY <1>27, <1>34, <3>1, Zenon
  <2>8. CASE i = 8
    <3>1. ObjectLayout[i] = "last_used" /\ c[i - 1] = m7 /\ c[i] = x8
      BY <1>35, <1>36, <2>8
    <3> QED
      BY <1>28, <1>34, <3>1, Zenon
  <2>9. CASE i = 9
    <3>1. ObjectLayout[i] = "residency" /\ c[i - 1] = x8 /\ c[i] = x9
      BY <1>35, <1>36, <2>9
    <3> QED
      BY <1>29, <1>34, <3>1, Zenon
  <2>10. CASE i = 10
    <3>1. ObjectLayout[i] = "warmth_gen" /\ c[i - 1] = x9 /\ c[i] = m8
      BY <1>35, <1>36, <2>10
    <3> QED
      BY <1>30, <1>34, <3>1, Zenon
  <2>11. CASE i = 11
    <3>1. ObjectLayout[i] = "deps" /\ c[i - 1] = m8 /\ c[i] = m9
      BY <1>35, <1>36, <2>11
    <3> QED
      BY <1>31, <1>34, <3>1, Zenon
  <2>12. CASE i = 12
    <3>1. ObjectLayout[i] = "invalidation" /\ c[i - 1] = m9 /\ c[i] = m10
      BY <1>35, <1>36, <2>12
    <3> QED
      BY <1>32, <1>34, <3>1, Zenon
  <2>13. CASE i = 13
    <3>1. ObjectLayout[i] = "provenance" /\ c[i - 1] = m10 /\ c[i] = b
      BY <1>35, <1>36, <2>13
    <3> QED
      BY <1>33, <1>34, <3>1, Zenon
  <2> QED
    BY <2>1, <2>2, <2>3, <2>4, <2>5, <2>6, <2>7, <2>8, <2>9, <2>10, <2>11, <2>12, <2>13, <1>37, Zenon
<1>39. N = [x \in {ObjectLayout[i] : i \in 1..13} |-> N[x]]
  <2>1. {ObjectLayout[i] : i \in 1..13} = DOMAIN o
    BY <1>1, <1>35, <1>37
  <2> QED
    BY <1>34, <2>1, Zenon
<1>40. decode_object(s, a) = Got(N, c[13])
  <2>1. PICK L \in Nat : L = 13 /\ L = Len(ObjectLayout)
    BY <1>35
  <2>2. \A i \in 1..L : ReadObjectField(ObjectLayout[i], s, c[i - 1]) = Got(N[ObjectLayout[i]], c[i])
    BY <1>38, <2>1
  <2>3. Covers(ObjectLayout, L, N)
    BY <1>39, <2>1, Zenon DEF Covers
  <2>4. c[0] = a
    BY <1>36
  <2>5. decode_object(s, a) = Got(N, c[L])
    <3>1. ObjectAll(L, N, s, a, c)
      BY <2>1, <2>2, <2>3, <2>4, Zenon DEF ObjectAll
    <3> QED
      BY <3>1, DecodeObject, Zenon
  <2> QED
    BY <2>1, <2>5
<1> QED
  BY <1>36, <1>40 DEF N

-----------------------------------------------------------------------------
(* Commands and repeated groups *)

\* What a command's fields are.
LEMMA CommandFields ==
  ASSUME NEW v \in Commands
  PROVE  /\ v.object \in Nat /\ v.action \in Nat /\ v.attempt \in Nat
         /\ DOMAIN v = {"object", "action", "attempt"}
         /\ v = [x \in DOMAIN v |-> v[x]]
         /\ v["object"] = v.object /\ v["action"] = v.action /\ v["attempt"] = v.attempt
BY DEF Commands

\* ReadCmd reads back a command.
LEMMA CmdReads ==
  ASSUME NEW v \in Commands, NEW s, NEW a, NEW b,
         Spans(s, a, b, <<v.object, v.action, v.attempt>>)
  PROVE  ReadCmd(s, a) = Got(v, b)
<1>1. PICK x, y : /\ Spans(s, a, x, <<v.object>>) /\ Spans(s, x, y, <<v.action>>)
                  /\ Spans(s, y, b, <<v.attempt>>)
  BY Three, Zenon
<1>2. /\ word(s, a) = Got(v.object, x) /\ word(s, x) = Got(v.action, y)
      /\ word(s, y) = Got(v.attempt, b)
  BY <1>1, SpanWord
<1> DEFINE lay == <<"object", "action", "attempt">>
           t == <<a, x, y, b>>
           c == [i \in 0..3 |-> t[i + 1]]
<1>3. /\ Len(lay) = 3 /\ lay[1] = "object" /\ lay[2] = "action" /\ lay[3] = "attempt"
      /\ c[0] = a /\ c[1] = x /\ c[2] = y /\ c[3] = b
  OBVIOUS
<1>4. ReadCmd(s, a) = CmdFieldsOf(lay, s, a)
  BY DEF ReadCmd, CmdFieldsOf
<1> HIDE DEF lay, c
<1>5. \A i \in 1..3 : i = 1 \/ i = 2 \/ i = 3
  OBVIOUS
<1>6. Covers(lay, 3, v)
  <2>1. {lay[i] : i \in 1..3} = DOMAIN v
    BY <1>3, <1>5, CommandFields
  <2> QED
    BY <2>1, CommandFields, Zenon DEF Covers
<1>7. \A i \in 1..3 : word(s, c[i - 1]) = Got(v[lay[i]], c[i])
  BY <1>2, <1>3, <1>5, CommandFields
<1>8. CmdCut(lay, 3, v, s, a, c, 4)
  BY <1>3, <1>6, <1>7 DEF CmdCut
<1>9. CmdFieldsOf(lay, s, a) = IF 4 <= 3 THEN Refused ELSE Got(v, c[3])
  BY <1>8, FieldsCmd
<1> QED
  BY <1>3, <1>4, <1>9

\* The items of a group lie between the places c.
Group(c, s, a, b, n, es) ==
  c[0] = a + 1 /\ c[n] = b /\ \A i \in 1..n : Spans(s, c[i - 1], c[i], es[i])

\* A count word and the items behind it.
LEMMA GroupPlaces ==
  ASSUME NEW es \in Seq(Nats), NEW n \in Nat, n = Len(es), NEW s, NEW a, NEW b,
         Spans(s, a, b, <<n>> \o FlattenSeq(es))
  PROVE  word(s, a) = Got(n, a + 1) /\ \E c : Group(c, s, a, b, n, es)
<1>1. FlattenSeq(es) \in Nats
  BY FlattenType, Zenon DEF Nats
<1>2. /\ Carries(s, a, <<n>>) /\ Carries(s, a + 1, FlattenSeq(es))
      /\ Len(<<n>> \o FlattenSeq(es)) = 1 + Len(FlattenSeq(es)) /\ Len(FlattenSeq(es)) \in Nat
  <2>1. Carries(s, a, <<n>> \o FlattenSeq(es))
    BY DEF Spans
  <2> QED
    BY <1>1, <2>1, CarriesWord
<1>3. PICK c : Adjoin(c, s, a + 1, es)
  <2>1. PICK x : x = a + 1 /\ Carries(s, x, FlattenSeq(es))
    BY <1>2
  <2>2. \E c : Adjoin(c, s, x, es)
    BY <2>1, FlattenPlaces, Zenon
  <2> QED
    BY <2>1, <2>2
<1>4. /\ c[0] = a + 1 /\ c[n] = (a + 1) + Len(FlattenSeq(es))
      /\ \A i \in 1..n : Carries(s, c[i - 1], es[i]) /\ c[i] = c[i - 1] + Len(es[i])
  BY <1>3 DEF Adjoin
<1>5. c[n] = b
  <2>1. PICK l \in Nat : l = Len(FlattenSeq(es)) /\ a \in Nat
    BY <1>2 DEF Carries
  <2>2. b = a + (1 + l)
    BY <1>2, <2>1 DEF Spans
  <2> QED
    BY <1>4, <2>1, <2>2
<1>6. word(s, a) = Got(n, a + 1)
  BY <1>2, WordReads
<1>7. Group(c, s, a, b, n, es)
  BY <1>4, <1>5 DEF Group, Spans
<1> QED
  BY <1>6, <1>7

\* The lists of a message: what was written, unless it is longer than the bound.
LEMMA ActionsRead ==
  ASSUME NEW xs \in Nats, NEW s, NEW a, NEW b, Spans(s, a, b, List(xs, Word)), NEW bound
  PROVE  WordList(s, a, bound) = IF Len(xs) <= bound THEN Got(xs, b) ELSE Refused
<1> DEFINE es == [i \in DOMAIN xs |-> Word(xs[i])]
<1>1. PICK n \in Nat : n = Len(xs) /\ DOMAIN xs = 1..n
  BY DEF Nats
<1>2. \A i \in 1..n : es[i] = Word(xs[i]) /\ es[i] \in Nats
  BY <1>1, WordType DEF Nats
<1>3. es \in [1..n -> Nats]
  BY <1>1, <1>2
<1>4. List(xs, Word) = <<n>> \o FlattenSeq(es)
  BY <1>1 DEF List
<1> HIDE DEF es
<1>5. es \in Seq(Nats) /\ n = Len(es)
  BY <1>3, MapNats, Zenon
<1>a. Spans(s, a, b, <<n>> \o FlattenSeq(es))
  BY <1>4
<1>b. word(s, a) = Got(n, a + 1) /\ \E c : Group(c, s, a, b, n, es)
  BY <1>5, <1>a, GroupPlaces
<1>6. PICK c : Group(c, s, a, b, n, es)
  BY <1>b
<1>7. c[0] = a + 1 /\ c[n] = b /\ \A i \in 1..n : Spans(s, c[i - 1], c[i], es[i])
  BY <1>6 DEF Group
<1> DEFINE vs == xs
<1>8. ASSUME NEW i \in 1..n PROVE word(s, c[i - 1]) = Got(vs[i], c[i])
  <2>1. Spans(s, c[i - 1], c[i], <<xs[i]>>)
    BY <1>2, <1>7 DEF Word
  <2> QED
    BY <2>1, SpanWord
<1>9. PICK V : vs \in Seq(V) /\ Len(vs) = n
  BY <1>1 DEF Nats
<1> HIDE DEF vs
<1>c. \A i \in 1..n : word(s, c[i - 1]) = Got(vs[i], c[i])
  BY <1>8
<1>10. WordList(s, a, bound) = IF n <= bound THEN Got(vs, c[n]) ELSE Refused
  BY <1>b, <1>7, <1>9, <1>c, ListWord
<1> QED
  BY <1>1, <1>7, <1>10 DEF vs

LEMMA DevicesRead ==
  ASSUME NEW xs \in Seq(Nats), NEW s, NEW a, NEW b, Spans(s, a, b, List(xs, Str)), NEW bound
  PROVE  StrList(s, a, bound) = IF Len(xs) <= bound THEN Got(xs, b) ELSE Refused
<1> DEFINE es == [i \in DOMAIN xs |-> Str(xs[i])]
<1>1. PICK n \in Nat : n = Len(xs) /\ DOMAIN xs = 1..n
  OBVIOUS
<1>2. \A i \in 1..n : es[i] = Str(xs[i]) /\ es[i] \in Nats
  BY <1>1, StrType
<1>3. es \in [1..n -> Nats]
  BY <1>1, <1>2
<1>4. List(xs, Str) = <<n>> \o FlattenSeq(es)
  BY <1>1 DEF List
<1> HIDE DEF es
<1>5. es \in Seq(Nats) /\ n = Len(es)
  BY <1>3, MapNats, Zenon
<1>a. Spans(s, a, b, <<n>> \o FlattenSeq(es))
  BY <1>4
<1>b. word(s, a) = Got(n, a + 1) /\ \E c : Group(c, s, a, b, n, es)
  BY <1>5, <1>a, GroupPlaces
<1>6. PICK c : Group(c, s, a, b, n, es)
  BY <1>b
<1>7. c[0] = a + 1 /\ c[n] = b /\ \A i \in 1..n : Spans(s, c[i - 1], c[i], es[i])
  BY <1>6 DEF Group
<1> DEFINE vs == xs
<1>8. ASSUME NEW i \in 1..n PROVE str(s, c[i - 1]) = Got(vs[i], c[i])
  <2>1. PICK x \in Nats, p \in {c[i - 1]}, q \in {c[i]} : x = xs[i] /\ p = c[i - 1] /\ q = c[i]
    BY <1>1
  <2>2. Spans(s, p, q, Str(x))
    BY <1>2, <1>7, <2>1
  <2>3. str(s, p) = Got(x, q)
    BY <2>2, StrReads DEF Spans
  <2> QED
    BY <2>1, <2>3
<1>9. PICK V : vs \in Seq(V) /\ Len(vs) = n
  BY <1>1
<1> HIDE DEF vs
<1>c. \A i \in 1..n : str(s, c[i - 1]) = Got(vs[i], c[i])
  BY <1>8
<1>10. StrList(s, a, bound) = IF n <= bound THEN Got(vs, c[n]) ELSE Refused
  BY <1>b, <1>7, <1>9, <1>c, ListStr
<1> QED
  BY <1>1, <1>7, <1>10 DEF vs

\* The same of the strings, the commands and the objects of a message.
LEMMA CmdsRead ==
  ASSUME NEW xs \in Seq(Commands), NEW s, NEW a, NEW b, Spans(s, a, b, CmdsOf(xs)), NEW bound
  PROVE  CmdList(s, a, bound) = IF Len(xs) <= bound THEN Got(xs, b) ELSE Refused
<1> DEFINE es == [i \in DOMAIN xs |-> CmdWords(xs[i])]
<1>1. PICK n \in Nat : n = Len(xs) /\ DOMAIN xs = 1..n
  OBVIOUS
<1>2. \A i \in 1..n : es[i] = CmdWords(xs[i]) /\ es[i] \in Nats
  <2> TAKE i \in 1..n
  <2>1. xs[i] \in Commands
    BY <1>1
  <2>2. PICK x \in Nat, y \in Nat, z \in Nat : x = xs[i].object /\ y = xs[i].action /\ z = xs[i].attempt
    BY <2>1, CommandFields
  <2>a. <<x, y, z>> \in Nats
    BY DEF Nats
  <2>3. CmdWords(xs[i]) \in Nats
    BY <2>2, <2>a DEF CmdWords
  <2> QED
    BY <1>1, <2>3
<1>3. es \in [1..n -> Nats]
  BY <1>1, <1>2
<1>4. CmdsOf(xs) = <<n>> \o FlattenSeq(es)
  BY <1>1 DEF List, CmdsOf, CmdWords
<1> HIDE DEF es
<1>5. es \in Seq(Nats) /\ n = Len(es)
  BY <1>3, MapNats, Zenon
<1>a. Spans(s, a, b, <<n>> \o FlattenSeq(es))
  BY <1>4
<1>b. word(s, a) = Got(n, a + 1) /\ \E c : Group(c, s, a, b, n, es)
  BY <1>5, <1>a, GroupPlaces
<1>6. PICK c : Group(c, s, a, b, n, es)
  BY <1>b
<1>7. c[0] = a + 1 /\ c[n] = b /\ \A i \in 1..n : Spans(s, c[i - 1], c[i], es[i])
  BY <1>6 DEF Group
<1> DEFINE vs == xs
<1>8. ASSUME NEW i \in 1..n PROVE ReadCmd(s, c[i - 1]) = Got(vs[i], c[i])
  <2>1. PICK x \in Commands, p \in {c[i - 1]}, q \in {c[i]} : x = xs[i] /\ p = c[i - 1] /\ q = c[i]
    BY <1>1
  <2>2. Spans(s, p, q, CmdWords(x))
    BY <1>2, <1>7, <2>1
  <2>3. ReadCmd(s, p) = Got(x, q)
    BY <2>2, CmdReads, Zenon DEF CmdWords
  <2> QED
    BY <2>1, <2>3
<1>9. PICK V : vs \in Seq(V) /\ Len(vs) = n
  BY <1>1
<1> HIDE DEF vs
<1>c. \A i \in 1..n : ReadCmd(s, c[i - 1]) = Got(vs[i], c[i])
  BY <1>8
<1>10. CmdList(s, a, bound) = IF n <= bound THEN Got(vs, c[n]) ELSE Refused
  BY <1>b, <1>7, <1>9, <1>c, ListCmd
<1> QED
  BY <1>1, <1>7, <1>10 DEF vs

LEMMA ObjectsRead ==
  ASSUME NEW xs, AreObjects(xs), NEW s, NEW a, NEW b, Spans(s, a, b, List(xs, encode_object)), NEW bound
  PROVE  ObjectList(s, a, bound) = IF Len(xs) <= bound THEN Got(NormalSeq(xs), b) ELSE Refused
<1> DEFINE es == [i \in DOMAIN xs |-> encode_object(xs[i])]
<1>1. PICK n \in Nat : n = Len(xs) /\ DOMAIN xs = 1..n
  BY DEF AreObjects
<1>2. \A i \in 1..n : es[i] = encode_object(xs[i]) /\ es[i] \in Nats
  BY <1>1, ObjectType DEF AreObjects
<1>3. es \in [1..n -> Nats]
  BY <1>1, <1>2
<1>4. List(xs, encode_object) = <<n>> \o FlattenSeq(es)
  BY <1>1 DEF List
<1> HIDE DEF es
<1>5. es \in Seq(Nats) /\ n = Len(es)
  BY <1>3, MapNats, Zenon
<1>a. Spans(s, a, b, <<n>> \o FlattenSeq(es))
  BY <1>4
<1>b. word(s, a) = Got(n, a + 1) /\ \E c : Group(c, s, a, b, n, es)
  BY <1>5, <1>a, GroupPlaces
<1>6. PICK c : Group(c, s, a, b, n, es)
  BY <1>b
<1>7. c[0] = a + 1 /\ c[n] = b /\ \A i \in 1..n : Spans(s, c[i - 1], c[i], es[i])
  BY <1>6 DEF Group
<1> DEFINE vs == NormalSeq(xs)
<1>8. ASSUME NEW i \in 1..n PROVE decode_object(s, c[i - 1]) = Got(vs[i], c[i])
  <2>1. PICK x, p, q : x = xs[i] /\ p = c[i - 1] /\ q = c[i] /\ IsObject(x)
    BY <1>1 DEF AreObjects
  <2>2. Spans(s, p, q, encode_object(x))
    BY <1>2, <1>7, <2>1
  <2>3. decode_object(s, p) = Got(Normal(x), q)
    BY <2>1, <2>2, ObjectReads
  <2>4. vs[i] = Normal(x)
    BY <1>1, <2>1 DEF NormalSeq
  <2> QED
    BY <2>1, <2>3, <2>4
<1>9. PICK V : vs \in Seq(V) /\ Len(vs) = n
  <2>1. PICK W : W = {Normal(xs[i]) : i \in 1..n}
    OBVIOUS
  <2>2. vs \in [1..n -> W]
    BY <1>1, <2>1 DEF NormalSeq
  <2> HIDE DEF vs
  <2>3. vs \in Seq(W)
    BY <2>2
  <2>4. DOMAIN vs = 1..n
    BY <2>2
  <2> QED
    BY <2>3, <2>4
<1> HIDE DEF vs
<1>c. \A i \in 1..n : decode_object(s, c[i - 1]) = Got(vs[i], c[i])
  BY <1>8
<1>10. ObjectList(s, a, bound) = IF n <= bound THEN Got(vs, c[n]) ELSE Refused
  BY <1>b, <1>7, <1>9, <1>c, ListObject
<1> QED
  BY <1>1, <1>7, <1>10 DEF vs

-----------------------------------------------------------------------------
(* Messages *)

LEMMA Four ==
  ASSUME NEW s, NEW a, NEW b, NEW x1, NEW x2, NEW x3, NEW x4,
         Spans(s, a, b, <<x1, x2, x3, x4>>)
  PROVE  \E m1, m2, m3 :
           /\ Spans(s, a, m1, <<x1>>)
           /\ Spans(s, m1, m2, <<x2>>)
           /\ Spans(s, m2, m3, <<x3>>)
           /\ Spans(s, m3, b, <<x4>>)
<1>1. PICK e : /\ e = <<x1, x2, x3, x4>> /\ Len(e) = 4
               /\ e[1] = x1 /\ e[2] = x2 /\ e[3] = x3 /\ e[4] = x4
  OBVIOUS
<1>2. Spans(s, a, b, e) /\ {1, 2, 3, 4} \subseteq 1..Len(e) /\ a \in Nat /\ b = a + 4
  BY <1>1 DEF Spans, Carries
<1>3. Spans(s, a, a + 1, <<x1>>)
  <2>1. Spans(s, (a + 1) - 1, a + 1, <<e[1]>>)
    BY <1>2, WordSpan
  <2>2. (a + 1) - 1 = a
    BY <1>2
  <2> QED
    BY <1>1, <2>1, <2>2
<1>4. Spans(s, a + 1, a + 2, <<x2>>)
  <2>1. Spans(s, (a + 2) - 1, a + 2, <<e[2]>>)
    BY <1>2, WordSpan
  <2>2. (a + 2) - 1 = a + 1
    BY <1>2
  <2> QED
    BY <1>1, <2>1, <2>2
<1>5. Spans(s, a + 2, a + 3, <<x3>>)
  <2>1. Spans(s, (a + 3) - 1, a + 3, <<e[3]>>)
    BY <1>2, WordSpan
  <2>2. (a + 3) - 1 = a + 2
    BY <1>2
  <2> QED
    BY <1>1, <2>1, <2>2
<1>6. Spans(s, a + 3, a + 4, <<x4>>)
  <2>1. Spans(s, (a + 4) - 1, a + 4, <<e[4]>>)
    BY <1>2, WordSpan
  <2>2. (a + 4) - 1 = a + 3
    BY <1>2
  <2> QED
    BY <1>1, <2>1, <2>2
<1> QED
  BY <1>2, <1>3, <1>4, <1>5, <1>6

LEMMA Seven ==
  ASSUME NEW s, NEW b, NEW x1, NEW x2, NEW x3, NEW x4, NEW x5, NEW x6, NEW x7,
         Spans(s, 1, b, <<x1, x2, x3, x4, x5, x6, x7>>)
  PROVE  /\ Spans(s, 1, 2, <<x1>>) /\ Spans(s, 2, 3, <<x2>>) /\ Spans(s, 3, 4, <<x3>>)
         /\ Spans(s, 4, 5, <<x4>>) /\ Spans(s, 5, 6, <<x5>>) /\ Spans(s, 6, 7, <<x6>>)
         /\ Spans(s, 7, b, <<x7>>)
<1>1. PICK e : /\ e = <<x1, x2, x3, x4, x5, x6, x7>> /\ Len(e) = 7
               /\ e[1] = x1 /\ e[2] = x2 /\ e[3] = x3 /\ e[4] = x4 /\ e[5] = x5
               /\ e[6] = x6 /\ e[7] = x7
  OBVIOUS
<1>2. Spans(s, 1, b, e) /\ b = 8
  BY <1>1 DEF Spans
<1>3. \A i \in 1..7 : Spans(s, i, i + 1, <<e[i]>>)
  <2> TAKE i \in 1..7
  <2>1. i \in 1..Len(e) /\ (1 + i) - 1 = i /\ 1 + i = i + 1
    BY <1>1
  <2>2. Spans(s, (1 + i) - 1, 1 + i, <<e[i]>>)
    BY <1>2, <2>1, WordSpan
  <2> QED
    BY <2>1, <2>2
<1> QED
  BY <1>1, <1>2, <1>3

\* The readers of a message's fields, by name.
LEMMA MessageReaders ==
  ASSUME NEW s, NEW p
  PROVE
         /\ ReadMessageField("version", s, p) = word(s, p)
         /\ ReadMessageField("worker", s, p) = word(s, p)
         /\ ReadMessageField("boot", s, p) = word(s, p)
         /\ ReadMessageField("epoch", s, p) = word(s, p)
         /\ ReadMessageField("warmth_gen", s, p) = word(s, p)
         /\ ReadMessageField("dep_gen", s, p) = word(s, p)
         /\ ReadMessageField("policy_gen", s, p) = word(s, p)
         /\ ReadMessageField("object", s, p) = word(s, p)
         /\ ReadMessageField("action", s, p) = word(s, p)
         /\ ReadMessageField("attempt", s, p) = word(s, p)
         /\ ReadMessageField("bytes", s, p) = word(s, p)
         /\ ReadMessageField("accepted", s, p) = flag(s, p)
         /\ ReadMessageField("success", s, p) = flag(s, p)
         /\ ReadMessageField("backend", s, p) = str(s, p)
         /\ ReadMessageField("reason", s, p) = str(s, p)
         /\ ReadMessageField("error", s, p) = str(s, p)
         /\ ReadMessageField("devices", s, p) = StrList(s, p, MaxItems)
         /\ ReadMessageField("actions", s, p) = WordList(s, p, MaxActions)
         /\ ReadMessageField("cmds", s, p) = CmdList(s, p, MaxItems)
         /\ ReadMessageField("observed", s, p) = ObjectList(s, p, MaxItems)
         /\ ReadMessageField("objects", s, p) = ObjectList(s, p, MaxItems)
<1>1. ReadMessageField("version", s, p) = word(s, p)
  BY DEF ReadMessageField, WordList, StrList, CmdList, ObjectList
<1>2. ReadMessageField("worker", s, p) = word(s, p)
  BY DEF ReadMessageField, WordList, StrList, CmdList, ObjectList
<1>3. ReadMessageField("boot", s, p) = word(s, p)
  BY DEF ReadMessageField, WordList, StrList, CmdList, ObjectList
<1>4. ReadMessageField("epoch", s, p) = word(s, p)
  BY DEF ReadMessageField, WordList, StrList, CmdList, ObjectList
<1>5. ReadMessageField("warmth_gen", s, p) = word(s, p)
  BY DEF ReadMessageField, WordList, StrList, CmdList, ObjectList
<1>6. ReadMessageField("dep_gen", s, p) = word(s, p)
  BY DEF ReadMessageField, WordList, StrList, CmdList, ObjectList
<1>7. ReadMessageField("policy_gen", s, p) = word(s, p)
  BY DEF ReadMessageField, WordList, StrList, CmdList, ObjectList
<1>8. ReadMessageField("object", s, p) = word(s, p)
  BY DEF ReadMessageField, WordList, StrList, CmdList, ObjectList
<1>9. ReadMessageField("action", s, p) = word(s, p)
  BY DEF ReadMessageField, WordList, StrList, CmdList, ObjectList
<1>10. ReadMessageField("attempt", s, p) = word(s, p)
  BY DEF ReadMessageField, WordList, StrList, CmdList, ObjectList
<1>11. ReadMessageField("bytes", s, p) = word(s, p)
  BY DEF ReadMessageField, WordList, StrList, CmdList, ObjectList
<1>12. ReadMessageField("accepted", s, p) = flag(s, p)
  BY DEF ReadMessageField, WordList, StrList, CmdList, ObjectList
<1>13. ReadMessageField("success", s, p) = flag(s, p)
  BY DEF ReadMessageField, WordList, StrList, CmdList, ObjectList
<1>14. ReadMessageField("backend", s, p) = str(s, p)
  BY DEF ReadMessageField, WordList, StrList, CmdList, ObjectList
<1>15. ReadMessageField("reason", s, p) = str(s, p)
  BY DEF ReadMessageField, WordList, StrList, CmdList, ObjectList
<1>16. ReadMessageField("error", s, p) = str(s, p)
  BY DEF ReadMessageField, WordList, StrList, CmdList, ObjectList
<1>17. ReadMessageField("devices", s, p) = StrList(s, p, MaxItems)
  BY DEF ReadMessageField, WordList, StrList, CmdList, ObjectList
<1>18. ReadMessageField("actions", s, p) = WordList(s, p, MaxActions)
  BY DEF ReadMessageField, WordList, StrList, CmdList, ObjectList
<1>19. ReadMessageField("cmds", s, p) = CmdList(s, p, MaxItems)
  BY DEF ReadMessageField, WordList, StrList, CmdList, ObjectList
<1>20. ReadMessageField("observed", s, p) = ObjectList(s, p, MaxItems)
  BY DEF ReadMessageField, WordList, StrList, CmdList, ObjectList
<1>21. ReadMessageField("objects", s, p) = ObjectList(s, p, MaxItems)
  BY DEF ReadMessageField, WordList, StrList, CmdList, ObjectList
<1> QED
  BY <1>1, <1>2, <1>3, <1>4, <1>5, <1>6, <1>7, <1>8, <1>9, <1>10, <1>11, <1>12, <1>13, <1>14, <1>15,
     <1>16, <1>17, <1>18, <1>19, <1>20, <1>21

LEMMA SentWord ==
  ASSUME NEW s, NEW a, NEW b, NEW v, Spans(s, a, b, <<v>>)
  PROVE
         /\ ReadMessageField("version", s, a) = Got(v, b)
         /\ ReadMessageField("worker", s, a) = Got(v, b)
         /\ ReadMessageField("boot", s, a) = Got(v, b)
         /\ ReadMessageField("epoch", s, a) = Got(v, b)
         /\ ReadMessageField("warmth_gen", s, a) = Got(v, b)
         /\ ReadMessageField("dep_gen", s, a) = Got(v, b)
         /\ ReadMessageField("policy_gen", s, a) = Got(v, b)
         /\ ReadMessageField("object", s, a) = Got(v, b)
         /\ ReadMessageField("action", s, a) = Got(v, b)
         /\ ReadMessageField("attempt", s, a) = Got(v, b)
         /\ ReadMessageField("bytes", s, a) = Got(v, b)
<1>1. word(s, a) = Got(v, b)
  BY SpanWord
<1>2. ReadMessageField("version", s, a) = Got(v, b)
  BY <1>1, MessageReaders, Zenon
<1>3. ReadMessageField("worker", s, a) = Got(v, b)
  BY <1>1, MessageReaders, Zenon
<1>4. ReadMessageField("boot", s, a) = Got(v, b)
  BY <1>1, MessageReaders, Zenon
<1>5. ReadMessageField("epoch", s, a) = Got(v, b)
  BY <1>1, MessageReaders, Zenon
<1>6. ReadMessageField("warmth_gen", s, a) = Got(v, b)
  BY <1>1, MessageReaders, Zenon
<1>7. ReadMessageField("dep_gen", s, a) = Got(v, b)
  BY <1>1, MessageReaders, Zenon
<1>8. ReadMessageField("policy_gen", s, a) = Got(v, b)
  BY <1>1, MessageReaders, Zenon
<1>9. ReadMessageField("object", s, a) = Got(v, b)
  BY <1>1, MessageReaders, Zenon
<1>10. ReadMessageField("action", s, a) = Got(v, b)
  BY <1>1, MessageReaders, Zenon
<1>11. ReadMessageField("attempt", s, a) = Got(v, b)
  BY <1>1, MessageReaders, Zenon
<1>12. ReadMessageField("bytes", s, a) = Got(v, b)
  BY <1>1, MessageReaders, Zenon
<1> QED
  BY <1>2, <1>3, <1>4, <1>5, <1>6, <1>7, <1>8, <1>9, <1>10, <1>11, <1>12

LEMMA SentFlag ==
  ASSUME NEW s, NEW a, NEW b, NEW v \in BOOLEAN, Spans(s, a, b, Flag(v))
  PROVE  /\ ReadMessageField("accepted", s, a) = Got(v, b)
         /\ ReadMessageField("success", s, a) = Got(v, b)
<1>1. flag(s, a) = Got(v, b)
  BY FlagReads DEF Spans
<1> QED
  BY <1>1, MessageReaders

LEMMA SentStr ==
  ASSUME NEW s, NEW a, NEW b, NEW x \in Nats, Spans(s, a, b, Str(x))
  PROVE  /\ ReadMessageField("backend", s, a) = Got(x, b)
         /\ ReadMessageField("reason", s, a) = Got(x, b)
         /\ ReadMessageField("error", s, a) = Got(x, b)
<1>1. str(s, a) = Got(x, b)
  BY StrReads DEF Spans
<1> QED
  BY <1>1, MessageReaders

\* A list is read back, or refused when it is longer than its bound.
Bounded(r, n, bound, v, b) ==
  (n <= bound => r = Got(v, b)) /\ (~(n <= bound) => r = Refused)

LEMMA SentDevices ==
  ASSUME NEW xs \in Seq(Nats), NEW s, NEW a, NEW b, Spans(s, a, b, List(xs, Str))
  PROVE  Bounded(ReadMessageField("devices", s, a), Len(xs), MaxItems, xs, b)
<1>1. StrList(s, a, MaxItems) = IF Len(xs) <= MaxItems THEN Got(xs, b) ELSE Refused
  BY DevicesRead
<1>2. Bounded(StrList(s, a, MaxItems), Len(xs), MaxItems, xs, b)
  BY <1>1 DEF Bounded
<1> QED
  BY <1>2, MessageReaders, Zenon

LEMMA SentActions ==
  ASSUME NEW xs \in Nats, NEW s, NEW a, NEW b, Spans(s, a, b, List(xs, Word))
  PROVE  Bounded(ReadMessageField("actions", s, a), Len(xs), MaxActions, xs, b)
<1>1. WordList(s, a, MaxActions) = IF Len(xs) <= MaxActions THEN Got(xs, b) ELSE Refused
  BY ActionsRead
<1>2. Bounded(WordList(s, a, MaxActions), Len(xs), MaxActions, xs, b)
  BY <1>1 DEF Bounded
<1> QED
  BY <1>2, MessageReaders, Zenon

LEMMA SentCmds ==
  ASSUME NEW xs \in Seq(Commands), NEW s, NEW a, NEW b, Spans(s, a, b, CmdsOf(xs))
  PROVE  Bounded(ReadMessageField("cmds", s, a), Len(xs), MaxItems, xs, b)
<1>1. CmdList(s, a, MaxItems) = IF Len(xs) <= MaxItems THEN Got(xs, b) ELSE Refused
  BY CmdsRead
<1>2. Bounded(CmdList(s, a, MaxItems), Len(xs), MaxItems, xs, b)
  BY <1>1 DEF Bounded
<1> QED
  BY <1>2, MessageReaders, Zenon

LEMMA SentObjects ==
  ASSUME NEW xs, AreObjects(xs), NEW s, NEW a, NEW b, Spans(s, a, b, List(xs, encode_object))
  PROVE  /\ Bounded(ReadMessageField("observed", s, a), Len(xs), MaxItems, NormalSeq(xs), b)
         /\ Bounded(ReadMessageField("objects", s, a), Len(xs), MaxItems, NormalSeq(xs), b)
<1>1. ObjectList(s, a, MaxItems) = IF Len(xs) <= MaxItems THEN Got(NormalSeq(xs), b) ELSE Refused
  BY ObjectsRead
<1>2. Bounded(ObjectList(s, a, MaxItems), Len(xs), MaxItems, NormalSeq(xs), b)
  BY <1>1 DEF Bounded
<1> QED
  BY <1>2, MessageReaders, Zenon
LEMMA HelloFields ==
  ASSUME NEW h, IsHello(h)
  PROVE  /\ h.version \in Nat /\ h.worker \in Nat /\ h.boot \in Nat /\ h.backend \in Nats
         /\ h.devices \in Seq(Nats) /\ h.actions \in Nats /\ AreObjects(h.observed)
         /\ DOMAIN h = {"version", "worker", "boot", "backend", "devices", "actions", "observed"}
         /\ h = [x \in DOMAIN h |-> h[x]]
<1> USE DEF IsHello, Strings, Nats
<1>1. h.version \in Nat
  OBVIOUS
<1>2. h.worker \in Nat
  OBVIOUS
<1>3. h.boot \in Nat
  OBVIOUS
<1>4. h.backend \in Nats
  OBVIOUS
<1>5. h.devices \in Seq(Nats)
  OBVIOUS
<1>6. h.actions \in Nats
  OBVIOUS
<1>7. AreObjects(h.observed)
  OBVIOUS
<1>8. DOMAIN h = {"version", "worker", "boot", "backend", "devices", "actions", "observed"}
  OBVIOUS
<1>9. h = [x \in DOMAIN h |-> h[x]]
  OBVIOUS
<1> QED
  BY <1>1, <1>2, <1>3, <1>4, <1>5, <1>6, <1>7, <1>8, <1>9, Zenon

LEMMA HelloReads ==
  ASSUME NEW h, IsHello(h), NEW s, NEW b, Spans(s, 1, b, encode_hello(h))
  PROVE  decode_hello(s) =
           IF Len(h.devices) <= MaxItems /\ Len(h.actions) <= MaxActions /\ Len(h.observed) <= MaxItems
           THEN Got([h EXCEPT !.observed = NormalSeq(@)], b) ELSE Refused
<1>1. /\ h.version \in Nat /\ h.worker \in Nat /\ h.boot \in Nat /\ h.backend \in Nats
      /\ h.devices \in Seq(Nats) /\ h.actions \in Nats /\ AreObjects(h.observed)
      /\ DOMAIN h = {"version", "worker", "boot", "backend", "devices", "actions", "observed"}
      /\ h = [x \in DOMAIN h |-> h[x]]
  BY HelloFields, Zenon
<1>2. <<h.version, h.worker, h.boot>> \in Nats
  BY <1>1 DEF Nats
<1>3. Str(h.backend) \in Nats
  BY <1>1, StrType, Zenon
<1>4. List(h.devices, Str) \in Nats
  BY <1>1, DevicesType, Zenon
<1>5. List(h.actions, Word) \in Nats
  BY <1>1, ActionsType, Zenon
<1>6. List(h.observed, encode_object) \in Nats
  BY <1>1, ObjectsType, Zenon
<1>7. PICK e1 \in Nats, e2 \in Nats, e3 \in Nats, e4 \in Nats, e5 \in Nats :
        /\ e1 = <<h.version, h.worker, h.boot>>
        /\ e2 = Str(h.backend)
        /\ e3 = List(h.devices, Str)
        /\ e4 = List(h.actions, Word)
        /\ e5 = List(h.observed, encode_object)
  BY <1>2, <1>3, <1>4, <1>5, <1>6, Zenon
<1>8. Spans(s, 1, b, e1 \o e2 \o e3 \o e4 \o e5)
  BY <1>7 DEF encode_hello, CmdsOf
<1>9. PICK m5 : Spans(s, 1, m5, e1 \o e2 \o e3 \o e4) /\ Spans(s, m5, b, e5)
  <2>1. PICK p \in Nats : p = e1 \o e2 \o e3 \o e4
    BY NatsCat
  <2>2. Spans(s, 1, b, p \o e5)
    BY <1>8, <2>1
  <2>3. \E m : Spans(s, 1, m, p) /\ Spans(s, m, b, e5)
    BY <2>2, SpansCat
  <2> QED
    BY <2>1, <2>3
<1>10. PICK m4 : Spans(s, 1, m4, e1 \o e2 \o e3) /\ Spans(s, m4, m5, e4)
  <2>1. PICK p \in Nats : p = e1 \o e2 \o e3
    BY NatsCat
  <2>2. Spans(s, 1, m5, p \o e4)
    BY <1>9, <2>1
  <2>3. \E m : Spans(s, 1, m, p) /\ Spans(s, m, m5, e4)
    BY <2>2, SpansCat
  <2> QED
    BY <2>1, <2>3
<1>11. PICK m3 : Spans(s, 1, m3, e1 \o e2) /\ Spans(s, m3, m4, e3)
  <2>1. PICK p \in Nats : p = e1 \o e2
    BY NatsCat
  <2>2. Spans(s, 1, m4, p \o e3)
    BY <1>10, <2>1
  <2>3. \E m : Spans(s, 1, m, p) /\ Spans(s, m, m4, e3)
    BY <2>2, SpansCat
  <2> QED
    BY <2>1, <2>3
<1>12. PICK m2 : Spans(s, 1, m2, e1) /\ Spans(s, m2, m3, e2)
  BY <1>11, SpansCat
<1>13. Spans(s, 1, m2, <<h.version, h.worker, h.boot>>)
  BY <1>7, <1>12, Zenon
<1>14. PICK x11, x12 :
         /\ Spans(s, 1, x11, <<h.version>>)
         /\ Spans(s, x11, x12, <<h.worker>>)
         /\ Spans(s, x12, m2, <<h.boot>>)
  BY <1>13, Three, Zenon
<1>15. Spans(s, m2, m3, Str(h.backend))
  BY <1>7, <1>12, Zenon
<1>16. Spans(s, m3, m4, List(h.devices, Str))
  BY <1>7, <1>11, Zenon
<1>17. Spans(s, m4, m5, List(h.actions, Word))
  BY <1>7, <1>10, Zenon
<1>18. Spans(s, m5, b, List(h.observed, encode_object))
  BY <1>7, <1>9, Zenon
<1>19. ReadMessageField("version", s, 1) = Got(h.version, x11)
  <2>1. Spans(s, 1, x11, <<h.version>>)
    BY <1>14, Zenon
  <2> QED
    BY <2>1, SentWord, Zenon
<1>20. ReadMessageField("worker", s, x11) = Got(h.worker, x12)
  <2>1. Spans(s, x11, x12, <<h.worker>>)
    BY <1>14, Zenon
  <2> QED
    BY <2>1, SentWord, Zenon
<1>21. ReadMessageField("boot", s, x12) = Got(h.boot, m2)
  <2>1. Spans(s, x12, m2, <<h.boot>>)
    BY <1>14, Zenon
  <2> QED
    BY <2>1, SentWord, Zenon
<1>22. ReadMessageField("backend", s, m2) = Got(h.backend, m3)
  <2>1. Spans(s, m2, m3, Str(h.backend))
    BY <1>15, Zenon
  <2>2. h.backend \in Nats
    BY <1>1, Zenon
  <2> QED
    BY <2>1, <2>2, SentStr, Zenon
<1>23. Bounded(ReadMessageField("devices", s, m3), Len(h.devices), MaxItems, h.devices, m4)
  <2>1. Spans(s, m3, m4, List(h.devices, Str))
    BY <1>16, Zenon
  <2>2. h.devices \in Seq(Nats)
    BY <1>1, Zenon
  <2> QED
    BY <2>1, <2>2, SentDevices, Zenon
<1>24. Bounded(ReadMessageField("actions", s, m4), Len(h.actions), MaxActions, h.actions, m5)
  <2>1. Spans(s, m4, m5, List(h.actions, Word))
    BY <1>17, Zenon
  <2>2. h.actions \in Nats
    BY <1>1, Zenon
  <2> QED
    BY <2>1, <2>2, SentActions, Zenon
<1>25. Bounded(ReadMessageField("observed", s, m5), Len(h.observed), MaxItems, NormalSeq(h.observed), b)
  <2>1. Spans(s, m5, b, List(h.observed, encode_object))
    BY <1>18, Zenon
  <2>2. AreObjects(h.observed)
    BY <1>1, Zenon
  <2> QED
    BY <2>1, <2>2, SentObjects, Zenon
<1> DEFINE lay == <<"version", "worker", "boot", "backend", "devices", "actions", "observed">>
           N == [h EXCEPT !.observed = NormalSeq(@)]
           t == <<1, x11, x12, m2, m3, m4, m5, b>>
           c == [i \in 0..7 |-> t[i + 1]]
<1>26. /\ Len(lay) = 7 /\ lay[1] = "version" /\ lay[2] = "worker" /\ lay[3] = "boot"
       /\ lay[4] = "backend" /\ lay[5] = "devices" /\ lay[6] = "actions" /\ lay[7] = "observed"
  OBVIOUS
<1>27. /\ c[0] = 1 /\ c[1] = x11 /\ c[2] = x12 /\ c[3] = m2 /\ c[4] = m3 /\ c[5] = m4
       /\ c[6] = m5 /\ c[7] = b
  OBVIOUS
<1>28. /\ DOMAIN N = DOMAIN h /\ N = [x \in DOMAIN N |-> N[x]]
       /\ N["version"] = h.version /\ N["worker"] = h.worker /\ N["boot"] = h.boot
       /\ N["backend"] = h.backend /\ N["devices"] = h.devices /\ N["actions"] = h.actions
       /\ N["observed"] = NormalSeq(h.observed)
  BY <1>1
<1>29. decode_hello(s) = MessageFieldsOf(lay, s, 1)
  BY DEF decode_hello, decode, MessageFieldsOf
<1> HIDE DEF lay, c, N
<1>30. \A i \in 1..7 : i = 1 \/ i = 2 \/ i = 3 \/ i = 4 \/ i = 5 \/ i = 6 \/ i = 7
  OBVIOUS
<1>31. Covers(lay, 7, N)
  <2>1. {lay[i] : i \in 1..7} = DOMAIN h
    BY <1>1, <1>26, <1>30
  <2> QED
    BY <1>28, <2>1, Zenon DEF Covers
<1>32. ReadMessageField(lay[1], s, c[0]) = Got(N[lay[1]], c[1])
  BY <1>19, <1>26, <1>27, <1>28, Zenon
<1>33. ReadMessageField(lay[2], s, c[1]) = Got(N[lay[2]], c[2])
  BY <1>20, <1>26, <1>27, <1>28, Zenon
<1>34. ReadMessageField(lay[3], s, c[2]) = Got(N[lay[3]], c[3])
  BY <1>21, <1>26, <1>27, <1>28, Zenon
<1>35. ReadMessageField(lay[4], s, c[3]) = Got(N[lay[4]], c[4])
  BY <1>22, <1>26, <1>27, <1>28, Zenon
<1>36. Bounded(ReadMessageField(lay[5], s, c[4]), Len(h.devices), MaxItems, N[lay[5]], c[5])
  BY <1>23, <1>26, <1>27, <1>28, Zenon
<1>37. Bounded(ReadMessageField(lay[6], s, c[5]), Len(h.actions), MaxActions, N[lay[6]], c[6])
  BY <1>24, <1>26, <1>27, <1>28, Zenon
<1>38. Bounded(ReadMessageField(lay[7], s, c[6]), Len(h.observed), MaxItems, N[lay[7]], c[7])
  BY <1>25, <1>26, <1>27, <1>28, Zenon
<1>39. ASSUME ~(Len(h.devices) <= MaxItems)
       PROVE  MessageFieldsOf(lay, s, 1) = Refused
  <2>1. \A i \in 1..7 : i < 5 => ReadMessageField(lay[i], s, c[i - 1]) = Got(N[lay[i]], c[i])
    <3> SUFFICES ASSUME NEW i \in 1..7, i < 5
                 PROVE  ReadMessageField(lay[i], s, c[i - 1]) = Got(N[lay[i]], c[i])
      OBVIOUS
    <3>1. CASE i = 1
      <4>1. i - 1 = 0
        BY <3>1
      <4> QED
        BY <1>32, <3>1, <4>1, Zenon
    <3>2. CASE i = 2
      <4>1. i - 1 = 1
        BY <3>2
      <4> QED
        BY <1>33, <3>2, <4>1, Zenon
    <3>3. CASE i = 3
      <4>1. i - 1 = 2
        BY <3>3
      <4> QED
        BY <1>34, <3>3, <4>1, Zenon
    <3>4. CASE i = 4
      <4>1. i - 1 = 3
        BY <3>4
      <4> QED
        BY <1>35, <3>4, <4>1, Zenon
    <3>5. i = 1 \/ i = 2 \/ i = 3 \/ i = 4
      BY <1>30
    <3> QED
      BY <3>1, <3>2, <3>3, <3>4, <3>5, Zenon
  <2>2. ReadMessageField(lay[5], s, c[5 - 1]) = Refused
    <3>1. 5 - 1 = 4
      OBVIOUS
    <3> QED
      BY <1>39, <1>36, <3>1, Zenon DEF Bounded
  <2>3. MessageCut(lay, 7, N, s, 1, c, 5)
    BY <1>26, <1>27, <1>31, <2>1, <2>2 DEF MessageCut
  <2>4. MessageFieldsOf(lay, s, 1) = IF 5 <= 7 THEN Refused ELSE Got(N, c[7])
    BY <2>3, FieldsMessage
  <2> QED
    BY <1>27, <2>4
<1>40. ASSUME Len(h.devices) <= MaxItems, ~(Len(h.actions) <= MaxActions)
       PROVE  MessageFieldsOf(lay, s, 1) = Refused
  <2>1. ReadMessageField(lay[5], s, c[4]) = Got(N[lay[5]], c[5])
    BY <1>40, <1>36, Zenon DEF Bounded
  <2>2. \A i \in 1..7 : i < 6 => ReadMessageField(lay[i], s, c[i - 1]) = Got(N[lay[i]], c[i])
    <3> SUFFICES ASSUME NEW i \in 1..7, i < 6
                 PROVE  ReadMessageField(lay[i], s, c[i - 1]) = Got(N[lay[i]], c[i])
      OBVIOUS
    <3>1. CASE i = 1
      <4>1. i - 1 = 0
        BY <3>1
      <4> QED
        BY <1>32, <3>1, <4>1, Zenon
    <3>2. CASE i = 2
      <4>1. i - 1 = 1
        BY <3>2
      <4> QED
        BY <1>33, <3>2, <4>1, Zenon
    <3>3. CASE i = 3
      <4>1. i - 1 = 2
        BY <3>3
      <4> QED
        BY <1>34, <3>3, <4>1, Zenon
    <3>4. CASE i = 4
      <4>1. i - 1 = 3
        BY <3>4
      <4> QED
        BY <1>35, <3>4, <4>1, Zenon
    <3>5. CASE i = 5
      <4>1. i - 1 = 4
        BY <3>5
      <4> QED
        BY <2>1, <3>5, <4>1, Zenon
    <3>6. i = 1 \/ i = 2 \/ i = 3 \/ i = 4 \/ i = 5
      BY <1>30
    <3> QED
      BY <3>1, <3>2, <3>3, <3>4, <3>5, <3>6, Zenon
  <2>3. ReadMessageField(lay[6], s, c[6 - 1]) = Refused
    <3>1. 6 - 1 = 5
      OBVIOUS
    <3> QED
      BY <1>40, <1>37, <3>1, Zenon DEF Bounded
  <2>4. MessageCut(lay, 7, N, s, 1, c, 6)
    BY <1>26, <1>27, <1>31, <2>2, <2>3 DEF MessageCut
  <2>5. MessageFieldsOf(lay, s, 1) = IF 6 <= 7 THEN Refused ELSE Got(N, c[7])
    BY <2>4, FieldsMessage
  <2> QED
    BY <1>27, <2>5
<1>41. ASSUME Len(h.devices) <= MaxItems, Len(h.actions) <= MaxActions, ~(Len(h.observed) <= MaxItems)
       PROVE  MessageFieldsOf(lay, s, 1) = Refused
  <2>1. ReadMessageField(lay[5], s, c[4]) = Got(N[lay[5]], c[5])
    BY <1>41, <1>36, Zenon DEF Bounded
  <2>2. ReadMessageField(lay[6], s, c[5]) = Got(N[lay[6]], c[6])
    BY <1>41, <1>37, Zenon DEF Bounded
  <2>3. \A i \in 1..7 : i < 7 => ReadMessageField(lay[i], s, c[i - 1]) = Got(N[lay[i]], c[i])
    <3> SUFFICES ASSUME NEW i \in 1..7, i < 7
                 PROVE  ReadMessageField(lay[i], s, c[i - 1]) = Got(N[lay[i]], c[i])
      OBVIOUS
    <3>1. CASE i = 1
      <4>1. i - 1 = 0
        BY <3>1
      <4> QED
        BY <1>32, <3>1, <4>1, Zenon
    <3>2. CASE i = 2
      <4>1. i - 1 = 1
        BY <3>2
      <4> QED
        BY <1>33, <3>2, <4>1, Zenon
    <3>3. CASE i = 3
      <4>1. i - 1 = 2
        BY <3>3
      <4> QED
        BY <1>34, <3>3, <4>1, Zenon
    <3>4. CASE i = 4
      <4>1. i - 1 = 3
        BY <3>4
      <4> QED
        BY <1>35, <3>4, <4>1, Zenon
    <3>5. CASE i = 5
      <4>1. i - 1 = 4
        BY <3>5
      <4> QED
        BY <2>1, <3>5, <4>1, Zenon
    <3>6. CASE i = 6
      <4>1. i - 1 = 5
        BY <3>6
      <4> QED
        BY <2>2, <3>6, <4>1, Zenon
    <3>7. i = 1 \/ i = 2 \/ i = 3 \/ i = 4 \/ i = 5 \/ i = 6
      BY <1>30
    <3> QED
      BY <3>1, <3>2, <3>3, <3>4, <3>5, <3>6, <3>7, Zenon
  <2>4. ReadMessageField(lay[7], s, c[7 - 1]) = Refused
    <3>1. 7 - 1 = 6
      OBVIOUS
    <3> QED
      BY <1>41, <1>38, <3>1, Zenon DEF Bounded
  <2>5. MessageCut(lay, 7, N, s, 1, c, 7)
    BY <1>26, <1>27, <1>31, <2>3, <2>4 DEF MessageCut
  <2>6. MessageFieldsOf(lay, s, 1) = IF 7 <= 7 THEN Refused ELSE Got(N, c[7])
    BY <2>5, FieldsMessage
  <2> QED
    BY <1>27, <2>6
<1>42. ASSUME Len(h.devices) <= MaxItems, Len(h.actions) <= MaxActions, Len(h.observed) <= MaxItems
       PROVE  MessageFieldsOf(lay, s, 1) = Got(N, b)
  <2>1. ReadMessageField(lay[5], s, c[4]) = Got(N[lay[5]], c[5])
    BY <1>42, <1>36, Zenon DEF Bounded
  <2>2. ReadMessageField(lay[6], s, c[5]) = Got(N[lay[6]], c[6])
    BY <1>42, <1>37, Zenon DEF Bounded
  <2>3. ReadMessageField(lay[7], s, c[6]) = Got(N[lay[7]], c[7])
    BY <1>42, <1>38, Zenon DEF Bounded
  <2>4. \A i \in 1..7 : i < 8 => ReadMessageField(lay[i], s, c[i - 1]) = Got(N[lay[i]], c[i])
    <3> SUFFICES ASSUME NEW i \in 1..7, i < 8
                 PROVE  ReadMessageField(lay[i], s, c[i - 1]) = Got(N[lay[i]], c[i])
      OBVIOUS
    <3>1. CASE i = 1
      <4>1. i - 1 = 0
        BY <3>1
      <4> QED
        BY <1>32, <3>1, <4>1, Zenon
    <3>2. CASE i = 2
      <4>1. i - 1 = 1
        BY <3>2
      <4> QED
        BY <1>33, <3>2, <4>1, Zenon
    <3>3. CASE i = 3
      <4>1. i - 1 = 2
        BY <3>3
      <4> QED
        BY <1>34, <3>3, <4>1, Zenon
    <3>4. CASE i = 4
      <4>1. i - 1 = 3
        BY <3>4
      <4> QED
        BY <1>35, <3>4, <4>1, Zenon
    <3>5. CASE i = 5
      <4>1. i - 1 = 4
        BY <3>5
      <4> QED
        BY <2>1, <3>5, <4>1, Zenon
    <3>6. CASE i = 6
      <4>1. i - 1 = 5
        BY <3>6
      <4> QED
        BY <2>2, <3>6, <4>1, Zenon
    <3>7. CASE i = 7
      <4>1. i - 1 = 6
        BY <3>7
      <4> QED
        BY <2>3, <3>7, <4>1, Zenon
    <3>8. i = 1 \/ i = 2 \/ i = 3 \/ i = 4 \/ i = 5 \/ i = 6 \/ i = 7
      BY <1>30
    <3> QED
      BY <3>1, <3>2, <3>3, <3>4, <3>5, <3>6, <3>7, <3>8, Zenon
  <2>5. MessageCut(lay, 7, N, s, 1, c, 8)
    BY <1>26, <1>27, <1>31, <2>4 DEF MessageCut
  <2>6. MessageFieldsOf(lay, s, 1) = IF 8 <= 7 THEN Refused ELSE Got(N, c[7])
    BY <2>5, FieldsMessage
  <2> QED
    BY <1>27, <2>6
<1> QED
  BY <1>39, <1>40, <1>41, <1>42, <1>29 DEF N

LEMMA HelloAckFields ==
  ASSUME NEW h, h \in HelloAcks
  PROVE  /\ h.accepted \in BOOLEAN /\ h.reason \in Nats /\ h.epoch \in Nat
         /\ h.warmth_gen \in Nat /\ h.dep_gen \in Nat /\ h.policy_gen \in Nat
         /\ DOMAIN h = {"accepted", "reason", "epoch", "warmth_gen", "dep_gen", "policy_gen"}
         /\ h = [x \in DOMAIN h |-> h[x]]
<1> USE DEF HelloAcks, Strings, Nats
<1>1. h.accepted \in BOOLEAN
  OBVIOUS
<1>2. h.reason \in Nats
  OBVIOUS
<1>3. h.epoch \in Nat
  OBVIOUS
<1>4. h.warmth_gen \in Nat
  OBVIOUS
<1>5. h.dep_gen \in Nat
  OBVIOUS
<1>6. h.policy_gen \in Nat
  OBVIOUS
<1>7. DOMAIN h = {"accepted", "reason", "epoch", "warmth_gen", "dep_gen", "policy_gen"}
  OBVIOUS
<1>8. h = [x \in DOMAIN h |-> h[x]]
  OBVIOUS
<1> QED
  BY <1>1, <1>2, <1>3, <1>4, <1>5, <1>6, <1>7, <1>8, Zenon

LEMMA HelloAckReads ==
  ASSUME NEW h, h \in HelloAcks, NEW s, NEW b, Spans(s, 1, b, encode_hello_ack(h))
  PROVE  decode_hello_ack(s) = Got(h, b)
<1>1. /\ h.accepted \in BOOLEAN /\ h.reason \in Nats /\ h.epoch \in Nat /\ h.warmth_gen \in Nat
      /\ h.dep_gen \in Nat /\ h.policy_gen \in Nat
      /\ DOMAIN h = {"accepted", "reason", "epoch", "warmth_gen", "dep_gen", "policy_gen"}
      /\ h = [x \in DOMAIN h |-> h[x]]
  BY HelloAckFields, Zenon
<1>2. Flag(h.accepted) \in Nats
  BY <1>1, FlagType, Zenon
<1>3. Str(h.reason) \in Nats
  BY <1>1, StrType, Zenon
<1>4. <<h.epoch, h.warmth_gen, h.dep_gen, h.policy_gen>> \in Nats
  BY <1>1 DEF Nats
<1>5. PICK e1 \in Nats, e2 \in Nats, e3 \in Nats :
        /\ e1 = Flag(h.accepted)
        /\ e2 = Str(h.reason)
        /\ e3 = <<h.epoch, h.warmth_gen, h.dep_gen, h.policy_gen>>
  BY <1>2, <1>3, <1>4, Zenon
<1>6. Spans(s, 1, b, e1 \o e2 \o e3)
  BY <1>5 DEF encode_hello_ack, CmdsOf
<1>7. PICK m3 : Spans(s, 1, m3, e1 \o e2) /\ Spans(s, m3, b, e3)
  <2>1. PICK p \in Nats : p = e1 \o e2
    BY NatsCat
  <2>2. Spans(s, 1, b, p \o e3)
    BY <1>6, <2>1
  <2>3. \E m : Spans(s, 1, m, p) /\ Spans(s, m, b, e3)
    BY <2>2, SpansCat
  <2> QED
    BY <2>1, <2>3
<1>8. PICK m2 : Spans(s, 1, m2, e1) /\ Spans(s, m2, m3, e2)
  BY <1>7, SpansCat
<1>9. Spans(s, 1, m2, Flag(h.accepted))
  BY <1>5, <1>8, Zenon
<1>10. Spans(s, m2, m3, Str(h.reason))
  BY <1>5, <1>8, Zenon
<1>11. Spans(s, m3, b, <<h.epoch, h.warmth_gen, h.dep_gen, h.policy_gen>>)
  BY <1>5, <1>7, Zenon
<1>12. PICK x31, x32, x33 :
         /\ Spans(s, m3, x31, <<h.epoch>>)
         /\ Spans(s, x31, x32, <<h.warmth_gen>>)
         /\ Spans(s, x32, x33, <<h.dep_gen>>)
         /\ Spans(s, x33, b, <<h.policy_gen>>)
  BY <1>11, Four, Zenon
<1>13. ReadMessageField("accepted", s, 1) = Got(h.accepted, m2)
  <2>1. Spans(s, 1, m2, Flag(h.accepted))
    BY <1>9, Zenon
  <2>2. h.accepted \in BOOLEAN
    BY <1>1, Zenon
  <2> QED
    BY <2>1, <2>2, SentFlag, Zenon
<1>14. ReadMessageField("reason", s, m2) = Got(h.reason, m3)
  <2>1. Spans(s, m2, m3, Str(h.reason))
    BY <1>10, Zenon
  <2>2. h.reason \in Nats
    BY <1>1, Zenon
  <2> QED
    BY <2>1, <2>2, SentStr, Zenon
<1>15. ReadMessageField("epoch", s, m3) = Got(h.epoch, x31)
  <2>1. Spans(s, m3, x31, <<h.epoch>>)
    BY <1>12, Zenon
  <2> QED
    BY <2>1, SentWord, Zenon
<1>16. ReadMessageField("warmth_gen", s, x31) = Got(h.warmth_gen, x32)
  <2>1. Spans(s, x31, x32, <<h.warmth_gen>>)
    BY <1>12, Zenon
  <2> QED
    BY <2>1, SentWord, Zenon
<1>17. ReadMessageField("dep_gen", s, x32) = Got(h.dep_gen, x33)
  <2>1. Spans(s, x32, x33, <<h.dep_gen>>)
    BY <1>12, Zenon
  <2> QED
    BY <2>1, SentWord, Zenon
<1>18. ReadMessageField("policy_gen", s, x33) = Got(h.policy_gen, b)
  <2>1. Spans(s, x33, b, <<h.policy_gen>>)
    BY <1>12, Zenon
  <2> QED
    BY <2>1, SentWord, Zenon
<1> DEFINE lay == <<"accepted", "reason", "epoch", "warmth_gen", "dep_gen", "policy_gen">>
           N == h
           t == <<1, m2, m3, x31, x32, x33, b>>
           c == [i \in 0..6 |-> t[i + 1]]
<1>19. /\ Len(lay) = 6 /\ lay[1] = "accepted" /\ lay[2] = "reason" /\ lay[3] = "epoch"
       /\ lay[4] = "warmth_gen" /\ lay[5] = "dep_gen" /\ lay[6] = "policy_gen"
  OBVIOUS
<1>20. /\ c[0] = 1 /\ c[1] = m2 /\ c[2] = m3 /\ c[3] = x31 /\ c[4] = x32 /\ c[5] = x33
       /\ c[6] = b
  OBVIOUS
<1>21. /\ DOMAIN N = DOMAIN h /\ N = [x \in DOMAIN N |-> N[x]]
       /\ N["accepted"] = h.accepted /\ N["reason"] = h.reason /\ N["epoch"] = h.epoch
       /\ N["warmth_gen"] = h.warmth_gen /\ N["dep_gen"] = h.dep_gen
       /\ N["policy_gen"] = h.policy_gen
  BY <1>1
<1>22. decode_hello_ack(s) = MessageFieldsOf(lay, s, 1)
  BY DEF decode_hello_ack, decode, MessageFieldsOf
<1> HIDE DEF lay, c, N
<1>23. \A i \in 1..6 : i = 1 \/ i = 2 \/ i = 3 \/ i = 4 \/ i = 5 \/ i = 6
  OBVIOUS
<1>24. Covers(lay, 6, N)
  <2>1. {lay[i] : i \in 1..6} = DOMAIN h
    BY <1>1, <1>19, <1>23
  <2> QED
    BY <1>21, <2>1, Zenon DEF Covers
<1>25. ReadMessageField(lay[1], s, c[0]) = Got(N[lay[1]], c[1])
  BY <1>13, <1>19, <1>20, <1>21, Zenon
<1>26. ReadMessageField(lay[2], s, c[1]) = Got(N[lay[2]], c[2])
  BY <1>14, <1>19, <1>20, <1>21, Zenon
<1>27. ReadMessageField(lay[3], s, c[2]) = Got(N[lay[3]], c[3])
  BY <1>15, <1>19, <1>20, <1>21, Zenon
<1>28. ReadMessageField(lay[4], s, c[3]) = Got(N[lay[4]], c[4])
  BY <1>16, <1>19, <1>20, <1>21, Zenon
<1>29. ReadMessageField(lay[5], s, c[4]) = Got(N[lay[5]], c[5])
  BY <1>17, <1>19, <1>20, <1>21, Zenon
<1>30. ReadMessageField(lay[6], s, c[5]) = Got(N[lay[6]], c[6])
  BY <1>18, <1>19, <1>20, <1>21, Zenon
<1>31. MessageFieldsOf(lay, s, 1) = Got(N, b)
  <2>1. \A i \in 1..6 : i < 7 => ReadMessageField(lay[i], s, c[i - 1]) = Got(N[lay[i]], c[i])
    <3> SUFFICES ASSUME NEW i \in 1..6, i < 7
                 PROVE  ReadMessageField(lay[i], s, c[i - 1]) = Got(N[lay[i]], c[i])
      OBVIOUS
    <3>1. CASE i = 1
      <4>1. i - 1 = 0
        BY <3>1
      <4> QED
        BY <1>25, <3>1, <4>1, Zenon
    <3>2. CASE i = 2
      <4>1. i - 1 = 1
        BY <3>2
      <4> QED
        BY <1>26, <3>2, <4>1, Zenon
    <3>3. CASE i = 3
      <4>1. i - 1 = 2
        BY <3>3
      <4> QED
        BY <1>27, <3>3, <4>1, Zenon
    <3>4. CASE i = 4
      <4>1. i - 1 = 3
        BY <3>4
      <4> QED
        BY <1>28, <3>4, <4>1, Zenon
    <3>5. CASE i = 5
      <4>1. i - 1 = 4
        BY <3>5
      <4> QED
        BY <1>29, <3>5, <4>1, Zenon
    <3>6. CASE i = 6
      <4>1. i - 1 = 5
        BY <3>6
      <4> QED
        BY <1>30, <3>6, <4>1, Zenon
    <3>7. i = 1 \/ i = 2 \/ i = 3 \/ i = 4 \/ i = 5 \/ i = 6
      BY <1>23
    <3> QED
      BY <3>1, <3>2, <3>3, <3>4, <3>5, <3>6, <3>7, Zenon
  <2>2. MessageCut(lay, 6, N, s, 1, c, 7)
    BY <1>19, <1>20, <1>24, <2>1 DEF MessageCut
  <2>3. MessageFieldsOf(lay, s, 1) = IF 7 <= 6 THEN Refused ELSE Got(N, c[6])
    BY <2>2, FieldsMessage
  <2> QED
    BY <1>20, <2>3
<1> QED
  BY <1>31, <1>22 DEF N

LEMMA ReportFields ==
  ASSUME NEW h, IsReport(h)
  PROVE  /\ h.boot \in Nat /\ h.epoch \in Nat /\ h.warmth_gen \in Nat /\ h.dep_gen \in Nat
         /\ AreObjects(h.objects)
         /\ DOMAIN h = {"boot", "epoch", "warmth_gen", "dep_gen", "objects"}
         /\ h = [x \in DOMAIN h |-> h[x]]
<1> USE DEF IsReport, Strings, Nats
<1>1. h.boot \in Nat
  OBVIOUS
<1>2. h.epoch \in Nat
  OBVIOUS
<1>3. h.warmth_gen \in Nat
  OBVIOUS
<1>4. h.dep_gen \in Nat
  OBVIOUS
<1>5. AreObjects(h.objects)
  OBVIOUS
<1>6. DOMAIN h = {"boot", "epoch", "warmth_gen", "dep_gen", "objects"}
  OBVIOUS
<1>7. h = [x \in DOMAIN h |-> h[x]]
  OBVIOUS
<1> QED
  BY <1>1, <1>2, <1>3, <1>4, <1>5, <1>6, <1>7, Zenon

LEMMA ReportReads ==
  ASSUME NEW h, IsReport(h), NEW s, NEW b, Spans(s, 1, b, encode_report(h))
  PROVE  decode_report(s) =
           IF Len(h.objects) <= MaxItems
           THEN Got([h EXCEPT !.objects = NormalSeq(@)], b) ELSE Refused
<1>1. /\ h.boot \in Nat /\ h.epoch \in Nat /\ h.warmth_gen \in Nat /\ h.dep_gen \in Nat
      /\ AreObjects(h.objects)
      /\ DOMAIN h = {"boot", "epoch", "warmth_gen", "dep_gen", "objects"}
      /\ h = [x \in DOMAIN h |-> h[x]]
  BY ReportFields, Zenon
<1>2. <<h.boot, h.epoch, h.warmth_gen, h.dep_gen>> \in Nats
  BY <1>1 DEF Nats
<1>3. List(h.objects, encode_object) \in Nats
  BY <1>1, ObjectsType, Zenon
<1>4. PICK e1 \in Nats, e2 \in Nats :
        /\ e1 = <<h.boot, h.epoch, h.warmth_gen, h.dep_gen>>
        /\ e2 = List(h.objects, encode_object)
  BY <1>2, <1>3, Zenon
<1>5. Spans(s, 1, b, e1 \o e2)
  BY <1>4 DEF encode_report, CmdsOf
<1>6. PICK m2 : Spans(s, 1, m2, e1) /\ Spans(s, m2, b, e2)
  BY <1>5, SpansCat
<1>7. Spans(s, 1, m2, <<h.boot, h.epoch, h.warmth_gen, h.dep_gen>>)
  BY <1>4, <1>6, Zenon
<1>8. PICK x11, x12, x13 :
         /\ Spans(s, 1, x11, <<h.boot>>)
         /\ Spans(s, x11, x12, <<h.epoch>>)
         /\ Spans(s, x12, x13, <<h.warmth_gen>>)
         /\ Spans(s, x13, m2, <<h.dep_gen>>)
  BY <1>7, Four, Zenon
<1>9. Spans(s, m2, b, List(h.objects, encode_object))
  BY <1>4, <1>6, Zenon
<1>10. ReadMessageField("boot", s, 1) = Got(h.boot, x11)
  <2>1. Spans(s, 1, x11, <<h.boot>>)
    BY <1>8, Zenon
  <2> QED
    BY <2>1, SentWord, Zenon
<1>11. ReadMessageField("epoch", s, x11) = Got(h.epoch, x12)
  <2>1. Spans(s, x11, x12, <<h.epoch>>)
    BY <1>8, Zenon
  <2> QED
    BY <2>1, SentWord, Zenon
<1>12. ReadMessageField("warmth_gen", s, x12) = Got(h.warmth_gen, x13)
  <2>1. Spans(s, x12, x13, <<h.warmth_gen>>)
    BY <1>8, Zenon
  <2> QED
    BY <2>1, SentWord, Zenon
<1>13. ReadMessageField("dep_gen", s, x13) = Got(h.dep_gen, m2)
  <2>1. Spans(s, x13, m2, <<h.dep_gen>>)
    BY <1>8, Zenon
  <2> QED
    BY <2>1, SentWord, Zenon
<1>14. Bounded(ReadMessageField("objects", s, m2), Len(h.objects), MaxItems, NormalSeq(h.objects), b)
  <2>1. Spans(s, m2, b, List(h.objects, encode_object))
    BY <1>9, Zenon
  <2>2. AreObjects(h.objects)
    BY <1>1, Zenon
  <2> QED
    BY <2>1, <2>2, SentObjects, Zenon
<1> DEFINE lay == <<"boot", "epoch", "warmth_gen", "dep_gen", "objects">>
           N == [h EXCEPT !.objects = NormalSeq(@)]
           t == <<1, x11, x12, x13, m2, b>>
           c == [i \in 0..5 |-> t[i + 1]]
<1>15. /\ Len(lay) = 5 /\ lay[1] = "boot" /\ lay[2] = "epoch" /\ lay[3] = "warmth_gen"
       /\ lay[4] = "dep_gen" /\ lay[5] = "objects"
  OBVIOUS
<1>16. /\ c[0] = 1 /\ c[1] = x11 /\ c[2] = x12 /\ c[3] = x13 /\ c[4] = m2 /\ c[5] = b
  OBVIOUS
<1>17. /\ DOMAIN N = DOMAIN h /\ N = [x \in DOMAIN N |-> N[x]]
       /\ N["boot"] = h.boot /\ N["epoch"] = h.epoch /\ N["warmth_gen"] = h.warmth_gen
       /\ N["dep_gen"] = h.dep_gen /\ N["objects"] = NormalSeq(h.objects)
  BY <1>1
<1>18. decode_report(s) = MessageFieldsOf(lay, s, 1)
  BY DEF decode_report, decode, MessageFieldsOf
<1> HIDE DEF lay, c, N
<1>19. \A i \in 1..5 : i = 1 \/ i = 2 \/ i = 3 \/ i = 4 \/ i = 5
  OBVIOUS
<1>20. Covers(lay, 5, N)
  <2>1. {lay[i] : i \in 1..5} = DOMAIN h
    BY <1>1, <1>15, <1>19
  <2> QED
    BY <1>17, <2>1, Zenon DEF Covers
<1>21. ReadMessageField(lay[1], s, c[0]) = Got(N[lay[1]], c[1])
  BY <1>10, <1>15, <1>16, <1>17, Zenon
<1>22. ReadMessageField(lay[2], s, c[1]) = Got(N[lay[2]], c[2])
  BY <1>11, <1>15, <1>16, <1>17, Zenon
<1>23. ReadMessageField(lay[3], s, c[2]) = Got(N[lay[3]], c[3])
  BY <1>12, <1>15, <1>16, <1>17, Zenon
<1>24. ReadMessageField(lay[4], s, c[3]) = Got(N[lay[4]], c[4])
  BY <1>13, <1>15, <1>16, <1>17, Zenon
<1>25. Bounded(ReadMessageField(lay[5], s, c[4]), Len(h.objects), MaxItems, N[lay[5]], c[5])
  BY <1>14, <1>15, <1>16, <1>17, Zenon
<1>26. ASSUME ~(Len(h.objects) <= MaxItems)
       PROVE  MessageFieldsOf(lay, s, 1) = Refused
  <2>1. \A i \in 1..5 : i < 5 => ReadMessageField(lay[i], s, c[i - 1]) = Got(N[lay[i]], c[i])
    <3> SUFFICES ASSUME NEW i \in 1..5, i < 5
                 PROVE  ReadMessageField(lay[i], s, c[i - 1]) = Got(N[lay[i]], c[i])
      OBVIOUS
    <3>1. CASE i = 1
      <4>1. i - 1 = 0
        BY <3>1
      <4> QED
        BY <1>21, <3>1, <4>1, Zenon
    <3>2. CASE i = 2
      <4>1. i - 1 = 1
        BY <3>2
      <4> QED
        BY <1>22, <3>2, <4>1, Zenon
    <3>3. CASE i = 3
      <4>1. i - 1 = 2
        BY <3>3
      <4> QED
        BY <1>23, <3>3, <4>1, Zenon
    <3>4. CASE i = 4
      <4>1. i - 1 = 3
        BY <3>4
      <4> QED
        BY <1>24, <3>4, <4>1, Zenon
    <3>5. i = 1 \/ i = 2 \/ i = 3 \/ i = 4
      BY <1>19
    <3> QED
      BY <3>1, <3>2, <3>3, <3>4, <3>5, Zenon
  <2>2. ReadMessageField(lay[5], s, c[5 - 1]) = Refused
    <3>1. 5 - 1 = 4
      OBVIOUS
    <3> QED
      BY <1>26, <1>25, <3>1, Zenon DEF Bounded
  <2>3. MessageCut(lay, 5, N, s, 1, c, 5)
    BY <1>15, <1>16, <1>20, <2>1, <2>2 DEF MessageCut
  <2>4. MessageFieldsOf(lay, s, 1) = IF 5 <= 5 THEN Refused ELSE Got(N, c[5])
    BY <2>3, FieldsMessage
  <2> QED
    BY <1>16, <2>4
<1>27. ASSUME Len(h.objects) <= MaxItems
       PROVE  MessageFieldsOf(lay, s, 1) = Got(N, b)
  <2>1. ReadMessageField(lay[5], s, c[4]) = Got(N[lay[5]], c[5])
    BY <1>27, <1>25, Zenon DEF Bounded
  <2>2. \A i \in 1..5 : i < 6 => ReadMessageField(lay[i], s, c[i - 1]) = Got(N[lay[i]], c[i])
    <3> SUFFICES ASSUME NEW i \in 1..5, i < 6
                 PROVE  ReadMessageField(lay[i], s, c[i - 1]) = Got(N[lay[i]], c[i])
      OBVIOUS
    <3>1. CASE i = 1
      <4>1. i - 1 = 0
        BY <3>1
      <4> QED
        BY <1>21, <3>1, <4>1, Zenon
    <3>2. CASE i = 2
      <4>1. i - 1 = 1
        BY <3>2
      <4> QED
        BY <1>22, <3>2, <4>1, Zenon
    <3>3. CASE i = 3
      <4>1. i - 1 = 2
        BY <3>3
      <4> QED
        BY <1>23, <3>3, <4>1, Zenon
    <3>4. CASE i = 4
      <4>1. i - 1 = 3
        BY <3>4
      <4> QED
        BY <1>24, <3>4, <4>1, Zenon
    <3>5. CASE i = 5
      <4>1. i - 1 = 4
        BY <3>5
      <4> QED
        BY <2>1, <3>5, <4>1, Zenon
    <3>6. i = 1 \/ i = 2 \/ i = 3 \/ i = 4 \/ i = 5
      BY <1>19
    <3> QED
      BY <3>1, <3>2, <3>3, <3>4, <3>5, <3>6, Zenon
  <2>3. MessageCut(lay, 5, N, s, 1, c, 6)
    BY <1>15, <1>16, <1>20, <2>2 DEF MessageCut
  <2>4. MessageFieldsOf(lay, s, 1) = IF 6 <= 5 THEN Refused ELSE Got(N, c[5])
    BY <2>3, FieldsMessage
  <2> QED
    BY <1>16, <2>4
<1> QED
  BY <1>26, <1>27, <1>18 DEF N

LEMMA WarmTopicFields ==
  ASSUME NEW h, h \in WarmTopics
  PROVE  /\ h.epoch \in Nat /\ h.warmth_gen \in Nat /\ h.cmds \in Seq(Commands)
         /\ DOMAIN h = {"epoch", "warmth_gen", "cmds"}
         /\ h = [x \in DOMAIN h |-> h[x]]
<1> USE DEF WarmTopics, Strings, Nats
<1>1. h.epoch \in Nat
  OBVIOUS
<1>2. h.warmth_gen \in Nat
  OBVIOUS
<1>3. h.cmds \in Seq(Commands)
  OBVIOUS
<1>4. DOMAIN h = {"epoch", "warmth_gen", "cmds"}
  OBVIOUS
<1>5. h = [x \in DOMAIN h |-> h[x]]
  OBVIOUS
<1> QED
  BY <1>1, <1>2, <1>3, <1>4, <1>5, Zenon

LEMMA WarmTopicReads ==
  ASSUME NEW h, h \in WarmTopics, NEW s, NEW b, Spans(s, 1, b, encode_warm_topic(h))
  PROVE  decode_warm_topic(s) =
           IF Len(h.cmds) <= MaxItems
           THEN Got(h, b) ELSE Refused
<1>1. /\ h.epoch \in Nat /\ h.warmth_gen \in Nat /\ h.cmds \in Seq(Commands)
      /\ DOMAIN h = {"epoch", "warmth_gen", "cmds"}
      /\ h = [x \in DOMAIN h |-> h[x]]
  BY WarmTopicFields, Zenon
<1>2. <<h.epoch, h.warmth_gen>> \in Nats
  BY <1>1 DEF Nats
<1>3. CmdsOf(h.cmds) \in Nats
  BY <1>1, CmdsType, Zenon
<1>4. PICK e1 \in Nats, e2 \in Nats :
        /\ e1 = <<h.epoch, h.warmth_gen>>
        /\ e2 = CmdsOf(h.cmds)
  BY <1>2, <1>3, Zenon
<1>5. Spans(s, 1, b, e1 \o e2)
  BY <1>4 DEF encode_warm_topic, CmdsOf
<1>6. PICK m2 : Spans(s, 1, m2, e1) /\ Spans(s, m2, b, e2)
  BY <1>5, SpansCat
<1>7. Spans(s, 1, m2, <<h.epoch, h.warmth_gen>>)
  BY <1>4, <1>6, Zenon
<1>8. PICK x11 :
         /\ Spans(s, 1, x11, <<h.epoch>>)
         /\ Spans(s, x11, m2, <<h.warmth_gen>>)
  BY <1>7, Two, Zenon
<1>9. Spans(s, m2, b, CmdsOf(h.cmds))
  BY <1>4, <1>6, Zenon
<1>10. ReadMessageField("epoch", s, 1) = Got(h.epoch, x11)
  <2>1. Spans(s, 1, x11, <<h.epoch>>)
    BY <1>8, Zenon
  <2> QED
    BY <2>1, SentWord, Zenon
<1>11. ReadMessageField("warmth_gen", s, x11) = Got(h.warmth_gen, m2)
  <2>1. Spans(s, x11, m2, <<h.warmth_gen>>)
    BY <1>8, Zenon
  <2> QED
    BY <2>1, SentWord, Zenon
<1>12. Bounded(ReadMessageField("cmds", s, m2), Len(h.cmds), MaxItems, h.cmds, b)
  <2>1. Spans(s, m2, b, CmdsOf(h.cmds))
    BY <1>9, Zenon
  <2>2. h.cmds \in Seq(Commands)
    BY <1>1, Zenon
  <2> QED
    BY <2>1, <2>2, SentCmds, Zenon
<1> DEFINE lay == <<"epoch", "warmth_gen", "cmds">>
           N == h
           t == <<1, x11, m2, b>>
           c == [i \in 0..3 |-> t[i + 1]]
<1>13. /\ Len(lay) = 3 /\ lay[1] = "epoch" /\ lay[2] = "warmth_gen" /\ lay[3] = "cmds"
  OBVIOUS
<1>14. /\ c[0] = 1 /\ c[1] = x11 /\ c[2] = m2 /\ c[3] = b
  OBVIOUS
<1>15. /\ DOMAIN N = DOMAIN h /\ N = [x \in DOMAIN N |-> N[x]]
       /\ N["epoch"] = h.epoch /\ N["warmth_gen"] = h.warmth_gen /\ N["cmds"] = h.cmds
  BY <1>1
<1>16. decode_warm_topic(s) = MessageFieldsOf(lay, s, 1)
  BY DEF decode_warm_topic, decode, MessageFieldsOf
<1> HIDE DEF lay, c, N
<1>17. \A i \in 1..3 : i = 1 \/ i = 2 \/ i = 3
  OBVIOUS
<1>18. Covers(lay, 3, N)
  <2>1. {lay[i] : i \in 1..3} = DOMAIN h
    BY <1>1, <1>13, <1>17
  <2> QED
    BY <1>15, <2>1, Zenon DEF Covers
<1>19. ReadMessageField(lay[1], s, c[0]) = Got(N[lay[1]], c[1])
  BY <1>10, <1>13, <1>14, <1>15, Zenon
<1>20. ReadMessageField(lay[2], s, c[1]) = Got(N[lay[2]], c[2])
  BY <1>11, <1>13, <1>14, <1>15, Zenon
<1>21. Bounded(ReadMessageField(lay[3], s, c[2]), Len(h.cmds), MaxItems, N[lay[3]], c[3])
  BY <1>12, <1>13, <1>14, <1>15, Zenon
<1>22. ASSUME ~(Len(h.cmds) <= MaxItems)
       PROVE  MessageFieldsOf(lay, s, 1) = Refused
  <2>1. \A i \in 1..3 : i < 3 => ReadMessageField(lay[i], s, c[i - 1]) = Got(N[lay[i]], c[i])
    <3> SUFFICES ASSUME NEW i \in 1..3, i < 3
                 PROVE  ReadMessageField(lay[i], s, c[i - 1]) = Got(N[lay[i]], c[i])
      OBVIOUS
    <3>1. CASE i = 1
      <4>1. i - 1 = 0
        BY <3>1
      <4> QED
        BY <1>19, <3>1, <4>1, Zenon
    <3>2. CASE i = 2
      <4>1. i - 1 = 1
        BY <3>2
      <4> QED
        BY <1>20, <3>2, <4>1, Zenon
    <3>3. i = 1 \/ i = 2
      BY <1>17
    <3> QED
      BY <3>1, <3>2, <3>3, Zenon
  <2>2. ReadMessageField(lay[3], s, c[3 - 1]) = Refused
    <3>1. 3 - 1 = 2
      OBVIOUS
    <3> QED
      BY <1>22, <1>21, <3>1, Zenon DEF Bounded
  <2>3. MessageCut(lay, 3, N, s, 1, c, 3)
    BY <1>13, <1>14, <1>18, <2>1, <2>2 DEF MessageCut
  <2>4. MessageFieldsOf(lay, s, 1) = IF 3 <= 3 THEN Refused ELSE Got(N, c[3])
    BY <2>3, FieldsMessage
  <2> QED
    BY <1>14, <2>4
<1>23. ASSUME Len(h.cmds) <= MaxItems
       PROVE  MessageFieldsOf(lay, s, 1) = Got(N, b)
  <2>1. ReadMessageField(lay[3], s, c[2]) = Got(N[lay[3]], c[3])
    BY <1>23, <1>21, Zenon DEF Bounded
  <2>2. \A i \in 1..3 : i < 4 => ReadMessageField(lay[i], s, c[i - 1]) = Got(N[lay[i]], c[i])
    <3> SUFFICES ASSUME NEW i \in 1..3, i < 4
                 PROVE  ReadMessageField(lay[i], s, c[i - 1]) = Got(N[lay[i]], c[i])
      OBVIOUS
    <3>1. CASE i = 1
      <4>1. i - 1 = 0
        BY <3>1
      <4> QED
        BY <1>19, <3>1, <4>1, Zenon
    <3>2. CASE i = 2
      <4>1. i - 1 = 1
        BY <3>2
      <4> QED
        BY <1>20, <3>2, <4>1, Zenon
    <3>3. CASE i = 3
      <4>1. i - 1 = 2
        BY <3>3
      <4> QED
        BY <2>1, <3>3, <4>1, Zenon
    <3>4. i = 1 \/ i = 2 \/ i = 3
      BY <1>17
    <3> QED
      BY <3>1, <3>2, <3>3, <3>4, Zenon
  <2>3. MessageCut(lay, 3, N, s, 1, c, 4)
    BY <1>13, <1>14, <1>18, <2>2 DEF MessageCut
  <2>4. MessageFieldsOf(lay, s, 1) = IF 4 <= 3 THEN Refused ELSE Got(N, c[3])
    BY <2>3, FieldsMessage
  <2> QED
    BY <1>14, <2>4
<1> QED
  BY <1>22, <1>23, <1>16 DEF N

LEMMA WarmResultFields ==
  ASSUME NEW h, h \in WarmResults
  PROVE  /\ h.boot \in Nat /\ h.epoch \in Nat /\ h.warmth_gen \in Nat /\ h.dep_gen \in Nat
         /\ h.object \in Nat /\ h.action \in Nat /\ h.attempt \in Nat /\ h.success \in BOOLEAN
         /\ h.bytes \in Nat /\ h.error \in Nats
         /\ DOMAIN h = {"boot", "epoch", "warmth_gen", "dep_gen", "object",
                        "action", "attempt", "success", "bytes", "error"}
         /\ h = [x \in DOMAIN h |-> h[x]]
<1> USE DEF WarmResults, Strings, Nats
<1>1. h.boot \in Nat
  OBVIOUS
<1>2. h.epoch \in Nat
  OBVIOUS
<1>3. h.warmth_gen \in Nat
  OBVIOUS
<1>4. h.dep_gen \in Nat
  OBVIOUS
<1>5. h.object \in Nat
  OBVIOUS
<1>6. h.action \in Nat
  OBVIOUS
<1>7. h.attempt \in Nat
  OBVIOUS
<1>8. h.success \in BOOLEAN
  OBVIOUS
<1>9. h.bytes \in Nat
  OBVIOUS
<1>10. h.error \in Nats
  OBVIOUS
<1>11. DOMAIN h = {"boot", "epoch", "warmth_gen", "dep_gen", "object",
                   "action", "attempt", "success", "bytes", "error"}
  OBVIOUS
<1>12. h = [x \in DOMAIN h |-> h[x]]
  OBVIOUS
<1> QED
  BY <1>1, <1>2, <1>3, <1>4, <1>5, <1>6, <1>7, <1>8, <1>9, <1>10, <1>11, <1>12, Zenon

LEMMA WarmResultReads ==
  ASSUME NEW h, h \in WarmResults, NEW s, NEW b, Spans(s, 1, b, encode_warm_result(h))
  PROVE  decode_warm_result(s) = Got(h, b)
<1>1. /\ h.boot \in Nat /\ h.epoch \in Nat /\ h.warmth_gen \in Nat /\ h.dep_gen \in Nat
      /\ h.object \in Nat /\ h.action \in Nat /\ h.attempt \in Nat /\ h.success \in BOOLEAN
      /\ h.bytes \in Nat /\ h.error \in Nats
      /\ DOMAIN h = {"boot", "epoch", "warmth_gen", "dep_gen", "object",
                     "action", "attempt", "success", "bytes", "error"}
      /\ h = [x \in DOMAIN h |-> h[x]]
  BY WarmResultFields, Zenon
<1>2. <<h.boot, h.epoch, h.warmth_gen, h.dep_gen, h.object, h.action, h.attempt>> \in Nats
  BY <1>1 DEF Nats
<1>3. Flag(h.success) \in Nats
  BY <1>1, FlagType, Zenon
<1>4. <<h.bytes>> \in Nats
  BY <1>1 DEF Nats
<1>5. Str(h.error) \in Nats
  BY <1>1, StrType, Zenon
<1>6. PICK e1 \in Nats, e2 \in Nats, e3 \in Nats, e4 \in Nats :
        /\ e1 = <<h.boot, h.epoch, h.warmth_gen, h.dep_gen, h.object, h.action, h.attempt>>
        /\ e2 = Flag(h.success)
        /\ e3 = <<h.bytes>>
        /\ e4 = Str(h.error)
  BY <1>2, <1>3, <1>4, <1>5, Zenon
<1>7. Spans(s, 1, b, e1 \o e2 \o e3 \o e4)
  BY <1>6 DEF encode_warm_result, CmdsOf
<1>8. PICK m4 : Spans(s, 1, m4, e1 \o e2 \o e3) /\ Spans(s, m4, b, e4)
  <2>1. PICK p \in Nats : p = e1 \o e2 \o e3
    BY NatsCat
  <2>2. Spans(s, 1, b, p \o e4)
    BY <1>7, <2>1
  <2>3. \E m : Spans(s, 1, m, p) /\ Spans(s, m, b, e4)
    BY <2>2, SpansCat
  <2> QED
    BY <2>1, <2>3
<1>9. PICK m3 : Spans(s, 1, m3, e1 \o e2) /\ Spans(s, m3, m4, e3)
  <2>1. PICK p \in Nats : p = e1 \o e2
    BY NatsCat
  <2>2. Spans(s, 1, m4, p \o e3)
    BY <1>8, <2>1
  <2>3. \E m : Spans(s, 1, m, p) /\ Spans(s, m, m4, e3)
    BY <2>2, SpansCat
  <2> QED
    BY <2>1, <2>3
<1>10. PICK m2 : Spans(s, 1, m2, e1) /\ Spans(s, m2, m3, e2)
  BY <1>9, SpansCat
<1>11. Spans(s, 1, m2, <<h.boot, h.epoch, h.warmth_gen, h.dep_gen, h.object, h.action, h.attempt>>)
  BY <1>6, <1>10, Zenon
<1>12. /\ Spans(s, 1, 2, <<h.boot>>)
       /\ Spans(s, 2, 3, <<h.epoch>>)
       /\ Spans(s, 3, 4, <<h.warmth_gen>>)
       /\ Spans(s, 4, 5, <<h.dep_gen>>)
       /\ Spans(s, 5, 6, <<h.object>>)
       /\ Spans(s, 6, 7, <<h.action>>)
       /\ Spans(s, 7, m2, <<h.attempt>>)
  BY <1>11, Seven, Zenon
<1>13. Spans(s, m2, m3, Flag(h.success))
  BY <1>6, <1>10, Zenon
<1>14. Spans(s, m3, m4, <<h.bytes>>)
  BY <1>6, <1>9, Zenon
<1>15. Spans(s, m4, b, Str(h.error))
  BY <1>6, <1>8, Zenon
<1>16. ReadMessageField("boot", s, 1) = Got(h.boot, 2)
  <2>1. Spans(s, 1, 2, <<h.boot>>)
    BY <1>12, Zenon
  <2> QED
    BY <2>1, SentWord, Zenon
<1>17. ReadMessageField("epoch", s, 2) = Got(h.epoch, 3)
  <2>1. Spans(s, 2, 3, <<h.epoch>>)
    BY <1>12, Zenon
  <2> QED
    BY <2>1, SentWord, Zenon
<1>18. ReadMessageField("warmth_gen", s, 3) = Got(h.warmth_gen, 4)
  <2>1. Spans(s, 3, 4, <<h.warmth_gen>>)
    BY <1>12, Zenon
  <2> QED
    BY <2>1, SentWord, Zenon
<1>19. ReadMessageField("dep_gen", s, 4) = Got(h.dep_gen, 5)
  <2>1. Spans(s, 4, 5, <<h.dep_gen>>)
    BY <1>12, Zenon
  <2> QED
    BY <2>1, SentWord, Zenon
<1>20. ReadMessageField("object", s, 5) = Got(h.object, 6)
  <2>1. Spans(s, 5, 6, <<h.object>>)
    BY <1>12, Zenon
  <2> QED
    BY <2>1, SentWord, Zenon
<1>21. ReadMessageField("action", s, 6) = Got(h.action, 7)
  <2>1. Spans(s, 6, 7, <<h.action>>)
    BY <1>12, Zenon
  <2> QED
    BY <2>1, SentWord, Zenon
<1>22. ReadMessageField("attempt", s, 7) = Got(h.attempt, m2)
  <2>1. Spans(s, 7, m2, <<h.attempt>>)
    BY <1>12, Zenon
  <2> QED
    BY <2>1, SentWord, Zenon
<1>23. ReadMessageField("success", s, m2) = Got(h.success, m3)
  <2>1. Spans(s, m2, m3, Flag(h.success))
    BY <1>13, Zenon
  <2>2. h.success \in BOOLEAN
    BY <1>1, Zenon
  <2> QED
    BY <2>1, <2>2, SentFlag, Zenon
<1>24. ReadMessageField("bytes", s, m3) = Got(h.bytes, m4)
  <2>1. Spans(s, m3, m4, <<h.bytes>>)
    BY <1>14, Zenon
  <2> QED
    BY <2>1, SentWord, Zenon
<1>25. ReadMessageField("error", s, m4) = Got(h.error, b)
  <2>1. Spans(s, m4, b, Str(h.error))
    BY <1>15, Zenon
  <2>2. h.error \in Nats
    BY <1>1, Zenon
  <2> QED
    BY <2>1, <2>2, SentStr, Zenon
<1> DEFINE lay == <<"boot", "epoch", "warmth_gen", "dep_gen", "object",
                    "action", "attempt", "success", "bytes", "error">>
           N == h
           t == <<1, 2, 3, 4, 5, 6, 7, m2, m3, m4, b>>
           c == [i \in 0..10 |-> t[i + 1]]
<1>26. /\ Len(lay) = 10 /\ lay[1] = "boot" /\ lay[2] = "epoch" /\ lay[3] = "warmth_gen"
       /\ lay[4] = "dep_gen" /\ lay[5] = "object" /\ lay[6] = "action" /\ lay[7] = "attempt"
       /\ lay[8] = "success" /\ lay[9] = "bytes" /\ lay[10] = "error"
  OBVIOUS
<1>27. /\ c[0] = 1 /\ c[1] = 2 /\ c[2] = 3 /\ c[3] = 4 /\ c[4] = 5 /\ c[5] = 6 /\ c[6] = 7
       /\ c[7] = m2 /\ c[8] = m3 /\ c[9] = m4 /\ c[10] = b
  OBVIOUS
<1>28. /\ DOMAIN N = DOMAIN h /\ N = [x \in DOMAIN N |-> N[x]]
       /\ N["boot"] = h.boot /\ N["epoch"] = h.epoch /\ N["warmth_gen"] = h.warmth_gen
       /\ N["dep_gen"] = h.dep_gen /\ N["object"] = h.object /\ N["action"] = h.action
       /\ N["attempt"] = h.attempt /\ N["success"] = h.success /\ N["bytes"] = h.bytes
       /\ N["error"] = h.error
  BY <1>1
<1>29. decode_warm_result(s) = MessageFieldsOf(lay, s, 1)
  BY DEF decode_warm_result, decode, MessageFieldsOf
<1> HIDE DEF lay, c, N
<1>30. \A i \in 1..10 : i = 1 \/ i = 2 \/ i = 3 \/ i = 4 \/ i = 5 \/ i = 6 \/ i = 7 \/ i = 8 \/ i = 9
         \/ i = 10
  OBVIOUS
<1>31. Covers(lay, 10, N)
  <2>1. {lay[i] : i \in 1..10} = DOMAIN h
    BY <1>1, <1>26, <1>30
  <2> QED
    BY <1>28, <2>1, Zenon DEF Covers
<1>32. ReadMessageField(lay[1], s, c[0]) = Got(N[lay[1]], c[1])
  BY <1>16, <1>26, <1>27, <1>28, Zenon
<1>33. ReadMessageField(lay[2], s, c[1]) = Got(N[lay[2]], c[2])
  BY <1>17, <1>26, <1>27, <1>28, Zenon
<1>34. ReadMessageField(lay[3], s, c[2]) = Got(N[lay[3]], c[3])
  BY <1>18, <1>26, <1>27, <1>28, Zenon
<1>35. ReadMessageField(lay[4], s, c[3]) = Got(N[lay[4]], c[4])
  BY <1>19, <1>26, <1>27, <1>28, Zenon
<1>36. ReadMessageField(lay[5], s, c[4]) = Got(N[lay[5]], c[5])
  BY <1>20, <1>26, <1>27, <1>28, Zenon
<1>37. ReadMessageField(lay[6], s, c[5]) = Got(N[lay[6]], c[6])
  BY <1>21, <1>26, <1>27, <1>28, Zenon
<1>38. ReadMessageField(lay[7], s, c[6]) = Got(N[lay[7]], c[7])
  BY <1>22, <1>26, <1>27, <1>28, Zenon
<1>39. ReadMessageField(lay[8], s, c[7]) = Got(N[lay[8]], c[8])
  BY <1>23, <1>26, <1>27, <1>28, Zenon
<1>40. ReadMessageField(lay[9], s, c[8]) = Got(N[lay[9]], c[9])
  BY <1>24, <1>26, <1>27, <1>28, Zenon
<1>41. ReadMessageField(lay[10], s, c[9]) = Got(N[lay[10]], c[10])
  BY <1>25, <1>26, <1>27, <1>28, Zenon
<1>42. MessageFieldsOf(lay, s, 1) = Got(N, b)
  <2>1. \A i \in 1..10 : i < 11 => ReadMessageField(lay[i], s, c[i - 1]) = Got(N[lay[i]], c[i])
    <3> SUFFICES ASSUME NEW i \in 1..10, i < 11
                 PROVE  ReadMessageField(lay[i], s, c[i - 1]) = Got(N[lay[i]], c[i])
      OBVIOUS
    <3>1. CASE i = 1
      <4>1. i - 1 = 0
        BY <3>1
      <4> QED
        BY <1>32, <3>1, <4>1, Zenon
    <3>2. CASE i = 2
      <4>1. i - 1 = 1
        BY <3>2
      <4> QED
        BY <1>33, <3>2, <4>1, Zenon
    <3>3. CASE i = 3
      <4>1. i - 1 = 2
        BY <3>3
      <4> QED
        BY <1>34, <3>3, <4>1, Zenon
    <3>4. CASE i = 4
      <4>1. i - 1 = 3
        BY <3>4
      <4> QED
        BY <1>35, <3>4, <4>1, Zenon
    <3>5. CASE i = 5
      <4>1. i - 1 = 4
        BY <3>5
      <4> QED
        BY <1>36, <3>5, <4>1, Zenon
    <3>6. CASE i = 6
      <4>1. i - 1 = 5
        BY <3>6
      <4> QED
        BY <1>37, <3>6, <4>1, Zenon
    <3>7. CASE i = 7
      <4>1. i - 1 = 6
        BY <3>7
      <4> QED
        BY <1>38, <3>7, <4>1, Zenon
    <3>8. CASE i = 8
      <4>1. i - 1 = 7
        BY <3>8
      <4> QED
        BY <1>39, <3>8, <4>1, Zenon
    <3>9. CASE i = 9
      <4>1. i - 1 = 8
        BY <3>9
      <4> QED
        BY <1>40, <3>9, <4>1, Zenon
    <3>10. CASE i = 10
      <4>1. i - 1 = 9
        BY <3>10
      <4> QED
        BY <1>41, <3>10, <4>1, Zenon
    <3>11. i = 1 \/ i = 2 \/ i = 3 \/ i = 4 \/ i = 5 \/ i = 6 \/ i = 7 \/ i = 8 \/ i = 9
          \/ i = 10
      BY <1>30
    <3> QED
      BY <3>1, <3>2, <3>3, <3>4, <3>5, <3>6, <3>7, <3>8, <3>9, <3>10, <3>11, Zenon
  <2>2. MessageCut(lay, 10, N, s, 1, c, 11)
    BY <1>26, <1>27, <1>31, <2>1 DEF MessageCut
  <2>3. MessageFieldsOf(lay, s, 1) = IF 11 <= 10 THEN Refused ELSE Got(N, c[10])
    BY <2>2, FieldsMessage
  <2> QED
    BY <1>27, <2>3
<1> QED
  BY <1>42, <1>29 DEF N

\* What the receiver should get out of a message.
Returns(r, m) ==
  (r.ok <=> WithinBounds(m)) /\ (r.ok /\ "body" \in DOMAIN m => r.v = AsReceived(m))

LEMMA Whole == \A s \in Nats : Spans(s, 1, 1 + Len(s), s)
<1> TAKE s \in Nats
<1>1. Len(s) \in Nat /\ 1 + Len(s) <= Len(s) + 1 /\ \A i \in 1..Len(s) : 1 + i - 1 = i
  BY DEF Nats
<1> QED
  BY <1>1 DEF Spans, Carries

\* The decoder of a message's type, applied to its encoding.
LEMMA MessageReads ==
  ASSUME NEW m \in Sendable, NEW s, s = Encode(m)
  PROVE  Returns(CASE m.type = "HELLO"       -> decode_hello(s)
                   [] m.type = "HELLO_ACK"   -> decode_hello_ack(s)
                   [] m.type = "REPORT"      -> decode_report(s)
                   [] m.type = "WARM_TOPIC"  -> decode_warm_topic(s)
                   [] m.type = "WARM_RESULT" -> decode_warm_result(s)
                   [] OTHER                  -> Got(<<>>, 1), m)
<1>0. Spans(s, 1, 1 + Len(s), s)
  <2>1. s \in Nats
    BY EncodeType DEF Nats
  <2> QED
    BY <2>1, Whole, Zenon
<1>1. PICK b : Spans(s, 1, b, s)
  BY <1>0
<1>2. \A v : Got(v, b).ok /\ Got(v, b).v = v
  BY DEF Got
<1>3. ~Refused.ok
  BY DEF Refused
<1>4. CASE m \in Msgs("HELLO", Hellos)
  <2>1. m.type = "HELLO" /\ IsHello(m.body)
    BY <1>4, BodiesAssumption DEF Msgs
  <2>2. s = encode_hello(m.body)
    BY <2>1 DEF Encode
  <2>3. Spans(s, 1, b, encode_hello(m.body))
    BY <1>1, <2>2, Zenon
  <2>4. decode_hello(s) = IF Len(m.body.devices) <= MaxItems /\ Len(m.body.actions) <= MaxActions
                             /\ Len(m.body.observed) <= MaxItems
                          THEN Got([m.body EXCEPT !.observed = NormalSeq(@)], b) ELSE Refused
    BY <2>1, <2>3, HelloReads
  <2>5. WithinBounds(m) = (Len(m.body.devices) <= MaxItems /\ Len(m.body.actions) <= MaxActions
                           /\ Len(m.body.observed) <= MaxItems)
    BY <2>1 DEF WithinBounds
  <2>6. AsReceived(m) = [m.body EXCEPT !.observed = NormalSeq(@)]
    BY <2>1 DEF AsReceived
  <2>7. Returns(decode_hello(s), m)
    BY <1>2, <1>3, <2>4, <2>5, <2>6 DEF Returns
  <2> QED
    BY <2>1, <2>7
<1>5. CASE m \in Msgs("HELLO_ACK", Acks)
  <2>1. m.type = "HELLO_ACK" /\ m.body \in HelloAcks
    BY <1>5, BodiesAssumption DEF Msgs
  <2>2. s = encode_hello_ack(m.body)
    BY <2>1 DEF Encode
  <2>3. Spans(s, 1, b, encode_hello_ack(m.body))
    BY <1>1, <2>2, Zenon
  <2>4. decode_hello_ack(s) = Got(m.body, b)
    BY <2>1, <2>3, HelloAckReads
  <2>5. WithinBounds(m)
    BY <2>1 DEF WithinBounds
  <2>6. AsReceived(m) = m.body
    BY <2>1 DEF AsReceived
  <2>7. Returns(decode_hello_ack(s), m)
    BY <1>2, <1>3, <2>4, <2>5, <2>6 DEF Returns
  <2> QED
    BY <2>1, <2>7
<1>6. CASE m \in Msgs("REPORT", Reports)
  <2>1. m.type = "REPORT" /\ IsReport(m.body)
    BY <1>6, BodiesAssumption DEF Msgs
  <2>2. s = encode_report(m.body)
    BY <2>1 DEF Encode
  <2>3. Spans(s, 1, b, encode_report(m.body))
    BY <1>1, <2>2, Zenon
  <2>4. decode_report(s) = IF Len(m.body.objects) <= MaxItems
                          THEN Got([m.body EXCEPT !.objects = NormalSeq(@)], b) ELSE Refused
    BY <2>1, <2>3, ReportReads
  <2>5. WithinBounds(m) = (Len(m.body.objects) <= MaxItems)
    BY <2>1 DEF WithinBounds
  <2>6. AsReceived(m) = [m.body EXCEPT !.objects = NormalSeq(@)]
    BY <2>1 DEF AsReceived
  <2>7. Returns(decode_report(s), m)
    BY <1>2, <1>3, <2>4, <2>5, <2>6 DEF Returns
  <2> QED
    BY <2>1, <2>7
<1>7. CASE m \in Msgs("WARM_TOPIC", Topics)
  <2>1. m.type = "WARM_TOPIC" /\ m.body \in WarmTopics
    BY <1>7, BodiesAssumption DEF Msgs
  <2>2. s = encode_warm_topic(m.body)
    BY <2>1 DEF Encode
  <2>3. Spans(s, 1, b, encode_warm_topic(m.body))
    BY <1>1, <2>2, Zenon
  <2>4. decode_warm_topic(s) = IF Len(m.body.cmds) <= MaxItems
                          THEN Got(m.body, b) ELSE Refused
    BY <2>1, <2>3, WarmTopicReads
  <2>5. WithinBounds(m) = (Len(m.body.cmds) <= MaxItems)
    BY <2>1 DEF WithinBounds
  <2>6. AsReceived(m) = m.body
    BY <2>1 DEF AsReceived
  <2>7. Returns(decode_warm_topic(s), m)
    BY <1>2, <1>3, <2>4, <2>5, <2>6 DEF Returns
  <2> QED
    BY <2>1, <2>7
<1>8. CASE m \in Msgs("WARM_RESULT", Results)
  <2>1. m.type = "WARM_RESULT" /\ m.body \in WarmResults
    BY <1>8, BodiesAssumption DEF Msgs
  <2>2. s = encode_warm_result(m.body)
    BY <2>1 DEF Encode
  <2>3. Spans(s, 1, b, encode_warm_result(m.body))
    BY <1>1, <2>2, Zenon
  <2>4. decode_warm_result(s) = Got(m.body, b)
    BY <2>1, <2>3, WarmResultReads
  <2>5. WithinBounds(m)
    BY <2>1 DEF WithinBounds
  <2>6. AsReceived(m) = m.body
    BY <2>1 DEF AsReceived
  <2>7. Returns(decode_warm_result(s), m)
    BY <1>2, <1>3, <2>4, <2>5, <2>6 DEF Returns
  <2> QED
    BY <2>1, <2>7
<1>9. CASE m \in {Plain("PONG"), Plain("ERROR"), Plain("SHUTDOWN")}
  <2>1. m.type \in {"PONG", "ERROR", "SHUTDOWN"} /\ DOMAIN m = {"type"}
    BY <1>9 DEF Plain
  <2>2. WithinBounds(m)
    BY <2>1 DEF WithinBounds
  <2>3. Returns(Got(<<>>, 1), m)
    BY <2>1, <2>2 DEF Returns, Got
  <2> QED
    BY <2>1, <2>3
<1> QED
  BY <1>4, <1>5, <1>6, <1>7, <1>8, <1>9 DEF Sendable

LEMMA DecodeData == \A m \in Sendable : Returns(Decode(m.type, Data(m)), m)
<1> TAKE m \in Sendable
<1> DEFINE s == [i \in DOMAIN Data(m) |-> Data(m)[i][2]]
<1>1. s = Encode(m)
  <2> DEFINE e == Encode(m)
  <2>1. e \in Seq(Nat) /\ Data(m) = [i \in DOMAIN e |-> <<"data", e[i]>>]
    BY EncodeType DEF Data
  <2> HIDE DEF e
  <2>2. DOMAIN Data(m) = DOMAIN e /\ \A i \in DOMAIN e : Data(m)[i][2] = e[i]
    BY <2>1
  <2>3. s = e
    BY <2>1, <2>2
  <2> QED
    BY <2>3 DEF e
<1>2. Decode(m.type, Data(m)) =
        CASE m.type = "HELLO"       -> decode_hello(s)
          [] m.type = "HELLO_ACK"   -> decode_hello_ack(s)
          [] m.type = "REPORT"      -> decode_report(s)
          [] m.type = "WARM_TOPIC"  -> decode_warm_topic(s)
          [] m.type = "WARM_RESULT" -> decode_warm_result(s)
          [] OTHER                  -> Got(<<>>, 1)
  BY DEF Decode
<1> HIDE DEF s
<1> QED
  BY <1>1, <1>2, MessageReads

-----------------------------------------------------------------------------
(* The properties *)

\* Whatever the two writers and the connection do, the writers' registers, the
\* lock, the reader's phase and the header it holds keep their types: no write
\* has more than three write_all calls left and no header announces more than
\* kMaxPayload.
THEOREM TypeCorrect == Spec => []TypeOK
BY FrameAlways, FrameTypes, PTL

\* For every set of messages, however the sends are cut and wherever the
\* connection breaks, FrameReader::read returns the frames that were begun, whole
\* and in that order, also on the worker's stream, whose writers share no lock.
THEOREM FramesArriveIntactHolds == Spec => []FramesArriveIntact
<1>1. FrameInv => FramesArriveIntact
  BY Zenon DEF FrameInv, Ghost
<1> QED
  BY <1>1, FrameAlways, PTL

\* The reader meets a bad header or a bad checksum only on the worker's stream and
\* only after its two writers have mixed their frames: send_mutex keeps the
\* coordinator's stream in step for every interleaving of its writers.
THEOREM StreamStaysInSyncHolds == Spec => []StreamStaysInSync
<1>1. FrameInv => StreamStaysInSync
  BY Zenon DEF FrameInv, Ghost
<1> QED
  BY <1>1, FrameAlways, PTL

\* For every set of messages the handlers get back what the encoders were given,
\* every field of every object, option and list included, and a message is refused
\* exactly when one of its groups exceeds the bound of its decoder.
THEOREM DecodeInvertsEncodeHolds == Spec => []DecodeInvertsEncode
<1>1. FrameInv => DecodeInvertsEncode
  <2> SUFFICES ASSUME FrameInv, NEW i \in DOMAIN accepted
               PROVE  Returns(Handled(accepted[i]), started[i])
    BY DEF DecodeInvertsEncode, Returns
  <2>1. started \in Seq(Sendable)
    BY DEF FrameInv, WriterTypes
  <2>2. FramesArriveIntact
    BY Zenon DEF FrameInv, Ghost
  <2>3. DOMAIN accepted = 1..Len(accepted) /\ Len(accepted) \in Nat
    BY DEF FrameInv, ReaderTypes
  <2>4. started[i] \in Sendable
    BY <2>1, <2>2, <2>3 DEF FramesArriveIntact
  <2>5. /\ accepted[i].type = started[i].type
        /\ accepted[i].payload = Data(started[i])
    BY <2>2, Zenon DEF FramesArriveIntact
  <2>6. Handled(accepted[i]) = Decode(started[i].type, Data(started[i]))
    BY <2>5, Zenon DEF Handled
  <2> QED
    BY <2>4, <2>6, DecodeData, Zenon
<1> QED
  BY <1>1, FrameAlways, PTL

=============================================================================
