-------------------------- MODULE PersistenceProofs -------------------------
(***************************************************************************)
(* Theorems about the snapshot file, for any objects, savers and numbers   *)
(* of saves, recoveries and restarts.                                      *)
(***************************************************************************)
EXTENDS Persistence, FiniteSetTheorems, SequenceTheorems, WarmthStateProofs, TLAPS

---------------------------------------------------------------------------
(* Snapshots and their encoding *)

Snapshots == [gen : Generations, policy_gen : Nat, objects : Seq(ObjectRecords)]

Payloads ==
    Generations \cup [policy_generation : Nat] \cup [count : Nat] \cup ObjectRecords
Headers == [size : Nat, crc : Seq(Payloads)]
Units   == {Hole} \cup Payloads \cup Headers

\* The payload of an encoded snapshot, and the header in front of it.
Payload(e) ==
    <<e.gen, [policy_generation |-> e.policy_gen], [count |-> Len(e.objects)]>> \o e.objects
Header(e) == [size |-> Len(Payload(e)), crc |-> Payload(e)]

LEMMA PayloadForm ==
    ASSUME NEW e \in Snapshots
    PROVE  /\ Payload(e) \in Seq(Payloads)
           /\ Len(Payload(e)) = Len(e.objects) + 3
           /\ Payload(e)[1] = e.gen
           /\ Payload(e)[2] = [policy_generation |-> e.policy_gen]
           /\ \A i \in 1 .. Len(e.objects) : Payload(e)[i + 3] = e.objects[i]
  <1> DEFINE g == e.gen
             p == [policy_generation |-> e.policy_gen]
             n == [count |-> Len(e.objects)]
             s == e.objects
  <1>1. g \in Payloads /\ p \in Payloads /\ n \in Payloads /\ s \in Seq(Payloads)
    <2>1. s \in Seq(ObjectRecords) /\ Len(s) \in Nat
      BY DEF Snapshots
    <2>2. s \in Seq(Payloads)
      BY <2>1 DEF Payloads
    <2>3. QED
      BY <2>1, <2>2 DEF Snapshots, Payloads
  <1>2. Payload(e) = <<g, p, n>> \o s
    BY DEF Payload
  <1> HIDE DEF g, p, n, s
  <1>3. <<g, p, n>> \in Seq(Payloads) /\ Len(<<g, p, n>>) = 3
    BY <1>1
  <1>4. /\ <<g, p, n>> \o s \in Seq(Payloads)
        /\ Len(<<g, p, n>> \o s) = Len(s) + 3
        /\ (<<g, p, n>> \o s)[1] = g /\ (<<g, p, n>> \o s)[2] = p
        /\ \A i \in 1 .. Len(s) : (<<g, p, n>> \o s)[i + 3] = s[i]
    BY <1>1, <1>3
  <1>5. QED
    BY <1>2, <1>4 DEF g, p, s

\* encode_snapshot puts the header in front of the payload.
LEMMA EncodeForm ==
    ASSUME NEW e \in Snapshots
    PROVE  /\ encode_snapshot(e) \in Seq(Units)
           /\ encode_snapshot(e) # <<>>
           /\ encode_snapshot(e)[1] = Header(e)
  <1>1. Payload(e) \in Seq(Payloads)
    BY PayloadForm
  <1>2. Header(e) \in Units
    BY <1>1 DEF Header, Units, Headers
  <1>3. Payload(e) \in Seq(Units)
    BY <1>1 DEF Units
  <1>4. encode_snapshot(e) = <<Header(e)>> \o Payload(e)
    BY DEF encode_snapshot, Header, Payload
  <1>5. QED
    BY <1>2, <1>3, <1>4

\* A file with the payload of a snapshot decodes to it.
LEMMA DecodeInverts ==
    ASSUME NEW e \in Snapshots, NEW f \in Seq(Units), f # <<>>, Tail(f) = Payload(e)
    PROVE  decode_snapshot(f) = e
  <1> DEFINE p == Payload(e)
             n == Len(e.objects)
  <1>1. /\ Len(p) = n + 3 /\ p[1] = e.gen /\ p[2] = [policy_generation |-> e.policy_gen]
        /\ \A i \in 1 .. n : p[i + 3] = e.objects[i]
    BY PayloadForm
  <1>2. Len(f) \in Nat \ {0} /\ Len(p) = Len(f) - 1 /\ \A i \in 1 .. Len(p) : p[i] = f[i + 1]
    <2> HIDE DEF p
    <2>1. /\ Len(Tail(f)) = Len(f) - 1
          /\ \A i \in 1 .. Len(Tail(f)) : Tail(f)[i] = f[i + 1]
      BY HeadTailProperties
    <2>2. Tail(f) = p
      BY DEF p
    <2>3. Len(f) \in Nat \ {0}
      BY EmptySeq
    <2>4. QED
      BY <2>1, <2>2, <2>3, Zenon
  <1>3. e.objects \in Seq(ObjectRecords) /\ n \in Nat
    BY DEF Snapshots
  <1> HIDE DEF p, n
  <1>4. Len(f) = n + 4
    BY <1>1, <1>2, <1>3
  <1>5. f[2] = e.gen /\ f[3] = [policy_generation |-> e.policy_gen]
    <2>1. 1 \in 1 .. Len(p) /\ 2 \in 1 .. Len(p)
      BY <1>1, <1>3
    <2>2. p[1] = f[2] /\ p[2] = f[3]
      BY <1>2, <2>1
    <2>3. QED
      BY <1>1, <2>2
  <1>6. ASSUME NEW i \in 1 .. n PROVE f[i + 4] = e.objects[i]
    <2>1. i + 3 \in 1 .. Len(p) /\ (i + 3) + 1 = i + 4
      BY <1>1, <1>3
    <2>2. p[i + 3] = f[i + 4]
      BY <1>2, <2>1
    <2>3. QED
      BY <1>1, <2>2
  <1>7. SubSeq(f, 5, Len(f)) = e.objects
    <2>1. SubSeq(f, 5, Len(f)) = [i \in 1 .. n |-> f[i + 4]]
      BY <1>3, <1>4
    <2>2. e.objects = [i \in 1 .. n |-> e.objects[i]]
      BY <1>3 DEF n
    <2>3. QED
      BY <1>6, <2>1, <2>2
  <1>8. decode_snapshot(f) = [gen |-> e.gen, policy_gen |-> e.policy_gen, objects |-> e.objects]
    <2>1. f[3].policy_generation = e.policy_gen
      BY <1>5
    <2>2. QED
      BY <1>5, <1>7, <2>1 DEF decode_snapshot
  <1>9. QED
    BY <1>8 DEF Snapshots

---------------------------------------------------------------------------
(* Types, and where the first unit of a file comes from.  RecoveredWasSaved is not
   inductive.  A checksum that matches ties the whole payload to the header, so all
   that has to be known of a file that savers and crashes may have left in any shape
   is that its header, if there is one, was made by one encoding. *)

TypeInv ==
    /\ gen \in Generations /\ policy_gen \in Nat
    /\ objects \subseteq ObjectRecords /\ IsFiniteSet(objects)
    /\ built \subseteq ObjectRecords
    /\ file \subseteq Seq(Units)
    /\ saving \in [Savers -> [rest : Seq(Units), at : Nat]]
    /\ reported \in BOOLEAN
    /\ saves \in Nat /\ recovers \in Nat
    /\ encoded \subseteq Snapshots
    /\ loaded \subseteq encoded /\ restored \subseteq encoded

\* A unit at position 1 is a header some encoding made.
Encoded(u) == \E e \in encoded : u = Header(e)

HeadersInv ==
    /\ \A f \in file : f # <<>> => f[1] = Hole \/ Encoded(f[1])
    /\ \A s \in Savers : saving[s].rest # <<>> =>
          saving[s].at >= 1 /\ (saving[s].at = 1 => Encoded(Head(saving[s].rest)))

Inv == TypeInv /\ HeadersInv

\* The fabric's snapshot is a snapshot.
LEMMA SnapshotType ==
    ASSUME TypeInv
    PROVE  Snapshot \in Snapshots
  <1> DEFINE n == Cardinality(objects)
  <1>1. n \in Nat /\ ExistsBijection(1 .. n, objects)
    BY FS_CardinalityType DEF TypeInv
  <1>2. \E f \in [1 .. n -> objects] : IsInjective(f)
    BY <1>1 DEF ExistsBijection, Bijection, Injection
  <1>3. SetToSeq(objects) \in [1 .. n -> objects]
    BY <1>2 DEF SetToSeq
  <1>4. SetToSeq(objects) \in Seq(ObjectRecords)
    <2>1. SetToSeq(objects) \in [1 .. n -> ObjectRecords]
      BY <1>3 DEF TypeInv
    <2> HIDE DEF n
    <2>2. QED
      BY <1>1, <2>1
  <1>5. QED
    BY <1>4 DEF Snapshot, Snapshots, TypeInv

\* Replacing an object leaves a finite set of objects.
LEMMA InsertType ==
    ASSUME TypeInv, NEW o \in ObjectRecords, Insert(o)
    PROVE  objects' \subseteq ObjectRecords /\ IsFiniteSet(objects')
  <1>1. IsFiniteSet({p \in objects : p.id # o.id})
    BY FS_Subset DEF TypeInv
  <1>2. IsFiniteSet({p \in objects : p.id # o.id} \cup {o})
    BY <1>1, FS_AddElement
  <1>3. QED
    BY <1>2 DEF Insert, TypeInv

\* What recover() installs are finitely many objects.
LEMMA RecoveredType ==
    ASSUME NEW snap \in Snapshots
    PROVE  LET S == {Recovered(o) : o \in Range(snap.objects)}
           IN  S \subseteq ObjectRecords /\ IsFiniteSet(S)
  <1> DEFINE s == snap.objects
             S == {Recovered(o) : o \in Range(s)}
             f == [i \in 1 .. Len(s) |-> Recovered(s[i])]
  <1>1. s \in Seq(ObjectRecords) /\ Len(s) \in Nat /\ DOMAIN s = 1 .. Len(s)
    BY DEF Snapshots
  <1>2. ASSUME NEW o \in ObjectRecords PROVE Recovered(o) \in ObjectRecords
    <2>1. o.state \in WarmthStates /\ "DISCOVERED" \in WarmthStates
      BY DEF ObjectRecords, WarmthStates
    <2>2. (IF is_execution_ready(o.state) THEN transition(o.state, "DISCOVERED") ELSE o.state)
             \in WarmthStates
      BY <2>1, TransitionType
    <2>3. QED
      BY <2>2 DEF Recovered, ObjectRecords
  <1>3. S \subseteq ObjectRecords
    BY <1>1, <1>2 DEF Range
  <1>4. f \in Surjection(1 .. Len(s), S)
    <2>1. S = {Recovered(s[i]) : i \in 1 .. Len(s)}
      BY <1>1 DEF Range
    <2>2. QED
      BY <2>1 DEF Surjection
  <1>5. IsFiniteSet(1 .. Len(s))
    BY <1>1, FS_Interval
  <1>6. IsFiniteSet(S)
    <2> HIDE DEF S, f, s
    <2>1. QED
      BY <1>4, <1>5, FS_Surjection
  <1>7. QED
    BY <1>3, <1>6

\* A write puts a unit at its place, and a hole before it where the file is short.
LEMMA WrittenForm ==
    ASSUME NEW f \in Seq(Units), NEW n \in Nat \ {0}, NEW u \in Units
    PROVE  /\ WrittenAt(f, n, u) \in Seq(Units)
           /\ WrittenAt(f, n, u)[1] = IF n = 1 THEN u ELSE IF f = <<>> THEN Hole ELSE f[1]
  <1> DEFINE m == IF n > Len(f) THEN n ELSE Len(f)
             v(i) == IF i = n THEN u ELSE IF i > Len(f) THEN Hole ELSE f[i]
  <1>0. Len(f) \in Nat /\ (f = <<>> <=> Len(f) = 0) /\ \A i \in 1 .. Len(f) : f[i] \in Units
    OBVIOUS
  <1>1. m \in Nat /\ 1 \in 1 .. m
    BY <1>0
  <1>2. ASSUME NEW i \in 1 .. m PROVE v(i) \in Units
    BY <1>0, <1>1 DEF Units
  <1>3. WrittenAt(f, n, u) = [i \in 1 .. m |-> v(i)]
    BY DEF WrittenAt
  <1>4. v(1) = IF n = 1 THEN u ELSE IF f = <<>> THEN Hole ELSE f[1]
    BY <1>0
  <1> HIDE DEF m, v
  <1>5. [i \in 1 .. m |-> v(i)] \in Seq(Units)
    BY <1>1, <1>2
  <1>6. QED
    BY <1>1, <1>3, <1>4, <1>5

LEMMA InvInit == Init => Inv
  <1> SUFFICES ASSUME Init PROVE Inv
    OBVIOUS
  <1>1. IsFiniteSet(objects)
    BY FS_EmptySet DEF Init
  <1>2. gen \in Generations
    BY DEF Init, FreshGen, Generations
  <1>3. saving \in [Savers -> [rest : Seq(Units), at : Nat]]
        /\ \A s \in Savers : saving[s].rest = <<>>
    BY DEF Init, Idle
  <1>4. QED
    BY <1>1, <1>2, <1>3 DEF Init, Inv, TypeInv, HeadersInv

\* The file and the savers stay as they are, or fewer are at work.
LEMMA HeadersSame ==
    ASSUME HeadersInv, UNCHANGED <<file, encoded>>,
           \A s \in Savers : saving'[s] = saving[s] \/ saving'[s] = Idle
    PROVE  HeadersInv'
  <1>1. Idle.rest = <<>>
    BY DEF Idle
  <1>2. QED
    BY <1>1 DEF HeadersInv, Encoded

LEMMA InvStep == Inv /\ [Next]_vars => Inv'
  <1> SUFFICES ASSUME Inv, [Next]_vars PROVE Inv'
    OBVIOUS
  <1>0. TypeInv /\ HeadersInv
    BY DEF Inv
  <1> USE DEF fabric, store, history
  \* The fabric's own operations.
  <1>1. ASSUME NEW o \in ObjectRecords, Replace(o) PROVE Inv'
    <2>1. objects' \subseteq ObjectRecords /\ IsFiniteSet(objects')
      BY <1>0, <1>1, InsertType DEF Replace
    <2>2. HeadersInv'
      BY <1>0, <1>1, HeadersSame DEF Replace
    <2>3. QED
      BY <1>0, <1>1, <2>1, <2>2 DEF Replace, Inv, TypeInv
  <1>2. ASSUME NEW id \in Ids, RegisterBuild(id) PROVE Inv'
    <2>1. built' \subseteq ObjectRecords
      BY <1>0, <1>2 DEF RegisterBuild, TypeInv, Generations, ObjectRecords, WarmthStates
    <2>2. HeadersInv'
      BY <1>0, <1>2, HeadersSame DEF RegisterBuild
    <2>3. QED
      BY <1>0, <1>2, <2>1, <2>2 DEF RegisterBuild, Inv, TypeInv
  <1>3. ASSUME NEW o \in built, RegisterInsert(o) PROVE Inv'
    <2>1. objects' \subseteq ObjectRecords /\ IsFiniteSet(objects')
      BY <1>0, <1>3, InsertType DEF RegisterInsert, TypeInv
    <2>2. HeadersInv'
      BY <1>0, <1>3, HeadersSame DEF RegisterInsert
    <2>3. QED
      BY <1>0, <1>3, <2>1, <2>2 DEF RegisterInsert, Inv, TypeInv
  <1>4. ASSUME NEW o \in objects, WarmToReady(o) \/ Invalidate(o) \/ UpsertNaN(o) PROVE Inv'
    <2>1. o \in ObjectRecords /\ o.state \in WarmthStates
      BY <1>0 DEF TypeInv, ObjectRecords
    <2>2. [o EXCEPT !.state = reach_warm(@)] \in ObjectRecords
      BY <2>1, ReachWarmType DEF ObjectRecords
    <2>3. /\ [o EXCEPT !.state = "INVALIDATED"] \in ObjectRecords
          /\ [o EXCEPT !.finite = FALSE] \in ObjectRecords
      BY <2>1 DEF ObjectRecords, WarmthStates
    <2>4. QED
      BY <1>1, <1>4, <2>2, <2>3 DEF WarmToReady, Invalidate, UpsertNaN
  <1>5. CASE BumpWarmthGeneration \/ BumpDependencyGeneration
    <2>1. /\ [gen EXCEPT !.warmth = @ + 1] \in Generations
          /\ [gen EXCEPT !.dependency = @ + 1] \in Generations
      <3>1. gen \in Generations /\ gen.warmth + 1 \in Nat /\ gen.dependency + 1 \in Nat
        BY <1>0 DEF TypeInv, Generations
      <3>2. QED
        BY <3>1 DEF Generations
    <2>2. gen' \in Generations
      BY <1>5, <2>1 DEF BumpWarmthGeneration, BumpDependencyGeneration
    <2>3. HeadersInv'
      BY <1>0, <1>5, HeadersSame DEF BumpWarmthGeneration, BumpDependencyGeneration
    <2>4. QED
      BY <1>0, <1>5, <2>2, <2>3 DEF BumpWarmthGeneration, BumpDependencyGeneration, Inv, TypeInv
  \* save.
  <1>6. ASSUME NEW s \in Savers, SaveOpen(s) PROVE Inv'
    <2>1. Snapshot \in Snapshots
      BY <1>0, SnapshotType
    <2>2. /\ encode_snapshot(Snapshot) \in Seq(Units) /\ encode_snapshot(Snapshot) # <<>>
          /\ encode_snapshot(Snapshot)[1] = Header(Snapshot)
      BY <2>1, EncodeForm
    <2>3. /\ saving' = [saving EXCEPT ![s] = [rest |-> encode_snapshot(Snapshot), at |-> 1]]
          /\ encoded' = encoded \cup {Snapshot} /\ file' = {<<>>}
      BY <1>6 DEF SaveOpen
    <2>4. saving' \in [Savers -> [rest : Seq(Units), at : Nat]]
      BY <1>0, <2>2, <2>3 DEF TypeInv
    <2>5. TypeInv'
      <3>1. encoded' \subseteq Snapshots /\ encoded \subseteq encoded'
        BY <1>0, <2>1, <2>3 DEF TypeInv
      <3>2. loaded' \subseteq encoded' /\ restored' \subseteq encoded'
        BY <1>0, <1>6, <3>1 DEF SaveOpen, TypeInv
      <3>3. file' \subseteq Seq(Units)
        BY <2>3
      <3>4. saves' \in Nat /\ recovers' \in Nat /\ reported' \in BOOLEAN
        <4>1. saves' = saves + 1 /\ recovers' = recovers /\ reported' = FALSE
          BY <1>6 DEF SaveOpen
        <4>2. saves \in Nat /\ recovers \in Nat
          BY <1>0 DEF TypeInv
        <4>3. saves' \in Nat /\ recovers' \in Nat
          BY <4>1, <4>2
        <4>4. reported' \in BOOLEAN
          BY <4>1
        <4>5. QED
          BY <4>3, <4>4
      <3>5. UNCHANGED <<gen, policy_gen, objects, built>>
        BY <1>6 DEF SaveOpen
      <3>6. QED
        BY <1>0, <2>4, <3>1, <3>2, <3>3, <3>4, <3>5 DEF TypeInv
    <2>6. ASSUME NEW t \in Savers, saving'[t].rest # <<>>
          PROVE  /\ saving'[t].at >= 1
                 /\ saving'[t].at = 1 => \E e \in encoded' : Head(saving'[t].rest) = Header(e)
      <3>1. CASE t = s
        <4>1. saving'[t] = [rest |-> encode_snapshot(Snapshot), at |-> 1]
          BY <1>0, <2>3, <3>1 DEF TypeInv
        <4>2. Head(saving'[t].rest) = Header(Snapshot)
          BY <2>2, <4>1
        <4>3. QED
          BY <2>3, <4>1, <4>2 DEF Encoded
      <3>2. CASE t # s
        <4>1. saving'[t] = saving[t]
          BY <1>0, <2>3, <3>2 DEF TypeInv
        <4>2. QED
          BY <1>0, <2>3, <2>6, <4>1 DEF HeadersInv, Encoded
      <3>3. QED
        BY <3>1, <3>2
    <2>7. QED
      BY <2>3, <2>5, <2>6 DEF Inv, HeadersInv, Encoded
  <1>7. ASSUME NEW s \in Savers, SaveWrite(s) PROVE Inv'
    <2> DEFINE n == saving[s].at
               u == Head(saving[s].rest)
    <2>1. /\ saving[s].rest \in Seq(Units) /\ saving[s].rest # <<>>
          /\ n \in Nat \ {0} /\ (n = 1 => Encoded(u))
      BY <1>0, <1>7 DEF SaveWrite, TypeInv, HeadersInv
    <2>2. u \in Units /\ Tail(saving[s].rest) \in Seq(Units)
      BY <2>1, HeadTailProperties
    <2>3. /\ file' = {WrittenAt(f, n, u) : f \in file} /\ encoded' = encoded
          /\ saving' = [saving EXCEPT ![s] = [rest |-> Tail(@.rest), at |-> @.at + 1]]
      BY <1>7 DEF SaveWrite
    <2>4. saving' \in [Savers -> [rest : Seq(Units), at : Nat]]
      BY <1>0, <2>1, <2>2, <2>3 DEF TypeInv
    <2>5. ASSUME NEW g \in file'
          PROVE  g \in Seq(Units) /\ (g # <<>> => g[1] = Hole \/ Encoded(g[1]))
      <3> HIDE DEF n, u
      <3>1. PICK f \in file : g = WrittenAt(f, n, u)
        BY <2>3
      <3>2. f \in Seq(Units) /\ (f # <<>> => f[1] = Hole \/ Encoded(f[1]))
        BY <1>0 DEF TypeInv, HeadersInv
      <3>3. /\ g \in Seq(Units)
            /\ g[1] = IF n = 1 THEN u ELSE IF f = <<>> THEN Hole ELSE f[1]
        BY <2>1, <2>2, <3>1, <3>2, WrittenForm
      <3>4. QED
        BY <2>1, <3>2, <3>3
    <2>6. TypeInv'
      BY <1>0, <1>7, <2>3, <2>4, <2>5 DEF SaveWrite, TypeInv
    <2>7. ASSUME NEW t \in Savers, saving'[t].rest # <<>>
          PROVE  /\ saving'[t].at >= 1
                 /\ saving'[t].at = 1 => \E e \in encoded' : Head(saving'[t].rest) = Header(e)
      <3>1. CASE t = s
        <4>1. saving'[t].at = n + 1
          BY <1>0, <2>3, <3>1 DEF TypeInv
        <4>2. QED
          BY <2>1, <4>1
      <3>2. CASE t # s
        <4>1. saving'[t] = saving[t]
          BY <1>0, <2>3, <3>2 DEF TypeInv
        <4>2. QED
          BY <1>0, <2>3, <2>7, <4>1 DEF HeadersInv, Encoded
      <3>3. QED
        BY <3>1, <3>2
    <2>8. HeadersInv'
      BY <2>3, <2>5, <2>7 DEF HeadersInv, Encoded
    <2>9. QED
      BY <2>6, <2>8 DEF Inv
  <1>8. ASSUME NEW s \in Savers, SaveReturn(s) \/ \E noticed \in BOOLEAN : SaveError(s, noticed)
        PROVE  Inv'
    <2>1. /\ saving' = [saving EXCEPT ![s] = Idle]
          /\ UNCHANGED <<gen, policy_gen, objects, built, file, loaded, saves, recovers, encoded, restored>>
      BY <1>8 DEF SaveReturn, SaveError
    <2>2. reported' \in BOOLEAN
      BY <1>8 DEF SaveReturn, SaveError, Alone
    <2>3. saving' \in [Savers -> [rest : Seq(Units), at : Nat]]
      BY <1>0, <2>1 DEF TypeInv, Idle
    <2>4. HeadersInv'
      BY <1>0, <2>1, HeadersSame DEF TypeInv
    <2>5. QED
      BY <1>0, <2>1, <2>2, <2>3, <2>4 DEF Inv, TypeInv
  \* recover.
  <1>9. CASE RecoverLoad
    <2>1. PICK f \in file : decodes(f) /\ loaded' = {decode_snapshot(f)}
      BY <1>9 DEF RecoverLoad
    <2>2. f \in Seq(Units) /\ f # <<>> /\ f[1] # Hole /\ f[1].crc = Tail(f)
      BY <1>0, <2>1 DEF TypeInv, decodes, header_ok
    <2>3. PICK e \in encoded : f[1] = Header(e)
      BY <1>0, <2>2 DEF HeadersInv, Encoded
    <2>4. e \in Snapshots /\ Tail(f) = Payload(e)
      BY <1>0, <2>2, <2>3 DEF TypeInv, Header
    <2>5. decode_snapshot(f) = e
      BY <2>2, <2>4, DecodeInverts
    <2>6. loaded' \subseteq encoded
      BY <2>1, <2>3, <2>5
    <2>7. HeadersInv'
      BY <1>0, <1>9, HeadersSame DEF RecoverLoad
    <2>8. QED
      BY <1>0, <1>9, <2>6, <2>7 DEF RecoverLoad, Inv, TypeInv
  <1>10. ASSUME NEW snap \in loaded, RecoverInstall(snap) PROVE Inv'
    <2>1. snap \in Snapshots /\ snap \in encoded
      BY <1>0 DEF TypeInv
    <2>2. objects' \subseteq ObjectRecords /\ IsFiniteSet(objects')
      BY <1>10, <2>1, RecoveredType DEF RecoverInstall
    <2>3. gen' \in Generations /\ policy_gen' \in Nat
      BY <1>10, <2>1 DEF RecoverInstall, Snapshots, Generations
    <2>4. HeadersInv'
      BY <1>0, <1>10, HeadersSame DEF RecoverInstall
    <2>5. QED
      BY <1>0, <1>10, <2>1, <2>2, <2>3, <2>4 DEF RecoverInstall, Inv, TypeInv
  <1>11. CASE Restart
    <2>1. IsFiniteSet(objects') /\ gen' \in Generations
      BY <1>11, FS_EmptySet DEF Restart, FreshGen, Generations
    <2>2. saving' \in [Savers -> [rest : Seq(Units), at : Nat]]
          /\ \A s \in Savers : saving'[s] = Idle
      BY <1>11 DEF Restart, Idle
    <2>3. HeadersInv'
      BY <1>0, <1>11, <2>2, HeadersSame DEF Restart
    <2>4. QED
      BY <1>0, <1>11, <2>1, <2>2, <2>3 DEF Restart, Inv, TypeInv
  <1>12. CASE UNCHANGED vars
    <2>1. HeadersInv'
      BY <1>0, <1>12, HeadersSame DEF vars
    <2>2. QED
      BY <1>0, <1>12, <2>1 DEF vars, Inv, TypeInv
  <1>13. QED
    BY <1>2, <1>3, <1>4, <1>5, <1>6, <1>7, <1>8, <1>9, <1>10, <1>11, <1>12 DEF Next

\* What recover() accepts is one snapshot that a save encoded, whole, for any number
\* of savers that write over each other in one file, crash in the middle or are met
\* by a reader: no torn file and no blend is taken for a snapshot, given that the
\* checksum tells payloads apart.
THEOREM RecoveredWasSavedHolds == Spec => []RecoveredWasSaved
  <1>1. Inv => RecoveredWasSaved
    BY DEF Inv, TypeInv, RecoveredWasSaved
  <1>2. QED
    BY <1>1, InvInit, InvStep, PTL DEF Spec

=============================================================================
