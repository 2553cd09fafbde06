---------------------------- MODULE Persistence ----------------------------
(***************************************************************************)
(* The snapshot file of a fabric: encode_snapshot, decode_snapshot and the *)
(* file helpers of persistence.cpp, with WarmthFabric::save and recover    *)
(* around them.                                                            *)
(*                                                                         *)
(* save() takes the snapshot under the fabric's lock, encodes it and only  *)
(* then opens the file, which truncates it in place; the bytes follow      *)
(* outside the lock.  So two saves to one path may write over each other,  *)
(* recover() may read in the middle of a save, the process may die there,  *)
(* and the disk may fill up.                                               *)
(*                                                                         *)
(* Abstractions.  A file is a sequence of units: the 16-byte header, the   *)
(* authority generations, the policy, the object count, and one unit per   *)
(* object; a write that stops inside a unit leaves the file as if the unit *)
(* were missing, as the decoder refuses both.  The CRC-32 is taken to tell *)
(* payloads apart, so it stands for the payload itself.  Of an object the  *)
(* fields are kept that the encoder or the decoder may refuse; the         *)
(* enumerations, lengths and flags it also validates are always right in   *)
(* what the encoder wrote.                                                 *)
(* snapshot() locking twice is the subject of Fabric, not of this module.  *)
(***************************************************************************)
EXTENDS WarmthState, Sequences, SequencesExt

CONSTANTS
    Ids,           \* WarmthObjectIds
    Savers,        \* threads that call save() on one path
    IoErrors,      \* may a write fail?
    MaxGeneration, \* bound on what the bumps bring the two generations to, in sum
    MaxSaves,      \* bound on save() calls that open the file
    MaxRecovers    \* bound on recover() calls and restarts

ASSUME PersistenceAssumption ==
    /\ IoErrors \in BOOLEAN
    /\ MaxGeneration \in Nat /\ MaxSaves \in Nat /\ MaxRecovers \in Nat

VARIABLES
    gen,        \* gen_: the authority generations of the fabric
    policy_gen, \* cfg_.policy.generation
    objects,    \* objects_: a set, one object per registered id
    built,      \* objects register_object has built and not yet inserted
    file,       \* no file ({}), or one with this content
    saving,     \* per saver: the units it has yet to write, and where
    loaded,     \* what recover() has read and not yet installed
    reported,   \* the last save returned true, and no other is in progress
    saves, recovers,   \* bound counters
    encoded,    \* history: every snapshot a save has encoded
    restored    \* history: what recover() read and accepted last

fabric == <<gen, policy_gen, objects, built>>
store  == <<file, saving, reported>>
history == <<encoded, restored>>
vars == <<fabric, store, loaded, saves, recovers, history>>

---------------------------------------------------------------------------
(* Snapshots and their encoding *)

Generations == [warmth : Nat, dependency : Nat, policy : Nat]

\* finite: whether every double is a number.
ObjectRecords ==
    [id : Ids, state : WarmthStates, warmth_generation : Nat, finite : BOOLEAN]

\* WarmthFabric::snapshot().
Snapshot ==
    [gen |-> gen, policy_gen |-> policy_gen,
     objects |-> SetToSeq(objects)]

\* f64 throws on NaN and infinity, and the encoding fails before the file is opened.
Encodable == \A o \in objects : o.finite

encode_snapshot(s) ==
    LET payload == <<s.gen, [policy_generation |-> s.policy_gen],
                     [count |-> Len(s.objects)]>> \o s.objects
    IN  <<[size |-> Len(payload), crc |-> payload]>> \o payload

\* read_object: no object is of a later generation than its snapshot.
read_object(o, g) == o.warmth_generation <= g.warmth

\* What a write leaves between an end of file that moved back and its own place.
Hole == [hole |-> TRUE]

\* Mutant: the checksum is not compared.
header_ok_NoChecksum(f) ==
    f # <<>> /\ Hole # f[1] /\ f[1].size = Len(f) - 1

\* decode_snapshot, the header: the payload has its size and its checksum.
header_ok(f) ==
    /\ f # <<>> /\ Hole # f[1]
    /\ f[1].size = Len(f) - 1
    /\ f[1].crc = Tail(f)

\* decode_snapshot accepts this content.  No checksum matches a payload with a
\* hole in it, so it does not matter what would be read there.
decodes(f) ==
    /\ header_ok(f)
    /\ \A i \in 2..Len(f) : f[i] # Hole
    /\ f[3].policy_generation = f[2].policy
    /\ f[4].count = Len(f) - 4
    /\ \A i \in 5..Len(f) : read_object(f[i], f[2])
    /\ \A i, j \in 5..Len(f) : i # j => f[i].id # f[j].id

decode_snapshot(f) ==
    [gen |-> f[2], policy_gen |-> f[3].policy_generation,
     objects |-> SubSeq(f, 5, Len(f))]

---------------------------------------------------------------------------
Idle == [rest |-> <<>>, at |-> 0]

TypeOK ==
    /\ gen \in Generations /\ policy_gen \in Nat
    /\ objects \subseteq ObjectRecords /\ built \subseteq ObjectRecords
    /\ \A s \in Savers : saving[s].at \in Nat
    /\ reported \in BOOLEAN
    /\ saves \in Nat /\ recovers \in Nat

\* A fabric as it is constructed, with the default policy.
FreshGen == [warmth |-> 1, dependency |-> 1, policy |-> 0]

Init ==
    /\ gen = FreshGen /\ policy_gen = 0 /\ objects = {} /\ built = {}
    /\ file = {} /\ saving = [s \in Savers |-> Idle] /\ reported = FALSE
    /\ saves = 0 /\ recovers = 0
    /\ loaded = {} /\ encoded = {} /\ restored = {}

---------------------------------------------------------------------------
(* The fabric *)

Insert(o) == objects' = {p \in objects : p.id # o.id} \cup {o}

Replace(o) ==
    /\ Insert(o)
    /\ UNCHANGED <<gen, policy_gen, built, store, loaded, saves, recovers, history>>

\* register_object builds a COLD object of the current generation before it takes
\* the lock (one such call at a time).
RegisterBuild(id) ==
    /\ built = {}
    /\ built' = {[id |-> id, state |-> "COLD", warmth_generation |-> gen.warmth,
                  finite |-> TRUE]}
    /\ UNCHANGED <<gen, policy_gen, objects, store, loaded, saves, recovers, history>>

\* register_object, under the lock.
RegisterInsert(o) ==
    /\ Insert(o)
    /\ built' = {}
    /\ UNCHANGED <<gen, policy_gen, store, loaded, saves, recovers, history>>

WarmToReady(o) ==
    Replace([o EXCEPT !.state = reach_warm(@)])

Invalidate(o) ==
    /\ transition_allowed(o.state, "INVALIDATED")
    /\ Replace([o EXCEPT !.state = "INVALIDATED"])

\* upsert of a copy whose confidence is not a number, which the clamp lets through.
UpsertNaN(o) == Replace([o EXCEPT !.finite = FALSE])

BumpWarmthGeneration ==
    /\ gen.warmth + gen.dependency < MaxGeneration
    /\ gen' = [gen EXCEPT !.warmth = @ + 1]
    /\ UNCHANGED <<policy_gen, objects, built, store, loaded, saves, recovers, history>>

BumpDependencyGeneration ==
    /\ gen.warmth + gen.dependency < MaxGeneration
    /\ gen' = [gen EXCEPT !.dependency = @ + 1]
    /\ UNCHANGED <<policy_gen, objects, built, store, loaded, saves, recovers, history>>

---------------------------------------------------------------------------
(* save *)

\* Snapshot, encode, and open the file, which truncates it.
SaveOpen(s) ==
    /\ saving[s] = Idle
    /\ saves < MaxSaves
    /\ Encodable
    /\ saves' = saves + 1
    /\ saving' = [saving EXCEPT ![s] = [rest |-> encode_snapshot(Snapshot), at |-> 1]]
    /\ file' = {<<>>}
    /\ reported' = FALSE
    /\ encoded' = encoded \cup {Snapshot}
    /\ UNCHANGED <<fabric, loaded, recovers, restored>>

\* f with unit u at position n.
WrittenAt(f, n, u) ==
    [i \in 1..(IF n > Len(f) THEN n ELSE Len(f)) |->
        IF i = n THEN u ELSE IF i > Len(f) THEN Hole ELSE f[i]]

\* The next unit reaches the file.
SaveWrite(s) ==
    /\ saving[s].rest # <<>>
    /\ file' = {WrittenAt(f, saving[s].at, Head(saving[s].rest)) : f \in file}
    /\ saving' = [saving EXCEPT ![s] = [rest |-> Tail(@.rest), at |-> @.at + 1]]
    /\ UNCHANGED <<fabric, reported, loaded, saves, recovers, history>>

Alone(s) == \A t \in Savers \ {s} : saving[t] = Idle

\* Everything is written: save returns true.
SaveReturn(s) ==
    /\ saving[s] # Idle /\ saving[s].rest = <<>>
    /\ saving' = [saving EXCEPT ![s] = Idle]
    /\ reported' = Alone(s)
    /\ UNCHANGED <<fabric, file, loaded, saves, recovers, history>>

\* A write fails.  save notices it in write(), but not when the destructor of the
\* stream flushes what was left in the buffer; then it returns true all the same.
SaveError(s, noticed) ==
    /\ IoErrors
    /\ saving[s].rest # <<>>
    /\ saving' = [saving EXCEPT ![s] = Idle]
    /\ reported' = (~noticed /\ Alone(s))
    /\ UNCHANGED <<fabric, file, loaded, saves, recovers, history>>

---------------------------------------------------------------------------
(* recover *)

\* A recovered object is to be revalidated.
Recovered(o) ==
    [o EXCEPT !.state = IF is_execution_ready(@) THEN transition(@, "DISCOVERED") ELSE @]

\* recover() reads the file, without the lock, and accepts it.
RecoverLoad ==
    /\ recovers < MaxRecovers
    /\ loaded = {}
    /\ \E f \in file : decodes(f) /\ loaded' = {decode_snapshot(f)}
    /\ recovers' = recovers + 1
    /\ UNCHANGED <<fabric, store, saves, history>>

\* recover() installs it under the lock, whatever the fabric has become; the policy
\* keeps the generation it was saved with.
RecoverInstall(snap) ==
    /\ gen' = [k \in {"warmth", "dependency", "policy"} |-> snap.gen[k] + 1]
    /\ policy_gen' = snap.policy_gen
    /\ objects' = {Recovered(o) : o \in Range(snap.objects)}
    /\ restored' = {snap}
    /\ loaded' = {}
    /\ UNCHANGED <<built, store, saves, recovers, encoded>>

\* The process dies, wherever its saves are, and a new fabric takes its place.
Restart ==
    /\ recovers < MaxRecovers
    /\ recovers' = recovers + 1
    /\ gen' = FreshGen /\ policy_gen' = 0 /\ objects' = {} /\ built' = {}
    /\ saving' = [s \in Savers |-> Idle]
    /\ loaded' = {}
    /\ UNCHANGED <<file, reported, saves, history>>

Next ==
    \/ \E id \in Ids : RegisterBuild(id)
    \/ \E o \in built : RegisterInsert(o)
    \/ \E o \in objects :
          WarmToReady(o) \/ Invalidate(o) \/ UpsertNaN(o)
    \/ BumpWarmthGeneration \/ BumpDependencyGeneration
    \/ \E s \in Savers :
          \/ SaveOpen(s) \/ SaveWrite(s) \/ SaveReturn(s)
          \/ \E noticed \in BOOLEAN : SaveError(s, noticed)
    \/ RecoverLoad
    \/ \E snap \in loaded : RecoverInstall(snap)
    \/ Restart

Spec == Init /\ [][Next]_vars

---------------------------------------------------------------------------
(* Properties *)

\* What recover() accepts is one snapshot that some save encoded, whole: never a
\* torn file, and never a blend of two saves that wrote over each other.
RecoveredWasSaved == restored \subseteq encoded

(* A statement of the tests that the code does not keep; see README. *)

\* Once a save has returned true and no other one has started, recover() accepts
\* the file.
SavedFileLoads == reported => \A f \in file : decodes(f)

=============================================================================
