-------------------------------- MODULE Wire --------------------------------
(* The message codec: WireEncoder and WireDecoder (protocol.hpp), the object   *)
(* codec (wire.hpp) and the message encoders and decoders (messages.hpp).      *)
(*                                                                             *)
(* A payload is a sequence of words.  A u8, u16, u32, u64, f64 or id takes one *)
(* word whatever its width; a string is a length word and one word per         *)
(* character; a repeated group is a count word and its items.  Enumerations    *)
(* are their numbers.  Of fields that the codec treats alike one is kept: the  *)
(* owner for the other strings, the model for the other optional ids, two      *)
(* dimensions for the twelve, the residency for the lifecycle, last_used for   *)
(* the other counters.                                                         *)
EXTENDS Naturals, Sequences, SequencesExt

CONSTANTS
  MaxDeps,      \* bound on an object's dependency kinds (64 in the code)
  MaxActions,   \* bound on a HELLO's action list (64)
  MaxItems      \* bound on every other repeated group (4096, or 8192)

NumDims  == 2
NumKinds == 12

ASSUME LimitsAssumption ==
  {MaxDeps, MaxActions, MaxItems} \subseteq Nat /\ MaxDeps >= NumKinds

\* The outcome of reading: the value and the cursor behind it, or a refusal.
Got(v, at) == [ok |-> TRUE, v |-> v, at |-> at]
Refused    == [ok |-> FALSE]

\* Read on from r, unless r was refused.  (The singleton binds r's value.)
Then(r, F(_)) == CHOOSE y \in {IF x.ok THEN F(x) ELSE Refused : x \in {r}} : TRUE

-----------------------------------------------------------------------------
(* What is encoded.  Enumerated fields are in the decoder's range, as both ends *)
(* share the enumerations.                                                     *)

Strings     == Seq(Nat)
Optional(S) == [{} -> S] \cup [{1} -> S]

IsObject(o) ==
  /\ DOMAIN o.deps \subseteq 0..(NumKinds - 1)
  /\ o \in [id : Nat, category : 0..11, owner : Strings, model : Optional(Nat),
             state : 0..9, reason : Strings, dims : [1..NumDims -> 0..5],
             last_used : Nat, residency : 0..4, warmth_gen : Nat,
             deps : [DOMAIN o.deps -> Nat], invalidation : Optional(Strings),
             provenance : 0..4]

AreObjects(os) == os \in Seq(ToSet(os)) /\ \A i \in DOMAIN os : IsObject(os[i])

IsHello(h) ==
  /\ AreObjects(h.observed)
  /\ h \in [version : Nat, worker : Nat, boot : Nat, backend : Strings,
             devices : Seq(Strings), actions : Seq(Nat), observed : {h.observed}]

IsReport(p) ==
  /\ AreObjects(p.objects)
  /\ p \in [boot : Nat, epoch : Nat, warmth_gen : Nat, dep_gen : Nat,
             objects : {p.objects}]

HelloAcks ==
  [accepted : BOOLEAN, reason : Strings, epoch : Nat, warmth_gen : Nat, dep_gen : Nat,
   policy_gen : Nat]
Commands   == [object : Nat, action : Nat, attempt : Nat]
WarmTopics == [epoch : Nat, warmth_gen : Nat, cmds : Seq(Commands)]
WarmResults ==
  [boot : Nat, epoch : Nat, warmth_gen : Nat, dep_gen : Nat, object : Nat, action : Nat,
   attempt : Nat, success : BOOLEAN, bytes : Nat, error : Strings]

-----------------------------------------------------------------------------
(* WireEncoder *)

Str(s)       == <<Len(s)>> \o s
Flag(b)      == <<IF b THEN 1 ELSE 0>>
Opt(o, E(_)) == IF o = <<>> THEN <<0>> ELSE <<1>> \o E(o[1])
List(xs, E(_)) == <<Len(xs)>> \o FlattenSeq([i \in DOMAIN xs |-> E(xs[i])])
Word(v)      == <<v>>

\* Id128::is_valid: the all-zero identity marks an absent one.
is_valid(id) == id # 0

\* An optional field as the encoder writes it: an invalid identity and an empty
\* invalidation reason are written as absent.
PresentId(o)     == IF o # <<>> /\ is_valid(o[1]) THEN o ELSE <<>>
PresentReason(o) == IF o # <<>> /\ o[1] # <<>> THEN o ELSE <<>>

\* The dependency generations, sorted by kind.
SortedDeps(deps) ==
  LET kinds == CHOOSE s \in SetToSeqs(DOMAIN deps) :
                 \A i, j \in DOMAIN s : i < j => s[i] < s[j]
  IN  [i \in DOMAIN kinds |-> <<kinds[i], deps[kinds[i]]>>]

encode_object(o) ==
  <<o.id, o.category>> \o Str(o.owner) \o Opt(PresentId(o.model), Word)
    \o <<o.state>> \o Str(o.reason) \o o.dims
    \o <<o.last_used, o.residency, o.warmth_gen>>
    \o List(SortedDeps(o.deps), LAMBDA d: d)
    \o Opt(PresentReason(o.invalidation), Str) \o <<o.provenance>>

encode_hello(h) ==
  <<h.version, h.worker, h.boot>> \o Str(h.backend) \o List(h.devices, Str)
    \o List(h.actions, Word) \o List(h.observed, encode_object)

encode_hello_ack(a) ==
  Flag(a.accepted) \o Str(a.reason)
    \o <<a.epoch, a.warmth_gen, a.dep_gen, a.policy_gen>>

encode_report(p) ==
  <<p.boot, p.epoch, p.warmth_gen, p.dep_gen>> \o List(p.objects, encode_object)

encode_warm_topic(t) ==
  <<t.epoch, t.warmth_gen>>
    \o List(t.cmds, LAMBDA c: <<c.object, c.action, c.attempt>>)

encode_warm_result(r) ==
  <<r.boot, r.epoch, r.warmth_gen, r.dep_gen, r.object, r.action, r.attempt>>
    \o Flag(r.success) \o <<r.bytes>> \o Str(r.error)

-----------------------------------------------------------------------------
(* WireDecoder: every reader takes the payload and a cursor. *)

word(s, at) == IF at <= Len(s) THEN Got(s[at], at + 1) ELSE Refused

\* A u8 that must name a member of an enumeration of n members.
enum(s, at, n) ==
  IF at <= Len(s) /\ s[at] < n THEN Got(s[at], at + 1) ELSE Refused

flag(s, at) == IF at <= Len(s) THEN Got(s[at] # 0, at + 1) ELSE Refused

\* A length that runs past the payload is refused before anything is taken.
str(s, at) ==
  Then(word(s, at), LAMBDA n :
    IF n.v <= Len(s) - at THEN Got(SubSeq(s, n.at, at + n.v), n.at + n.v) ELSE Refused)

\* A presence byte, 0 or 1, and the item.
opt(s, at, Item(_, _)) ==
  Then(enum(s, at, 2), LAMBDA p :
    IF p.v = 0 THEN Got(<<>>, p.at)
    ELSE Then(Item(s, p.at), LAMBDA x : Got(<<x.v>>, x.at)))

\* A count, refused above its bound, and that many items.
list(s, at, bound, Item(_, _)) ==
  Then(word(s, at), LAMBDA n :
    LET read[i \in 0..n.v] ==
          IF i = 0 THEN Got(<<>>, n.at)
          ELSE Then(read[i - 1], LAMBDA acc :
                 Then(Item(s, acc.at), LAMBDA x : Got(Append(acc.v, x.v), x.at)))
    IN  IF n.v <= bound THEN read[n.v] ELSE Refused)

\* n words, as one tuple.
words(s, at, n) ==
  IF n <= Len(s) + 1 - at THEN Got(SubSeq(s, at, at + n - 1), at + n) ELSE Refused

\* The dependency generations: known kinds, none of them twice.
deps(s, at) ==
  Then(list(s, at, MaxDeps, LAMBDA t, p : words(t, p, 2)), LAMBDA r :
    LET kind(i) == r.v[i][1]
    IN  IF /\ \A i \in DOMAIN r.v : kind(i) < NumKinds
           /\ \A i, j \in DOMAIN r.v : kind(i) = kind(j) => i = j
        THEN Got([k \in {kind(i) : i \in DOMAIN r.v} |->
                    r.v[CHOOSE i \in DOMAIN r.v : kind(i) = k][2]], r.at)
        ELSE Refused)

\* The fields of a layout, in its order, as a record.
fields(layout, s, at, Read(_, _, _)) ==
  LET read[i \in 0..Len(layout)] ==
        IF i = 0 THEN Got(<<>>, at)
        ELSE Then(read[i - 1], LAMBDA acc :
               Then(Read(layout[i], s, acc.at), LAMBDA x :
                 Got([n \in DOMAIN acc.v \cup {layout[i]} |->
                        IF n = layout[i] THEN x.v ELSE acc.v[n]], x.at)))
  IN  read[Len(layout)]

\* Enumerated bytes, with the number of values the decoder knows.
EnumSize == [category |-> 12, state |-> 10, residency |-> 5, provenance |-> 5]

\* Mutant: two fields of the decoder swapped.
ObjectLayout_Swapped ==
  <<"id", "category", "owner", "model", "state", "reason", "dims", "residency",
    "last_used", "warmth_gen", "deps", "invalidation", "provenance">>

\* The order in which decode_object reads.
ObjectLayout ==
  <<"id", "category", "owner", "model", "state", "reason", "dims", "last_used",
    "residency", "warmth_gen", "deps", "invalidation", "provenance">>

ReadObjectField(name, s, at) ==
  CASE name \in DOMAIN EnumSize    -> enum(s, at, EnumSize[name])
    [] name \in {"owner", "reason"} -> str(s, at)
    [] name = "model"              -> opt(s, at, word)
    [] name = "invalidation"       -> opt(s, at, str)
    [] name = "deps"               -> deps(s, at)
    [] name = "dims" ->
         Then(words(s, at, NumDims), LAMBDA d :
           IF \A i \in DOMAIN d.v : d.v[i] < 6 THEN d ELSE Refused)
    [] OTHER                       -> word(s, at)

decode_object(s, at) == fields(ObjectLayout, s, at, ReadObjectField)

ReadCmd(s, at) ==
  fields(<<"object", "action", "attempt">>, s, at, LAMBDA name, t, p: word(t, p))

ReadMessageField(name, s, at) ==
  CASE name \in {"accepted", "success"} -> flag(s, at)
    [] name \in {"backend", "reason", "error"} -> str(s, at)
    [] name = "devices" -> list(s, at, MaxItems, str)
    [] name = "actions" -> list(s, at, MaxActions, word)
    [] name = "cmds"    -> list(s, at, MaxItems, ReadCmd)
    [] name \in {"observed", "objects"} -> list(s, at, MaxItems, decode_object)
    [] OTHER -> word(s, at)

decode(layout, s) == fields(layout, s, 1, ReadMessageField)

decode_hello(s) ==
  decode(<<"version", "worker", "boot", "backend", "devices", "actions",
           "observed">>, s)
decode_hello_ack(s) ==
  decode(<<"accepted", "reason", "epoch", "warmth_gen", "dep_gen",
           "policy_gen">>, s)
decode_report(s) ==
  decode(<<"boot", "epoch", "warmth_gen", "dep_gen", "objects">>, s)
decode_warm_topic(s) ==
  decode(<<"epoch", "warmth_gen", "cmds">>, s)
decode_warm_result(s) ==
  decode(<<"boot", "epoch", "warmth_gen", "dep_gen", "object", "action",
           "attempt", "success", "bytes", "error">>, s)

-----------------------------------------------------------------------------
(* What the pair promises, stated without the codec. *)

\* An object as its receiver should see it: absent and "present but void" are
\* one thing on the wire.
Normal(o) ==
  [o EXCEPT !.model = PresentId(@), !.invalidation = PresentReason(@)]
=============================================================================
