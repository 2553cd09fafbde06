----------------------------- MODULE MCFraming ------------------------------
(* A small instance of Framing for TLC: messages chosen so that every optional *)
(* part is absent, void and present, repeated groups are empty, at their bound *)
(* and above it, and one report is too large to send.                          *)
EXTENDS Framing, TLC

Bare ==
  [id |-> 1, category |-> 11, owner |-> <<>>, model |-> <<>>, state |-> 4,
   reason |-> <<3>>, dims |-> <<0, 3>>, last_used |-> 1, residency |-> 3,
   warmth_gen |-> 1, deps |-> <<>>, invalidation |-> <<>>, provenance |-> 4]

Void == [Bare EXCEPT !.model = <<0>>, !.invalidation = << <<>> >>, !.id = 2]

Full ==
  [Bare EXCEPT !.id = 3, !.owner = <<2, 1>>, !.model = <<5>>, !.state = 7,
               !.deps = (11 :> 2) @@ (0 :> 1), !.invalidation = << <<2>> >>]

HelloOf(os) ==
  [version |-> 1, worker |-> 1, boot |-> 2, backend |-> <<4>>,
   devices |-> << <<0>>, <<1, 0>> >>, actions |-> <<1>>, observed |-> os]

ReportOf(os) ==
  [boot |-> 2, epoch |-> 1, warmth_gen |-> 1, dep_gen |-> 1, objects |-> os]

TwoAndOne == [answers |-> 2, caller |-> 1]

MCHellos  == {HelloOf(<<>>), HelloOf(<<Void, Full>>), HelloOf(<<Bare, Void, Bare>>)}
MCReports == {ReportOf(<<Full, Bare>>), ReportOf(<<Full, Full, Full, Full>>)}
MCAcks    == {[accepted |-> a, reason |-> <<>>, epoch |-> 1, warmth_gen |-> 1,
               dep_gen |-> 1, policy_gen |-> 1] : a \in BOOLEAN}
MCTopics  == {[epoch |-> 1, warmth_gen |-> 1,
               cmds |-> <<[object |-> 1, action |-> 6, attempt |-> 1]>>]}
MCResults == {[boot |-> 2, epoch |-> 1, warmth_gen |-> 1, dep_gen |-> 1,
               object |-> 1, action |-> 6, attempt |-> 1, success |-> TRUE,
               bytes |-> 9, error |-> <<2>>]}
=============================================================================
