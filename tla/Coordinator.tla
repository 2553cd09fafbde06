---------------------------- MODULE Coordinator ----------------------------
(***************************************************************************)
(* The distributed authority of Warmth Fabric: one Coordinator             *)
(* (coordinator.cpp) and the workers (worker.cpp) that connect to it over  *)
(* framed TCP.                                                             *)
(*                                                                         *)
(* Every connection has a thread of the coordinator that reads frames in   *)
(* order; the handlers run under mutex_, so each critical section is one   *)
(* action.  Two operations leave the lock in the middle and are split      *)
(* there: HELLO registers under the lock and sends the HELLO_ACK after it, *)
(* issue_warm reserves under the lock and sends the WARM_TOPIC after it.   *)
(*                                                                         *)
(* Abstractions.  The four device-local dimensions (CUDA context, kernel,  *)
(* graph, allocator) are always written together and are one status "eph"; *)
(* timestamps, costs, residency, provenance and invalidation reasons do    *)
(* not influence any decision of the coordinator and are left out.         *)
(* PING/PONG and SHUTDOWN frames change no state of the coordinator and    *)
(* are left out, and so are frames that fail to decode.                    *)
(* wait_until_settled only reads in_flight_count; it has its own module.   *)
(***************************************************************************)
EXTENDS WarmthState, WarmBudget, Sequences

CONSTANTS
    Workers,           \* WorkerIds
    Boots,             \* WorkerBootIds: one per worker process
    Objects,           \* WarmthObjectIds
    Conns,             \* TCP connections, each used once
    NoWorker, NoBoot, NoConn,
    ObservedStates,    \* states a worker may put in HELLO or REPORT
    ObservedEph,       \* device-local dimension statuses it may put there
    ReconnectSameBoot, \* may a boot open a second connection?
    WorkersMayLeave,   \* may a worker process die or its connection break?
    MaxAttempts,       \* bound on issue_warm calls
    MaxEpoch,          \* bound on roll_epoch (the first epoch is 0)
    MaxBumps,          \* bound on bump_warmth/dependency_generation
    MaxReports         \* bound on REPORT frames

ASSUME SentinelAssumption ==
    /\ NoWorker \notin Workers
    /\ NoBoot \notin Boots
    /\ NoConn \notin Conns
ASSUME BoundAssumption ==
    /\ ObservedStates \subseteq WarmthStates
    /\ ObservedEph \subseteq {"COLD", "VALID", "SUSPECT"}
    /\ ReconnectSameBoot \in BOOLEAN
    /\ WorkersMayLeave \in BOOLEAN
    /\ MaxAttempts \in Nat /\ MaxEpoch \in Nat /\ MaxBumps \in Nat
    /\ MaxReports \in Nat

VARIABLES
    epoch, warmth_gen, dep_gen, \* the authority generations
    objects,         \* objects_: the coordinator's view of every object
    workers,         \* workers_: the registered connection of every worker
    last_boot,       \* last_boot_
    worker_objects,  \* worker_objects_: what each worker is known to hold
    budget,          \* budget_
    in_flight,       \* in_flight_: the set of unsettled attempts
    in_flight_count, \* in_flight_count_
    attempt_counter, \* attempt_counter_
    unsent,          \* attempts reserved by issue_warm, WARM_TOPIC not yet sent
    cs,              \* ConnState of every connection
    ack,             \* HELLO_ACKs decided under the lock, not yet sent
    client,          \* the worker's end of every connection
    toCoord,         \* frames in transit to the coordinator, per connection
    toWorker,        \* frames in transit to the worker, per connection
    bumps, reports,  \* bound counters
    author,          \* history: whose result last made an object warm
    voucher          \* history: who last reported the object's dimensions

authority == <<epoch, warmth_gen, dep_gen>>
accounts  == <<budget, in_flight, in_flight_count, attempt_counter>>
registry  == <<workers, last_boot, worker_objects>>
channels  == <<toCoord, toWorker>>
bounds    == <<bumps, reports>>
history   == <<author, voucher>>
vars == <<authority, objects, registry, accounts, unsent, cs, ack, client,
          channels, bounds, history>>

---------------------------------------------------------------------------
(* Types *)

EphStatuses == {"COLD", "VALID", "SUSPECT"}

\* "ABSENT" is the state of an object objects_ has no entry for.
ObjectRecords == [state : WarmthStates \cup {"ABSENT"}, eph : EphStatuses]
AbsentObject  == [state |-> "ABSENT", eph |-> "COLD"]

Attempts == [attempt : Nat, object : Objects, worker : Workers,
             reservation_id : Nat, op_reservation_id : Nat]

Observations == [object : Objects, state : ObservedStates, eph : ObservedEph]

HelloMsgs  == [type : {"HELLO"}, worker : Workers, boot : Boots,
               observed : SUBSET Observations]
ReportMsgs == [type : {"REPORT"}, boot : Boots, epoch : Nat, warmth_gen : Nat,
               dep_gen : Nat, observed : Observations]
ResultMsgs == [type : {"WARM_RESULT"}, boot : Boots, epoch : Nat, warmth_gen : Nat,
               dep_gen : Nat, object : Objects, attempt : Nat, success : BOOLEAN]
AckMsgs    == [type : {"HELLO_ACK"}, accepted : BOOLEAN, epoch : Nat,
               warmth_gen : Nat, dep_gen : Nat]
TopicMsgs  == [type : {"WARM_TOPIC"}, object : Objects, attempt : Nat]
ErrorMsgs  == [type : {"ERROR"}]

ConnStates == [registered : BOOLEAN, id : Workers \cup {NoWorker},
               boot : Boots \cup {NoBoot}]
Clients    == [status : {"unused", "connecting", "running", "failed", "closed"},
               worker : Workers \cup {NoWorker}, boot : Boots \cup {NoBoot},
               epoch : Nat, warmth_gen : Nat, dep_gen : Nat]
\* The generations of a pending ack are those at the end of the critical section.
PendingAcks == [verdict : {"none", "accept", "reject"}, epoch : Nat,
                warmth_gen : Nat, dep_gen : Nat]
NoAck == [verdict |-> "none", epoch |-> 0, warmth_gen |-> 0, dep_gen |-> 0]

\* No epoch: the first one is 0.
NoEpoch  == -1
Authors  == [worker : Workers \cup {NoWorker}, boot : Boots \cup {NoBoot},
             epoch : Nat \cup {NoEpoch}]
NoAuthor == [worker |-> NoWorker, boot |-> NoBoot, epoch |-> NoEpoch]

AuthorityType ==
    /\ epoch \in Nat /\ warmth_gen \in Nat /\ dep_gen \in Nat
    /\ bumps \in Nat /\ reports \in Nat

ViewType ==
    /\ objects \in [Objects -> ObjectRecords]
    /\ author \in [Objects -> Authors]
    /\ voucher \in [Objects -> Authors]

RegistryType ==
    /\ workers \in [Workers -> Conns \cup {NoConn}]
    /\ last_boot \in [Workers -> Boots \cup {NoBoot}]
    /\ worker_objects \in [Workers -> SUBSET Objects]
    /\ cs \in [Conns -> ConnStates]

AccountsType ==
    /\ budget \in Trackers
    /\ in_flight \in SUBSET Attempts
    /\ in_flight_count \in Nat
    /\ attempt_counter \in Nat \ {0}

ExchangeType ==
    /\ unsent \in SUBSET [attempt : Nat, object : Objects, conn : Conns]
    /\ ack \in [Conns -> PendingAcks]
    /\ client \in [Conns -> Clients]
    /\ toCoord \in [Conns -> Seq(HelloMsgs \cup ReportMsgs \cup ResultMsgs)]
    /\ toWorker \in [Conns -> Seq(AckMsgs \cup TopicMsgs \cup ErrorMsgs)]

\* The type invariant.
TypeOK ==
    /\ AuthorityType
    /\ ViewType
    /\ RegistryType
    /\ AccountsType
    /\ ExchangeType

Init ==
    /\ epoch = 0 /\ warmth_gen = 0 /\ dep_gen = 0
    /\ objects = [o \in Objects |-> AbsentObject]
    /\ workers = [w \in Workers |-> NoConn]
    /\ last_boot = [w \in Workers |-> NoBoot]
    /\ worker_objects = [w \in Workers |-> {}]
    /\ budget = EmptyTracker
    /\ in_flight = {}
    /\ in_flight_count = 0
    /\ attempt_counter = 1
    /\ unsent = {}
    /\ cs = [c \in Conns |-> [registered |-> FALSE, id |-> NoWorker, boot |-> NoBoot]]
    /\ ack = [c \in Conns |-> NoAck]
    /\ client = [c \in Conns |-> [status |-> "unused", worker |-> NoWorker,
                                  boot |-> NoBoot, epoch |-> 0,
                                  warmth_gen |-> 0, dep_gen |-> 0]]
    /\ toCoord = [c \in Conns |-> <<>>]
    /\ toWorker = [c \in Conns |-> <<>>]
    /\ bumps = 0 /\ reports = 0
    /\ author = [o \in Objects |-> NoAuthor]
    /\ voucher = [o \in Objects |-> NoAuthor]

---------------------------------------------------------------------------
(* Helpers *)

Ready(o) == is_execution_ready(objects[o].state)

\* The connection is open at the worker's end.
Open(c) == client[c].status \in {"connecting", "running", "failed"}

\* The thread of connection c is between frames and the next one is of this type.
Receives(c, type) ==
    /\ ack[c].verdict = "none"
    /\ toCoord[c] # <<>>
    /\ Head(toCoord[c]).type = type

\* send_frame to connection c: the bytes are lost once the peer has gone.
SentTo(c, msg) ==
    IF Open(c) THEN [toWorker EXCEPT ![c] = Append(@, msg)] ELSE toWorker

\* Mutant: a reported ready state is taken at its word.
Discovered_Trusting(obs) == [state |-> obs.state, eph |-> obs.eph]

\* An object first heard of from a worker.
Discovered(obs) ==
    [state |-> IF is_execution_ready(obs.state)
               THEN transition(obs.state, "DISCOVERED")
               ELSE obs.state,
     eph |-> obs.eph]

\* invalidate_worker_objects_locked and roll_epoch: drop live readiness.
Revoked(obj) ==
    [state |-> IF is_live_warm_state(obj.state) \/ obj.state = "STALE"
               THEN transition(obj.state, "INVALIDATED")
               ELSE obj.state,
     eph |-> "COLD"]

RestartFlags == [memory_pressure |-> FALSE, dependency_changed |-> FALSE,
                 device_reset |-> FALSE, process_restart |-> TRUE]

\* Mutant: the objects of a lost worker keep their state.
Orphaned_KeepsState(obj) == [obj EXCEPT !.eph = "SUSPECT"]

\* Mutant: the device-local dimensions of a lost worker's objects are not doubted.
Orphaned_KeepsDims(obj) ==
    [obj EXCEPT !.state = Decayed(@, DefaultDecayPolicy, RestartFlags, 0)]

\* on_disconnect: process_restart decay under the default policy.  The idle
\* time does not matter to that rule.
Orphaned(obj) ==
    [obj EXCEPT !.state = Decayed(@, DefaultDecayPolicy, RestartFlags, 0),
                !.eph = "SUSPECT"]

\* A successful WARM_RESULT.
Warmed(obj) ==
    LET state == IF obj.state = "ABSENT" THEN "COLD"
                 ELSE IF obj.state = "INVALIDATED"
                      THEN transition(obj.state, "DISCOVERED")
                      ELSE obj.state
    IN  [obj EXCEPT !.state = reach_warm(state)]

Failed(obj) == [obj EXCEPT !.state = transition(@, "FAILED")]

\* The reservations an attempt holds.
HeldBy(as) == {r.reservation_id : r \in as} \cup {r.op_reservation_id : r \in as}

---------------------------------------------------------------------------
(* Worker side *)

\* Worker::connect: open the connection and send HELLO.
Connect(c, w, b, obs) ==
    /\ client[c].status = "unused"
    /\ \/ ReconnectSameBoot
       \/ \A d \in Conns : client[d].worker # w \/ client[d].boot # b
    /\ client' = [client EXCEPT ![c] = [@ EXCEPT !.status = "connecting",
                                                 !.worker = w, !.boot = b]]
    /\ toCoord' = [toCoord EXCEPT ![c] =
                      Append(@, [type |-> "HELLO", worker |-> w, boot |-> b,
                                 observed |-> obs])]
    /\ UNCHANGED <<authority, objects, registry, accounts, unsent, cs, ack,
                   toWorker, bounds, history>>

\* Worker::connect reads its first frame: anything but an accepting HELLO_ACK
\* makes it return false.
ConnectReply(c) ==
    /\ client[c].status = "connecting"
    /\ toWorker[c] # <<>>
    /\ LET m == Head(toWorker[c])
       IN  client' = [client EXCEPT ![c] =
               IF m.type = "HELLO_ACK" /\ m.accepted
               THEN [@ EXCEPT !.status = "running", !.epoch = m.epoch,
                              !.warmth_gen = m.warmth_gen, !.dep_gen = m.dep_gen]
               ELSE [@ EXCEPT !.status = "failed"]]
    /\ toWorker' = [toWorker EXCEPT ![c] = Tail(@)]
    /\ UNCHANGED <<authority, objects, registry, accounts, unsent, cs, ack,
                   toCoord, bounds, history>>

\* Mutant: a failing hook sends no result.
WorkerWarm_SilentFailure(c, success) ==
    /\ client[c].status = "running"
    /\ toWorker[c] # <<>>
    /\ LET m == Head(toWorker[c])
       IN  /\ m.type = "WARM_TOPIC"
           /\ toCoord' = IF success
                 THEN [toCoord EXCEPT ![c] =
                         Append(@, [type |-> "WARM_RESULT", boot |-> client[c].boot,
                                    epoch |-> client[c].epoch,
                                    warmth_gen |-> client[c].warmth_gen,
                                    dep_gen |-> client[c].dep_gen,
                                    object |-> m.object, attempt |-> m.attempt,
                                    success |-> TRUE])]
                 ELSE toCoord
    /\ toWorker' = [toWorker EXCEPT ![c] = Tail(@)]
    /\ UNCHANGED <<authority, objects, registry, accounts, unsent, cs, ack,
                   client, bounds, history>>

\* Worker::handle_frame, WARM_TOPIC: run the hook and send the result under the
\* generations learnt from HELLO_ACK.  The hook succeeds or fails.
WorkerWarm(c, success) ==
    /\ client[c].status = "running"
    /\ toWorker[c] # <<>>
    /\ LET m == Head(toWorker[c])
       IN  /\ m.type = "WARM_TOPIC"
           /\ toCoord' = [toCoord EXCEPT ![c] =
                  Append(@, [type |-> "WARM_RESULT", boot |-> client[c].boot,
                             epoch |-> client[c].epoch,
                             warmth_gen |-> client[c].warmth_gen,
                             dep_gen |-> client[c].dep_gen,
                             object |-> m.object, attempt |-> m.attempt,
                             success |-> success])]
    /\ toWorker' = [toWorker EXCEPT ![c] = Tail(@)]
    /\ UNCHANGED <<authority, objects, registry, accounts, unsent, cs, ack,
                   client, bounds, history>>

\* Mutant: a WARM_TOPIC may be swallowed.
WorkerIgnore_AnyFrame(c) ==
    /\ client[c].status = "running"
    /\ toWorker[c] # <<>>
    /\ toWorker' = [toWorker EXCEPT ![c] = Tail(@)]
    /\ UNCHANGED <<authority, objects, registry, accounts, unsent, cs, ack,
                   client, toCoord, bounds, history>>

\* Worker::handle_frame ignores every other frame.
WorkerIgnore(c) ==
    /\ client[c].status = "running"
    /\ toWorker[c] # <<>>
    /\ Head(toWorker[c]).type # "WARM_TOPIC"
    /\ toWorker' = [toWorker EXCEPT ![c] = Tail(@)]
    /\ UNCHANGED <<authority, objects, registry, accounts, unsent, cs, ack,
                   client, toCoord, bounds, history>>

\* A registered worker reports what it observes of an object.
WorkerReport(c, obs) ==
    /\ client[c].status = "running"
    /\ reports < MaxReports
    /\ reports' = reports + 1
    /\ toCoord' = [toCoord EXCEPT ![c] =
          Append(@, [type |-> "REPORT", boot |-> client[c].boot,
                     epoch |-> client[c].epoch, warmth_gen |-> client[c].warmth_gen,
                     dep_gen |-> client[c].dep_gen, observed |-> obs])]
    /\ UNCHANGED <<authority, objects, registry, accounts, unsent, cs, ack,
                   client, toWorker, bumps, history>>

\* The worker's end closes: connect() failed, the process died or the connection
\* broke.  A tail of what it sent may be lost; what it had to read is.
WorkerClose(c) ==
    /\ Open(c)
    /\ WorkersMayLeave \/ client[c].status = "failed"
    /\ client' = [client EXCEPT ![c].status = "closed"]
    /\ \E n \in 0..Len(toCoord[c]) :
          toCoord' = [toCoord EXCEPT ![c] = SubSeq(@, 1, n)]
    /\ toWorker' = [toWorker EXCEPT ![c] = <<>>]
    /\ UNCHANGED <<authority, objects, registry, accounts, unsent, cs, ack,
                   bounds, history>>

---------------------------------------------------------------------------
(* Coordinator side: connection threads *)

\* Mutant: a second boot displaces the live one.
HelloRejected_Never(m) == FALSE

\* HELLO of a worker id that is live under another boot: refused.
HelloRejected(m) ==
    workers[m.worker] # NoConn /\ cs[workers[m.worker]].boot # m.boot

\* handle_frame, HELLO, up to the end of the critical section.
HandleHello(c) ==
    /\ Receives(c, "HELLO")
    /\ LET m == Head(toCoord[c])
           w == m.worker
           bootChanged == last_boot[w] # NoBoot /\ last_boot[w] # m.boot
           kept == [o \in Objects |->
                       IF bootChanged /\ o \in worker_objects[w] /\ objects[o].state # "ABSENT"
                       THEN Revoked(objects[o])
                       ELSE objects[o]]
           fresh == {obs \in m.observed : kept[obs.object].state = "ABSENT"}
       IN  IF HelloRejected(m)
           THEN /\ ack' = [ack EXCEPT ![c] =
                      [verdict |-> "reject", epoch |-> epoch,
                       warmth_gen |-> warmth_gen, dep_gen |-> dep_gen]]
                /\ UNCHANGED <<objects, registry, cs, voucher>>
           ELSE /\ ack' = [ack EXCEPT ![c] =
                      [verdict |-> "accept", epoch |-> epoch,
                       warmth_gen |-> warmth_gen, dep_gen |-> dep_gen]]
                /\ last_boot' = [last_boot EXCEPT ![w] = m.boot]
                /\ cs' = [cs EXCEPT ![c] = [registered |-> TRUE, id |-> w, boot |-> m.boot]]
                /\ workers' = [workers EXCEPT ![w] = c]
                /\ objects' = [o \in Objects |->
                      IF \E obs \in fresh : obs.object = o
                      THEN Discovered(CHOOSE obs \in fresh : obs.object = o)
                      ELSE kept[o]]
                /\ worker_objects' = [worker_objects EXCEPT ![w] =
                      (IF bootChanged THEN {} ELSE @) \cup {obs.object : obs \in m.observed}]
                /\ voucher' = [o \in Objects |->
                      IF \E obs \in fresh : obs.object = o
                      THEN [worker |-> w, boot |-> m.boot, epoch |-> epoch]
                      ELSE voucher[o]]
    /\ toCoord' = [toCoord EXCEPT ![c] = Tail(@)]
    /\ UNCHANGED <<authority, accounts, unsent, client, toWorker, bounds, author>>

\* handle_frame, HELLO, after the lock: the three generations are loaded one by
\* one, so each may be any value it had since the lock was released, and the
\* HELLO_ACK is sent.
SendAck(c) ==
    /\ ack[c].verdict # "none"
    /\ \E e \in ack[c].epoch..epoch, g \in ack[c].warmth_gen..warmth_gen,
          d \in ack[c].dep_gen..dep_gen :
          toWorker' = SentTo(c, [type |-> "HELLO_ACK",
                                 accepted |-> ack[c].verdict = "accept",
                                 epoch |-> e, warmth_gen |-> g, dep_gen |-> d])
    /\ ack' = [ack EXCEPT ![c] = NoAck]
    /\ UNCHANGED <<authority, objects, registry, accounts, unsent, cs, client,
                   toCoord, bounds, history>>

\* Mutant: the epoch of the frame is not compared.
Authorised_AnyEpoch(c, m) ==
    /\ cs[c].registered
    /\ cs[c].boot = m.boot
    /\ m.warmth_gen = warmth_gen
    /\ m.dep_gen = dep_gen

\* The authority check that REPORT and WARM_RESULT share.
Authorised(c, m) ==
    /\ cs[c].registered
    /\ cs[c].boot = m.boot
    /\ m.epoch = epoch
    /\ m.warmth_gen = warmth_gen
    /\ m.dep_gen = dep_gen

\* An accepted report of an object the coordinator already knows.
Reported(obj, obs) ==
    [obj EXCEPT !.eph = obs.eph,
                !.state = IF is_execution_ready(obs.state) /\ ~is_execution_ready(@)
                          THEN transition(@, "DISCOVERED")
                          ELSE @]

\* handle_frame, REPORT.
HandleReport(c) ==
    /\ Receives(c, "REPORT")
    /\ LET m == Head(toCoord[c])
           o == m.observed.object
       IN  IF Authorised(c, m)
           THEN /\ objects' = [objects EXCEPT ![o] =
                      IF @.state = "ABSENT" THEN Discovered(m.observed)
                                            ELSE Reported(@, m.observed)]
                /\ worker_objects' = [worker_objects EXCEPT ![cs[c].id] = @ \cup {o}]
                /\ voucher' = [voucher EXCEPT ![o] =
                      [worker |-> cs[c].id, boot |-> cs[c].boot, epoch |-> m.epoch]]
                /\ UNCHANGED toWorker
           ELSE /\ toWorker' = SentTo(c, [type |-> "ERROR"])
                /\ UNCHANGED <<objects, worker_objects, voucher>>
    /\ toCoord' = [toCoord EXCEPT ![c] = Tail(@)]
    /\ UNCHANGED <<authority, workers, last_boot, accounts, unsent, cs, ack,
                   client, bounds, author>>

\* Mutant: the counter goes down once per reservation.
Settle_CountsReservations(r) ==
    /\ budget' = release(budget, HeldBy({r}))
    /\ in_flight' = in_flight \ {r}
    /\ in_flight_count' = in_flight_count - 2
    /\ UNCHANGED attempt_counter

\* Release an attempt's reservations, erase it and count it down.
Settle(r) ==
    /\ budget' = release(budget, HeldBy({r}))
    /\ in_flight' = in_flight \ {r}
    /\ in_flight_count' = IF in_flight_count > 0 THEN in_flight_count - 1 ELSE 0
    /\ UNCHANGED attempt_counter

\* The attempt a result settles: same number, worker and object.
Answers(c, m) ==
    {r \in in_flight : r.attempt = m.attempt /\ r.worker = cs[c].id /\ r.object = m.object}

\* handle_frame, WARM_RESULT that is authorised and matches an attempt.
AcceptResult(c) ==
    /\ Receives(c, "WARM_RESULT")
    /\ LET m == Head(toCoord[c])
           o == m.object
       IN  /\ Authorised(c, m)
           /\ \E r \in Answers(c, m) : Settle(r)
           /\ IF m.success
              THEN /\ objects' = [objects EXCEPT ![o] = Warmed(@)]
                   /\ worker_objects' = [worker_objects EXCEPT ![cs[c].id] = @ \cup {o}]
                   /\ author' = [author EXCEPT ![o] =
                         [worker |-> cs[c].id, boot |-> cs[c].boot, epoch |-> m.epoch]]
              ELSE /\ objects' = [objects EXCEPT ![o] =
                         IF @.state = "ABSENT" THEN @ ELSE Failed(@)]
                   /\ UNCHANGED <<worker_objects, author>>
    /\ toCoord' = [toCoord EXCEPT ![c] = Tail(@)]
    /\ UNCHANGED <<authority, workers, last_boot, unsent, cs, ack, client,
                   toWorker, bounds, voucher>>

\* handle_frame, any other WARM_RESULT: dropped without an answer.
DropResult(c) ==
    /\ Receives(c, "WARM_RESULT")
    /\ LET m == Head(toCoord[c])
       IN  ~Authorised(c, m) \/ Answers(c, m) = {}
    /\ toCoord' = [toCoord EXCEPT ![c] = Tail(@)]
    /\ UNCHANGED <<authority, objects, registry, accounts, unsent, cs, ack,
                   client, toWorker, bounds, history>>

\* Mutant: the registration outlives its connection.
Unregistered_Never(w, c) == workers[w]

\* on_disconnect gives up the registration only if c still holds it.
Unregistered(w, c) == IF workers[w] = c THEN NoConn ELSE workers[w]

\* process_connection reads end-of-file; on_disconnect.  The thread ends.
Disconnect(c) ==
    /\ client[c].status = "closed"
    /\ toCoord[c] = <<>>
    /\ ack[c].verdict = "none"
    /\ cs[c].registered
    /\ LET w == cs[c].id
       IN  /\ workers' = [workers EXCEPT ![w] = Unregistered(w, c)]
           /\ objects' = [o \in Objects |->
                 IF o \in worker_objects[w] /\ objects[o].state # "ABSENT"
                 THEN Orphaned(objects[o])
                 ELSE objects[o]]
    \* The ConnState is destroyed with its thread.
    /\ cs' = [cs EXCEPT ![c] = [@ EXCEPT !.registered = FALSE]]
    /\ UNCHANGED <<authority, last_boot, worker_objects, accounts, unsent, ack,
                   client, channels, bounds, history>>

---------------------------------------------------------------------------
(* Coordinator side: callers *)

\* issue_warm, critical section.  The coordinator's tracker has no limits, so
\* both reservations are granted.
IssueWarm(o, w) ==
    /\ attempt_counter <= MaxAttempts
    /\ workers[w] # NoConn
    /\ budget' = ReserveWarm(budget)
    /\ in_flight' = in_flight \cup
          {[attempt |-> attempt_counter, object |-> o, worker |-> w,
            reservation_id |-> budget.next_id, op_reservation_id |-> budget.next_id + 1]}
    /\ in_flight_count' = in_flight_count + 1
    /\ attempt_counter' = attempt_counter + 1
    /\ unsent' = unsent \cup
          {[attempt |-> attempt_counter, object |-> o, conn |-> workers[w]]}
    /\ UNCHANGED <<authority, objects, registry, cs, ack, client, channels,
                   bounds, history>>

\* issue_warm: send_frame returned true; the frame may still be lost.
SendTopic(u) ==
    /\ unsent' = unsent \ {u}
    /\ toWorker' = SentTo(u.conn, [type |-> "WARM_TOPIC", object |-> u.object,
                                   attempt |-> u.attempt])
    /\ UNCHANGED <<authority, objects, registry, accounts, cs, ack, client,
                   toCoord, bounds, history>>

\* issue_warm: send_frame failed because the peer has gone.  The attempt may
\* have been settled or cleared by roll_epoch meanwhile.
SendTopicFails(u) ==
    /\ ~Open(u.conn)
    /\ unsent' = unsent \ {u}
    /\ IF \E r \in in_flight : r.attempt = u.attempt
       THEN \E r \in in_flight : r.attempt = u.attempt /\ Settle(r)
       ELSE UNCHANGED accounts
    /\ UNCHANGED <<authority, objects, registry, cs, ack, client, channels,
                   bounds, history>>

BumpDependencyGeneration ==
    /\ bumps < MaxBumps
    /\ bumps' = bumps + 1
    /\ dep_gen' = dep_gen + 1
    /\ UNCHANGED <<epoch, warmth_gen, objects, registry, accounts, unsent, cs,
                   ack, client, channels, reports, history>>

BumpWarmthGeneration ==
    /\ bumps < MaxBumps
    /\ bumps' = bumps + 1
    /\ warmth_gen' = warmth_gen + 1
    /\ UNCHANGED <<epoch, dep_gen, objects, registry, accounts, unsent, cs,
                   ack, client, channels, reports, history>>

\* Mutant: the abandoned attempts keep their reservations.
RollEpoch_KeepsReservations ==
    /\ epoch < MaxEpoch
    /\ epoch' = epoch + 1
    /\ warmth_gen' = warmth_gen + 1
    /\ dep_gen' = dep_gen + 1
    /\ objects' = [o \in Objects |->
          IF objects[o].state = "ABSENT" THEN objects[o]
          ELSE Revoked(objects[o])]
    /\ in_flight_count' = IF in_flight = {} THEN in_flight_count ELSE 0
    /\ in_flight' = {}
    /\ UNCHANGED <<budget, registry, attempt_counter, unsent, cs, ack, client,
                   channels, bounds, history>>

\* Mutant: roll_epoch leaves the attempts of the old era open.
RollEpoch_KeepsAttempts ==
    /\ epoch < MaxEpoch
    /\ epoch' = epoch + 1
    /\ warmth_gen' = warmth_gen + 1
    /\ dep_gen' = dep_gen + 1
    /\ objects' = [o \in Objects |->
          IF objects[o].state = "ABSENT" THEN objects[o]
          ELSE Revoked(objects[o])]
    /\ UNCHANGED <<accounts, registry, unsent, cs, ack, client, channels,
                   bounds, history>>

\* roll_epoch: a new authority era.  Every live object is invalidated, every
\* attempt is abandoned and its reservations are released.
RollEpoch ==
    /\ epoch < MaxEpoch
    /\ epoch' = epoch + 1
    /\ warmth_gen' = warmth_gen + 1
    /\ dep_gen' = dep_gen + 1
    /\ objects' = [o \in Objects |->
          IF objects[o].state = "ABSENT" THEN objects[o]
          ELSE Revoked(objects[o])]
    /\ budget' = release(budget, HeldBy(in_flight))
    /\ in_flight_count' = IF in_flight = {} THEN in_flight_count ELSE 0
    /\ in_flight' = {}
    /\ UNCHANGED <<registry, attempt_counter, unsent, cs, ack, client, channels,
                   bounds, history>>

---------------------------------------------------------------------------

\* At most one observed object per HELLO keeps the instances small.
HelloObservations == {{}} \cup {{obs} : obs \in Observations}

ConnThread(c) ==
    \/ HandleHello(c) \/ SendAck(c) \/ HandleReport(c)
    \/ AcceptResult(c) \/ DropResult(c) \/ Disconnect(c)

WorkerStep(c) ==
    \/ ConnectReply(c)
    \/ \E success \in BOOLEAN : WorkerWarm(c, success)
    \/ WorkerIgnore(c)

Next ==
    \/ \E c \in Conns : ConnThread(c)
    \/ \E c \in Conns : WorkerStep(c)
    \/ \E c \in Conns, w \in Workers, b \in Boots, obs \in HelloObservations :
          Connect(c, w, b, obs)
    \/ \E c \in Conns, obs \in Observations : WorkerReport(c, obs)
    \/ \E c \in Conns : WorkerClose(c)
    \/ \E o \in Objects, w \in Workers : IssueWarm(o, w)
    \/ \E u \in unsent : SendTopic(u)
    \/ \E u \in unsent : SendTopicFails(u)
    \/ BumpDependencyGeneration
    \/ BumpWarmthGeneration
    \/ RollEpoch

Spec == Init /\ [][Next]_vars

(* Fairness: connection threads, worker loops and callers of issue_warm are OS
   threads blocked only on input that is there, so each keeps running. *)
SenderOf(a) == \E u \in unsent : u.attempt = a /\ (SendTopic(u) \/ SendTopicFails(u))

FairSpec ==
    /\ Spec
    /\ \A c \in Conns : WF_vars(ConnThread(c)) /\ WF_vars(WorkerStep(c))
    /\ \A a \in 1..MaxAttempts : WF_vars(SenderOf(a))

---------------------------------------------------------------------------
(* Properties *)

\* Every unsettled attempt holds exactly its own pair of reservations and nothing
\* else is reserved, whichever of WARM_RESULT, a failed send and roll_epoch
\* settles it; the usage counters and in_flight_count_ agree with in_flight_.
BudgetAccounting ==
    /\ budget.reservations =
          {[id |-> r.reservation_id, kind |-> "DEVICE_MEMORY"] : r \in in_flight}
          \cup {[id |-> r.op_reservation_id, kind |-> "CONCURRENT_WARMING_OPS"] : r \in in_flight}
    /\ \A k \in Kinds : budget.usage[k] = Cardinality(in_flight)
    /\ in_flight_count = Cardinality(in_flight)

\* An execution-ready object was warmed by a result accepted in the current
\* epoch: no late frame revives readiness across roll_epoch.
ReadyIsCurrent == \A o \in Objects : Ready(o) => author[o].epoch = epoch

\* The worker a currently registered connection speaks for, under this boot.
Live(a) ==
    /\ a.worker \in Workers
    /\ workers[a.worker] # NoConn
    /\ cs[workers[a.worker]].boot = a.boot

\* An execution-ready object was warmed by a worker process that is registered
\* now: a disconnect or a restart under a new boot takes its readiness away.
ReadyIsBackedByLiveBoot == \A o \in Objects : Ready(o) => Live(author[o])

\* Device-local dimensions shown VALID were observed in the current epoch by a
\* worker process that is registered now.
ValidDimsAreVouchedFor ==
    \A o \in Objects : objects[o].eph = "VALID" =>
        Live(voucher[o]) /\ voucher[o].epoch = epoch

\* The registered connection of a worker is the one of its latest boot, and its
\* ConnState says so.
RegistryIsLatestBoot ==
    \A w \in Workers : workers[w] # NoConn =>
        /\ cs[workers[w]].registered
        /\ cs[workers[w]].id = w
        /\ cs[workers[w]].boot = last_boot[w]

\* A frame that can still lead to the settlement of an attempt is under way.
UnderWay(a) ==
    \/ \E u \in unsent : u.attempt = a
    \/ \E c \in Conns : \E i \in DOMAIN toWorker[c] :
          toWorker[c][i].type = "WARM_TOPIC" /\ toWorker[c][i].attempt = a
    \/ \E c \in Conns : \E i \in DOMAIN toCoord[c] :
          toCoord[c][i].type = "WARM_RESULT" /\ toCoord[c][i].attempt = a

\* The worker lost a connection, was refused, or acts under generations the
\* coordinator has left behind.
WorkerOutOfTouch(w) ==
    \E c \in Conns :
        /\ client[c].worker = w
        /\ \/ client[c].status \in {"failed", "closed"}
           \/ /\ client[c].status = "running"
              /\ <<client[c].epoch, client[c].warmth_gen, client[c].dep_gen>> # authority

\* An attempt stays in flight with nothing under way for it only when its worker
\* is out of touch: the exchange itself never loses an attempt.
NoAttemptForgotten ==
    \A r \in in_flight : UnderWay(r.attempt) \/ WorkerOutOfTouch(r.worker)

\* Objects become execution-ready only in a step that settles an attempt to warm
\* them: never from a HELLO or a REPORT.
ReadyOnlyBySettling ==
    [][\A o \in Objects : ~Ready(o) /\ Ready(o)' =>
          \E r \in in_flight : r.object = o /\ r \notin in_flight']_vars

\* A successful result that settles an attempt leaves its object execution-ready
\* whatever state the object had reached meanwhile.
SettledSuccessIsReady ==
    [][\A c \in Conns :
          /\ toCoord[c] # <<>> /\ Head(toCoord[c]).type = "WARM_RESULT"
          /\ Head(toCoord[c]).success
          /\ toCoord'[c] = Tail(toCoord[c]) /\ in_flight' # in_flight
          => is_execution_ready(objects'[Head(toCoord[c]).object].state)]_vars

InFlight(a) == \E r \in in_flight : r.attempt = a

\* Every issued attempt settles, unless the worker it went to falls out of touch.
AttemptsSettle ==
    \A a \in 1..MaxAttempts, w \in Workers :
        (\E r \in in_flight : r.attempt = a /\ r.worker = w)
        ~> (~InFlight(a) \/ WorkerOutOfTouch(w))
---------------------------------------------------------------------------
(* The coordinator implements WarmAuthority: connections, frames and the
   generations other than the epoch are its implementation. *)

OpenAttempts ==
    {[attempt |-> r.attempt, object |-> r.object, worker |-> r.worker] : r \in in_flight}
WarmIn == [o \in Objects |-> IF Ready(o) THEN author[o].epoch ELSE NoEpoch]

Authority == INSTANCE WarmAuthority WITH
    era <- epoch, open <- OpenAttempts, issued <- attempt_counter - 1,
    held <- budget.usage, warmIn <- WarmIn

\* Whatever frames are lost, late or sent by a worker that was replaced, every step
\* of the coordinator is one of the steps WarmAuthority allows: each attempt is
\* closed once, by one of WARM_RESULT, a failed send and roll_epoch, and readiness
\* comes from a success closed in the current epoch only.
ImplementsAuthority == Authority!Spec
=============================================================================
