# Warmth Fabric: TLA+ models, checks and proofs

Warmth Fabric (C++, `src/`) tracks how ready ("warm") the objects behind an
inference service are: models, engines, CUDA contexts, caches. An in-process
`WarmthFabric` owns the objects of one workload; a `Coordinator` owns the
distributed view, fed by `Worker` processes over framed TCP. This directory holds
TLA+ models of the parts that keep state under concurrency and failure, TLC runs
on small instances, and TLAPS proofs of the central facts.

`PROJECT.json` lists runs, findings, hazards, theorems and, for every
definition, the source lines it models.

## 1. Inventory

| Component | State | Operations | What is hard |
|---|---|---|---|
| Warmth state machine (`warmth_state.hpp`, `warmth_object.hpp`) | one of 10 states per object | guarded `transition`, `reach_warm` / `make_warm` | a refused transition returns false and most callers ignore it |
| Decay (`decay.hpp`, `time.hpp`) | none | `decay_object` | precedence of the rules, switched-off thresholds |
| Budget tracker (`budget.hpp`) | limits, usage per kind, reservations, next id | `reserve`, `release`, `fits` | leaks and double releases; tests at the limit; counters that wrap around |
| Coordinator (`coordinator.cpp`) | objects, registered connections, last boot and objects per worker, attempts in flight, budget, epoch and generations | HELLO, REPORT, WARM_RESULT, disconnect, `issue_warm`, bumps, `roll_epoch`, `wait_until_settled`, start/accept/stop | a thread per connection; late, lost and reordered frames; worker restarts; two steps outside the lock; a stop that closes one list and joins another |
| Worker (`worker.cpp`) | connection, learnt generations, observed objects | `connect`, `run`, `request_shutdown` | acts on generations that may be out of date; notices a shutdown only after a frame |
| Fabric (`fabric.cpp`) | objects, budget, generations, policy | register, upsert, transition, invalidate, demote, evict, `warm`, `warm_to_ready`, decay, bumps, save, recover, plan, explain | `warm` works outside the lock between two critical sections |
| Persistence (`persistence.cpp`) | the snapshot file | encode, decode, save, load | in-place truncation, crashes, failed writes, overlapping saves |
| Messages and framing (`messages.hpp`, `wire.hpp`, `protocol.hpp`) | what is on the wire | encode, decode, write and read frames | writers that do not share a lock; frames cut off; two lists of fields that must agree; bounds on one side only |
| Transport (`transport.cpp`) | a socket | connect, send, receive | breaks at any byte |
| Dimensions (`warmth_dimensions.hpp`) | 12 statuses per object | composite level | the rule changes with the first ready dimension |
| Scheduler, policy, cost model | none | estimate cost, score and order candidates | parallel lists that must agree; ties in floating point |
| Identity, hashing, JSON, explanation, invalidation causes, CLI, CUDA backend | none of their own | conversions and I/O | - |

**Interaction.** Connection threads run `handle_frame` under `mutex_`. Callers of
`issue_warm` reserve budget and create an attempt under `mutex_`, then send a
WARM_TOPIC; the worker runs its hook and answers with a WARM_RESULT that carries
the boot, epoch and generations it learnt from its HELLO_ACK. The result is
accepted only if all four match; it then settles the attempt, releases its two
reservations and warms the object. `roll_epoch` starts a new era: it invalidates
what is live and abandons what is in flight. `wait_until_settled` sleeps on a
condition variable under a *different* mutex. `WarmthFabric::warm` is the same
idea in one process: reserve and mark PREPARING, work outside the lock, apply.
`stop()` closes the listener and the registered connections, and joins every
connection thread, while the accept loop may still be adding one.

**What makes it correct.** Readiness is never stale: an object the system calls
execution-ready was warmed in this epoch, by a process that is still there, and is
on the device. Reservations are exactly those of the work in progress. Attempts
settle, preparation ends, waits and `stop()` return. What is recovered is what was saved, and
nothing recovered counts as ready; the last is what `recover()` means to do and does
except for objects saved HOT.

## 2. Modules

| Module | Models | Composes |
|---|---|---|
| `WarmthState` | states, transition table, `transition`, `reach_warm`, `decay_object` as operators | - |
| `WarmBudget` | `BudgetTracker` as the warming paths use it, as operators on a record | - |
| `Budget` | `BudgetTracker` on its own: amounts, limits, wrap-around, any caller | - |
| `WarmAuthority` | what the coordinator promises (abstract) | `WarmBudget` |
| `Coordinator` | the coordinator, its workers and the connections between them; implements `WarmAuthority` | `WarmthState`, `WarmBudget` |
| `SettleWait` | `wait_until_settled` and the threads that notify it | - |
| `Shutdown` | `stop()`, the accept loop, connection threads and the workers' `run()` | - |
| `Fabric` | the in-process fabric under concurrent callers | `WarmthState`, `WarmBudget` |
| `Planner` | dimensions, cost estimate, advice, score and plan as operators | `WarmthState` |
| `FabricView` | what `plan()` and `explain()` say of the fabric's objects | `Fabric`, `Planner` |
| `Persistence` | the snapshot file, save and recover | `WarmthState` |
| `Wire` | encoders and decoders of objects and messages as operators | - |
| `Framing` | one direction of a connection: writers, frames, the stream, the reader | `Wire` |
| `WarmthStateProofs`, `CoordinatorProofs`, `SettleWaitProofs`, `FabricProofs`, `ShutdownProofs`, `PersistenceProofs`, `BudgetProofs`, `FramingProofs` | theorems | the module they are named after (`FabricProofs`: `FabricView`) |
| `MC*` | instances for TLC | the module they are named after (`MCFabric`: `FabricView`) |

Definitions named `X_Something` after "Mutant:" are faulty variants of `X`. They
are not part of any specification; they serve to show that a property notices the
fault.

### WarmthState, WarmBudget, Budget
The transition table is copied edge by edge. `reach_warm` is both the
coordinator's `reach_warm` and the state part of the fabric's `make_warm`. Idle
times and thresholds are numbers in one unit; a threshold 0 switches its rule off.
Both warming paths reserve one fixed amount of `DEVICE_MEMORY` and one
`CONCURRENT_WARMING_OPS`, so the tracker counts reservations: a limit of L there
is floor(limit / amount) here, and `Unlimited` is the code's 0. `Budget` is the
tracker itself: `reserve`, `release` and `set_limit` with amounts, `usage_` and
`next_id_` modulo `Word` (2^64 in the code). `wrapped` and `reissued` record that a
counter wrapped and that an id was given out while it was outstanding; `Held(k)` is
what reservations of a kind hold, counted unit by unit.

### Coordinator
`objects`, `workers`, `last_boot`, `worker_objects`, `in_flight`,
`in_flight_count`, `attempt_counter`, `budget`, `cs` are the members of the same
name. `toCoord` and `toWorker` are the two directions of every connection: FIFO,
and a tail of what was sent is lost when the worker's end closes. Each critical
section is one action. Three operations continue after the lock:

- HELLO: `HandleHello` registers; `SendAck` then loads epoch and generations, each
  at a moment of its own (any value since the lock), and sends the ack.
- `issue_warm`: `IssueWarm` reserves; `SendTopic` or `SendTopicFails` follows, and
  the attempt may have been settled or abandoned in between.
- WARM_RESULT and `roll_epoch` notify the condition variable; that is `SettleWait`.

`author` and `voucher` are history variables: whose result warmed an object, and
who last reported its dimensions. They influence nothing.

Abstractions: the four device-local dimensions are written together and are one
status; an observation in HELLO or REPORT is any member of `Observations` (the
worker's own `observed_` map is not tracked) and a HELLO carries at most one;
reasons, timestamps, costs, residency and provenance influence no decision of the
coordinator. `WorkerReport` stands for any client that sends REPORT frames.

`WarmAuthority` is the promise behind it: numbered attempts that hold one
reservation of each kind until they are closed, once; readiness that comes only from
a success closed in the current era; a new era that ends all of it. `Coordinator`
maps its epoch to the era, `in_flight` to the open attempts, the usage counters to
what is held, and the epoch in `author` to the era an object is ready in.

### SettleWait
Program counters for the waiters, because the test of the predicate and the sleep
are two steps for a notifier that does not hold `warm_mutex_`. A notification
wakes those asleep and nobody else; a wakeup may also be spurious. `overtaken`
records that a notification found a waiter between the two steps.

### Shutdown
`stop()` is a sequence of steps: set `stopping_`, close the listener, close what
`workers_` holds, take the range of `threads_`, join it one by one, clear it. The
accept loop runs against it (test, blocked in `::accept`, carrying a connection to
`on_connection`), and so do connection threads (HELLO, end of the connection) and
workers (connect, `request_shutdown`, `run()` returning, leaving). Two things depend
on the platform and are left open: whether closing the listening socket ends an
`::accept` that is blocked on it (`unblocks`; on Linux it does not, and that call may
still return a connection), and what an unsynchronised append to `threads_` does to
the loop that joins it (nothing, or the end of the process). `swept` is what `stop()`
found registered; `late` records an append after the joining began.

### Fabric
One action per public operation; `warm` is `WarmBegin` and `WarmEnd` around the
operation, which succeeds or fails. A refused slot does not stop a warming, and the
outcome of `transition(WARM)` is not looked at, as in the code. Not actions:
`mark_used` (only feeds the idle time, an input of `Decay`) and `set_dimension(s)`
(no operation modelled here decides on them; `Planner` takes any). `RawStates`
and `RawResidencies` bound what callers force with `transition` and `upsert`.

`snapshot()` holds `mutex_` and calls `objects()`, which locks it again: undefined
behaviour for `std::mutex`. `SaveReturns` and `SaveHangs` are the two outcomes a build
can produce, going on or never returning. Two history variables record what the
properties have to except: `replaced`, that the last `recover()` met `warm` calls in
progress, and `unearned`, the objects that `transition`, `upsert` or `recover()` made
execution-ready and that have been ready since. No warming stands behind those.

### Planner, FabricView
Operators over a record of state, category and the twelve dimensions. Numbers are
scaled to integers. In doubles, scores that are equal on paper may differ by a
rounding, so `MayPrecede` lets a plan have such objects in either order unless their
preferences are the same numbers; then the id decides, as in the code. `FabricView`
states the properties of every object of the fabric, with all the bounded inputs for
what `Fabric` leaves out of an object.

### Persistence
A file is a sequence of units (header, generations, policy, count, one per object).
`SaveOpen` encodes and truncates; `SaveWrite` writes the next unit at the saver's
own offset, so two savers may write over each other; `SaveError` is a failed write,
noticed or (in the stream's destructor) not; `Restart` kills the process anywhere.
`RecoverLoad` reads and validates without the lock, `RecoverInstall` replaces the
fabric's state. `register_object` is split where it reads the generation before
locking. The CRC-32 is taken to tell payloads apart and stands for the payload.
A write that stops inside a unit counts as the unit missing: the decoder refuses
both.

### Wire, Framing
A payload is a sequence of words; strings and repeated groups carry their length.
The encoders list the fields as the code does; the decoders read by a layout of
their own (`ObjectLayout` and the lists in `decode_*`), so that the two orders are
compared and not shared. Every refusal is there: truncation, an unknown enumeration
value, a presence byte above 1, a count above its bound, a dependency kind twice.

`Framing` takes one direction, chosen in `Init`. A frame is the write_all calls of
`FrameWriter::write`; each `Send` passes on all or part of one of them. "down" holds
`send_mutex` for the frame, "up" has no lock. The reader waits for a header, a
payload and a checksum in turn. What one direction causes in the other (an answer to
a frame) is in `Coordinator`, where a frame is one step. `Break` loses a tail of the
stream.

Two facts about bytes are assumed: a payload does not look like a header, and the
CRC-32 tells apart the payloads that occur. A header read out of place is refused.

## 3. Runs

### Passing

| Run | Instance | Shows |
|---|---|---|
| `Coord_restart` | 1 worker, 2 boots, 2 connections, 2 objects, 2 attempts, 1 report | `ReadyIsBackedByLiveBoot`, `ValidDimsAreVouchedFor`, `RegistryIsLatestBoot`: readiness and VALID dimensions never outlive the process behind them, across death and restart. `NoAttemptForgotten`: an attempt with nothing under way has a worker that is out of touch. `SettledSuccessIsReady`: an accepted success makes its object ready from whatever state. `TypeOK` |
| `Coord_roll` | 1 worker, 1 boot with 2 overlapping connections, 2 attempts, 1 `roll_epoch`, 1 report | `BudgetAccounting`: results, failed sends and `roll_epoch` race to release, and each reservation is released once. `ReadyIsCurrent`, `ReadyOnlyBySettling`: nothing late and no report makes an object ready. `ImplementsAuthority`: every step is one `WarmAuthority` allows |
| `Coord_shared` | 2 workers, 1 object, 2 attempts, 1 generation bump; fair | `ReadyIsBackedByLiveBoot` for an object two workers warm; `AttemptsSettle` |
| `Wait_wakeup` | 2 waiters, 3 attempts; fair | `AsleepOnlyIfOvertaken`, `ReturnsUnlessOvertaken`: the window between test and sleep is the only way to lose a wakeup |
| `Stop_join` | 2 connections, 2 worker ids, both platforms; fair | `StopReturns`: only a connection that is open and was not registered when `stop()` looked can hold it up. `CrashedOnlyIfLate`, `StoppedIsQuiet`: the unlocked append is the only way to a crash, and otherwise nothing is left running. `AcceptLoopEnds`, `SweptWorkersReturn`, `TypeOK` |
| `Budget_amounts` | 6-valued words, amounts 0, 1, 3, 5, limits none and 4, 3 reservations at once | `UsageIsHeld`: the counter is what is held, and returns to zero even after it wrapped. `GrantsRespectLimit`: no grant exceeds the limit in force, at the largest amounts and after it was lowered. `TypeOK` |
| `Fabric_warm` | 1 object, 2 callers, memory for one, or for both and one slot; 1 recovery; callers force HOT at any moment; fair | `BudgetAccounting`, `MemoryNeverOvercommitted`: unless a `recover()` replaced the tracker. `ReadyHasNoReason`, `ReadyIsResident`: unless something other than a warming made the object ready. `RecoveredReadyWasHot`: of what was saved ready, only HOT objects come back ready. `PreparingHasOwner`, `PreparationEnds`, `TypeOK`. Of `FabricView`: `ValidatingImproves`, `AdvicePays` (the advice, the missing parts and the estimate agree), `FurtherRanksFirst` |
| `Persist_overlap` | 1 object, 2 savers, 2 saves, 2 recoveries or restarts, 1 generation bump, failing writes | `RecoveredWasSaved`: what is accepted is one whole snapshot |
| `Frame_stream` | two writers (2 frames and 1), both directions, 1 short send, a break that loses up to 1 word; fair | `FramesArriveIntact`: no cut or mixed frame gets through. `DecodeInvertsEncode`: fields, optional parts and groups at and above their bound. `StreamStaysInSync`: only the worker's two writers can make the reader lose its place. `WrittenIsRead`, `TypeOK` |

**Bounds.** They are the smallest at which the case in question happens: a restart
needs two boots, two connections; a late result needs a second attempt or one
`roll_epoch`; a blend needs two savers; a limit test needs one caller more than the
limit; a displaced, refused or late connection needs a second one. Six values make a
word in which two amounts overflow and ids come round while reservations are held.
The planner is checked over dimensions split at every place between any two statuses,
and with any one dimension out of line: its operators count statuses or look at single
dimensions. The messages of `Frame_stream` have every optional part absent, void and
present and every group empty, at its bound and above it; one is too large to send.
A send takes all it is given, the first word, or all but the last. Attempts, epochs,
bumps, reports, reservation ids, saves and recoveries are counters that only grow, so
each has a named bound in the guard of its action.
HOT is the one state of an object that only callers put it in; they upsert it with no
residency, as the operations tell residencies apart only by being on the device or not.
Connections, callers of `warm` and savers are interchangeable and used symmetrically in
the runs that check no liveness.

**Deadlock** is not checked: every instance stops when its bounds are used up, and
the system itself may be quiet for ever.

**Fairness.** `Coordinator`: weak fairness of each connection's thread, each
worker's loop and each sender in `issue_warm`; all are OS threads blocked only on
input, and the step is enabled only when the input is there. Nothing is assumed of
connecting, leaving, reporting or callers. `SettleWait`: a thread that settled
something goes on to `notify_all`; a waiter with the mutex runs; a woken waiter gets
the mutex in the end (strong fairness, as others may take it in between); spurious
wakeups need not happen. `Fabric`: the warming operation returns and its thread gets
the lock, a property of the hook the code relies on. `Framing`: a thread inside
`write` and the reading thread go on; nobody need start a frame. `Shutdown`: the accept
loop, `stop()` once it was called, and a connection thread or `run()` whose read fails
go on; nobody need call `stop()`, connect, send a HELLO, answer or leave.

### Violations

Each states a sentence of the repository that the code does not keep.

| Run | Property | What happens |
|---|---|---|
| `Coord_hot_report` | `ReadyOnlyBySettling` | A worker reports an unknown object as HOT. The code asks for HOT -> DISCOVERED, which the table does not have, ignores the refusal, and the object enters the view execution-ready (`coordinator.cpp:227`: "No state promotion to execution-ready from a report alone.") |
| `Wait_lost` | `WaitReturns` | The last attempt settles and notifies between a waiter's test and its sleep; it sleeps with nothing in flight |
| `Persist_second_recovery` | `SavedFileLoads` | `recover()` advances `gen_.policy` but keeps the saved policy's generation; the next save writes the two, and the decoder refuses a file in which they differ |

### Observations
Other behaviours seen while modelling, for which no run is kept:

- `save()` locks `mutex_` twice (`fabric.cpp:385`). With glibc it never returns, and
  neither does any later operation; other builds may go on. `PreparationEnds` excepts
  the former.
- The same HOT refusal in `recover()` (`fabric.cpp:406`): an object saved as HOT is
  ready after recovery, although `fabric.cpp:401-402` has it that "Device-local ephemeral
  state is never assumed alive across a restart." It carries the reason
  `restart_revalidation_required` all the while. Only `transition` and `upsert` make an
  object HOT; in `Fabric_warm` they do, and `RecoveredReadyWasHot` names HOT as the one
  state this happens to.
- A worker that disconnects leaves its attempts in `in_flight_` with their
  reservations until the next `roll_epoch` (`coordinator.cpp:301`), and
  `wait_until_settled` waits for them. `AttemptsSettle` therefore excepts attempts
  whose worker is lost, and `NoAttemptForgotten` says there are no others.
- `Worker::request_shutdown` writes to the connection beside `run()` without a lock,
  although `transport.hpp:37` asks for one. `StreamStaysInSync` shows the
  consequence: the coordinator may read a mixture, refuse it and drop the worker; it
  never takes the mixture for a frame. `run()` itself returns only after one more
  frame arrives.
- A HELLO with more than 4096 objects or a REPORT with more than 8192 is encoded and
  sent, and refused by its decoder; the REPORT without an answer.
- Two connections of one boot: when the later one disconnects, the earlier keeps its
  authority without an entry in `workers_`, and its result is accepted even after
  the worker registered under a new boot (`coordinator.cpp:242`). Therefore
  `ReadyIsBackedByLiveBoot` is checked with `ReconnectSameBoot = FALSE`.
- `issue_warm` can put a WARM_TOPIC on a connection before its HELLO_ACK;
  `Worker::connect` then returns false although it was registered.
- An object that was COLD or FAILED when its worker's boot changed keeps the
  invalidation reason when it is warmed (`coordinator.cpp:265`).
- `warm()` returns true and marks DEVICE_RESIDENT when its object was evicted or
  invalidated meanwhile (`fabric.cpp:201-207`). Such an object is not ready, which
  `ReadyHasNoReason` and `ReadyIsResident` rely on. One that became STALE meanwhile is
  ready again: the table allows STALE to WARM.
- A refused CONCURRENT_WARMING_OPS slot does not stop `warm()` (`fabric.cpp:184`).
- `recover()` during `warm()` replaces the tracker (`fabric.cpp:417`): the memory is
  granted again, and the ids of the old tracker may name reservations of the new one.
  `BudgetAccounting` and `MemoryNeverOvercommitted` except it (`replaced`).
- `register_object` of an id that is being warmed replaces the object, and the
  completion of the old warming is applied to the new one.
- `stop()` waits for ever for a connection that never sent HELLO, was refused (a
  refused `Worker::connect` keeps its socket until it is destroyed), was displaced by
  another of its boot, or registered after the sweep (`StopReturns` names them).
- A thread appended to `threads_` while `stop()` joins, or after it, is destroyed
  unjoined, which ends the process (`late`).
- A second, concurrent `stop()` returns before the threads are joined.
- `request_shutdown` is noticed only after the next frame, and the coordinator answers
  no SHUTDOWN; `run()` may return only when the coordinator stops.
- `reserve(kind, 0)` returns 0 with the error NONE; `any_usage()` stays true once
  anything was reserved; OVERFLOW is never returned, and after a wrap-around the
  clamped release counts less than is held.
- `composite_level` falls when the first dimension becomes ready: twelve DISCOVERED
  are PARTIAL, eleven and one READY are DISCOVERED.
- `cost_model::estimate` adds a transfer time in seconds to milliseconds; a PARTIAL
  `prefix_kv_reuse` costs more than a COLD one; SUSPECT dimensions cost nothing of their
  own. Without a COLD dimension the suggested action is INIT_ENGINE, even with a VALID
  engine. Objects that are ready already rank first in a plan.
- `warm()` leaves the dimensions as they were, so a plan goes on asking for what was
  just prepared.
- On POSIX systems `send` to a connection the peer has closed raises SIGPIPE, which
  nothing in the code ignores (`transport.cpp:50`); the models take the failed send as
  returned to its caller, as on Windows.
- The last flush of a save happens in the stream's destructor, where no error is
  seen; and `register_object` reads the generation before it locks, so a `recover()`
  in between leaves an object the next decode refuses. Both also violate
  `SavedFileLoads`.

## 4. Proofs

All for any workers, boots, objects, connections, callers, waiters, savers, messages,
word size and bounds.

| Theorem | Statement |
|---|---|
| `CoordinatorProofs!TypeCorrect` | `Spec => []TypeOK` |
| `CoordinatorProofs!BudgetAccountingHolds` | `Spec => []BudgetAccounting` |
| `CoordinatorProofs!ReadyIsCurrentHolds` | `Spec => []ReadyIsCurrent`, if `"HOT" \notin ObservedStates` |
| `CoordinatorProofs!ReadyOnlyBySettlingHolds` | `Spec => ReadyOnlyBySettling`, same condition |
| `CoordinatorProofs!CoordinatorImplementsAuthority` | `Spec => ImplementsAuthority`, same condition |
| `CoordinatorProofs!RegistryIsLatestBootHolds` | `Spec => []RegistryIsLatestBoot` |
| `CoordinatorProofs!SettledSuccessIsReadyHolds` | `Spec => SettledSuccessIsReady` |
| `CoordinatorProofs!ReadyIsBackedByLiveBootHolds` | `Spec => []ReadyIsBackedByLiveBoot`, if `~ReconnectSameBoot` and `"HOT" \notin ObservedStates` |
| `CoordinatorProofs!ValidDimsAreVouchedForHolds` | `Spec => []ValidDimsAreVouchedFor`, if `~ReconnectSameBoot` |
| `CoordinatorProofs!NoAttemptForgottenHolds` | `Spec => []NoAttemptForgotten` |
| `SettleWaitProofs!OnlyOvertakenSleep` | `Spec => []AsleepOnlyIfOvertaken` |
| `FabricProofs!TypeCorrect` | `Spec => []TypeOK` |
| `FabricProofs!BudgetAccountingHolds` | `Spec => []BudgetAccounting` |
| `FabricProofs!MemoryNeverOvercommittedHolds` | `Spec => []MemoryNeverOvercommitted` |
| `FabricProofs!RecoveredReadyWasHotHolds` | `Spec => RecoveredReadyWasHot` |
| `FabricProofs!ReadyHasNoReasonHolds`, `!ReadyIsResidentHolds` | `Spec => []ReadyHasNoReason`, `Spec => []ReadyIsResident` |
| `FabricProofs!PreparingHasOwnerHolds` | `Spec => []PreparingHasOwner`, if `"PREPARING" \notin RawStates` |
| `FabricProofs!ValidatingNeverHurts` | for every state and every assignment of the twelve dimensions, validating one never raises the cost and, once one is ready, never lowers the level |
| `FabricProofs!ChosenActionPays` | likewise the action `explain()` chooses prepares a dimension that lowers the cost, unless nothing missing is COLD |
| `FabricProofs!ValidatingImprovesHolds`, `!AdvicePaysHolds`, `!FurtherRanksFirstHolds` | `Spec => []ValidatingImproves`, `Spec => []AdvicePays`, `Spec => []FurtherRanksFirst` |
| `ShutdownProofs!TypeCorrect` | `Spec => []TypeOK` |
| `ShutdownProofs!CrashedOnlyIfLateHolds`, `!StoppedIsQuietHolds` | `Spec => []CrashedOnlyIfLate`, `Spec => []StoppedIsQuiet` |
| `PersistenceProofs!RecoveredWasSavedHolds` | `Spec => []RecoveredWasSaved` |
| `BudgetProofs!TypeCorrect`, `!UsageIsHeldHolds` | `Spec => []TypeOK`, `Spec => []UsageIsHeld` |
| `BudgetProofs!GrantsRespectLimitHolds` | `Spec => GrantsRespectLimit` |
| `FramingProofs!TypeCorrect` | `Spec => []TypeOK` |
| `FramingProofs!FramesArriveIntactHolds`, `!StreamStaysInSyncHolds` | `Spec => []FramesArriveIntact`, `Spec => []StreamStaysInSync` |
| `FramingProofs!DecodeInvertsEncodeHolds` | `Spec => []DecodeInvertsEncode` |
| `WarmthStateProofs!ReachWarmIsReady` | `reach_warm` ends ready from every state |
| `WarmthStateProofs!DecayIsAllowed` | whatever `decay_object` proposes the table allows |
| `WarmthStateProofs!DecayNeverWarms` | decay makes no object ready that was not |

**Assumptions.** Each theorem rests on the named assumptions of its module about the
constants (sets are what they stand for, bounds are numbers), which TLC evaluates in
the runs, and on the conditions in the table. The conditions are not conveniences:

- HOT in a report is the finding of `Coord_hot_report`.
- With two connections of one boot, the one that was displaced keeps its authority. It
  can settle an attempt after the one that displaced it has gone, and readiness then
  outlives the registration (see Observations). Nothing keeps a caller from a second
  `Worker::connect()`; the worker process of the CLI calls it once
  (`warmth_cli.cpp:326`).
- `transition` and `upsert` let a caller of the fabric put any state on an object,
  PREPARING included, for which there is then no `warm` call.

The instances of `Coord_restart` and `Fabric_warm` satisfy them.

`FramingProofs` assumes of the messages that they are well-formed (`BodiesAssumption`:
enumerated fields are in range, every other field is any number, string or sequence)
and of the bounds that an object may carry every dependency kind there is
(`LimitsAssumption`: `MaxDeps >= NumKinds`; 64 and 12 in the code). An encoder writes
all of them, so without it an object could be refused by its own decoder. That the
checksum tells payloads apart is part of the model (section 2).

### Coordinator

**Types.** `TypeOK` alone is not inductive: a worker's REPORT is well-formed only
because a client past "unused" has a worker and a boot (`ClientsHaveBoots`).

**Budget.** `BudgetAccounting` says nothing of which ids are free, so a new
reservation might collide with an old one. The strengthening `AccountsInv` ties ids
to attempts: attempt *a* holds reservations *2a-1* and *2a*, every attempt number in
flight is below `attempt_counter`, and `next_id = 2 * attempt_counter - 1`. Issuing
then adds a fresh pair, settling removes exactly one pair, and the counters follow
from cardinalities of finite sets. A failed send after `roll_epoch` finds no attempt
and changes nothing, which is why no reservation is released twice.

**Readiness.** The epoch in `author` is the current one for a ready object: results
must carry the current epoch, `roll_epoch` leaves nothing ready, and no other
operation makes an object ready (`OnlyWarmedIsReady`).

**Refinement.** Under `TypeOK` and `AccountsInv` every step maps to one step of
`WarmAuthority` or to none. Settling closes one attempt, because no other has its
number and `AccountsInv` makes the counters come down by one each; a success closes it
with the current epoch, because the result carries it; a failed send that finds its
attempt gone changes nothing; `roll_epoch` is the new era. Every other step leaves
epoch and accounts alone and makes nothing ready, so it is `Lose` or a stutter.

**Connections.** What the coordinator knows of a worker it knows from frames, so the
invariant `ConnsInv` speaks of both ends and of what is between them: a HELLO is
alone in its channel, sent before the registration and under the name the client was
opened with; every other frame of a worker carries what its HELLO_ACK taught it; the
ConnState of a registered connection names the client's worker and boot
(`EndsAgree`). With it `RegistryIsLatestBoot` is inductive: `workers_` and
`last_boot_` change together in `HandleHello`, and `Disconnect` takes the entry out
only if it is its own.

**Live boots.** Where a boot opens one connection, `DistinctBoots` and
`SoleRegistration` (a registered connection is the one `workers_` names) follow. A result is
accepted from a registered connection only, so its author is live when the object
becomes ready; a registration that ends or is replaced demotes every object in the
worker's `worker_objects`. That the object is there is the part that
must be carried along (`Backed`): the author's worker holds the object in
`worker_objects` as long as it is ready. `DimsBacked` is the same for reports, and
says besides that an object without an entry in `objects_` has COLD dimensions, since
the sweeps reset only those that have one.

**Forgotten attempts.** `NoAttemptForgotten` follows an attempt through its exchange:
`Carried` (in `unsent`, a topic in one channel or a result in the other) is handed on
by every step or ends in settling the attempt, unless its worker falls out of touch,
and a worker out of touch stays so (`OutOfTouchStays`). A dropped result must be
explained: the invariants are that what is carried is right about the attempt's object
and worker (`CarriedInv`) and that no generation a worker knows is ahead of the
coordinator's (`GensInv`), so a mismatch means the worker's are behind, for good.

### SettleWait

`AsleepOnlyIfOvertaken` needs the waiters on their way: a waiter between test and
sleep with nothing in flight has a notification to come or was overtaken
(`OvertakenOnTheWay`), and it is the one that holds the mutex.

### Fabric

**Budget.** As for the coordinator the ids must be told apart, but here a call may
have no slot (`op_reservation` 0) and ids follow no pattern. `OwnIds` says that ids
of calls in progress are below `next_id` and pairwise different, `InOrder` that the
tracker holds just these; both only while no `recover()` has replaced the tracker
under a call. `MemoryNeverOvercommitted` is then a matter of the counter and the
calls in progress having the same cardinality when phase 1 compares it with the limit.

**Objects.** Every operation treats an object in one of a few ways (`ObjectStep`), so
`ReadyHasNoReason` and `ReadyIsResident` need one case per way and not per action.
The invariant is `SoundInv`, about the objects outside `unearned`: a raw operation that
makes an object ready puts it there, and so does `recover()`; an operation that finds an
object ready and leaves it ready gives it no reason and does not take it off the device;
and an object leaves `unearned` only by not being ready. `RecoveredReadyWasHot` needs no more
than types: of the ready states, HOT is the one without an edge to DISCOVERED.
`PreparingHasOwner` needs only types: no other operation leaves
an object in PREPARING.

**Plans and explanations.** `Planner` is written without recursion, so its operators
can be reasoned about for all 6^12 assignments of dimensions; `ValidatingNeverHurts` and
`ChosenActionPays` are about all of them, where the run takes a selection. Counts
(`ready_count`, `valid_count`) are cardinalities: validating a dimension adds at most
itself to the sets counted (`ValidatingCounts`), so the level moves one way (`LevelKept`),
except where the first ready dimension changes the rule, which is the exception in the
property. The estimate is a sum of twelve parts, none of which rises (`PartsKept`,
`SyncKept`), and one of which falls for a COLD dimension that advice is given about
(`CostKept`). A score is a sum as well, and each of the three respects in which an
object may be further than another of its category raises it (`FurtherScores`); `TwoPlans`
and `FurtherFirst` take that to the order of a plan. The invariants then need only that an
object of the fabric is in one of the ten states (`TypeInv`).

### Shutdown

`Joins` says how far the joining is: unless a thread was appended late, the range taken
is all of `threads_`, the threads before `joinAt` have ended, a running thread is in
`threads_` until `stop()` returns, and a worker in `workers_` has a running thread.

### Persistence

`RecoveredWasSaved` is about files two savers write in any order, with holes. No
statement about the body of a file is inductive; the header is enough
(`HeadersInv`): the first unit of a file is a hole or the header of some encoded
snapshot, whose checksum stands for the payload, and `decode` compares the two.

### Budget

`UsageIsHeld` needs that giving up a reservation removes its units from `HeldUnits`
and no others, and that a grant adds as many as its amount; sums are cardinalities of
sets of units, as the library has no fact about sums over functions. `fits` compares
`usage` with `limit - amount` and adds nothing, so no case of overflow is left in
`GrantsRespectLimit`.

### Framing

**The stream.** What the reader gets depends on all that was ever sent, of which the
model keeps only the unread part. `FrameInv` therefore claims the existence of the
missing history: `T`, the words sent so far that have arrived or still may; `r`, how
many of them the reader has taken; `at`, the place at which each frame begun would start
if the frames were written one after the other; `q`, how much of its frame each writer has
sent; and `k` and `c`, the frame and the place in it where the worker's two writers first
collided. Up to `c` the stream is the frames in order (`Matches`). While nothing has
collided (`Clean`), at most one writer is inside a frame, it is the last one, and the
stream ends where that writer is. After a collision (`Torn`) the word at `c` is the
`Magic` of the other frame, the direction is "up", and the reader, if it is still
reading, has not got past frame `k`. The reader is at the start of the next frame, or
behind a header that really is that frame's; with a payload in hand, the payload is the
frame's or has a `Magic` in it (`Reader`).

That is why a mixture does not pass: a collision begins with a header word, which
either stands where a header or checksum is expected and is refused, or is in a payload,
whose checksum then is that of no payload that was sent. And it is why a cut does not:
`Break` shortens `T`, and the reader's place in it stays a place in a prefix of the same
frames. With `send_mutex` there is one writer at a time, so "down" is always `Clean`.

**The codec.** `DecodeInvertsEncode` is proved from statements of one form: if the
payload `s` has the words of an encoding from place `a` on (`Carries`, `Spans`), then the
reader of that field, started at `a`, returns the value encoded, up to what the encoder
drops, and the place behind it. It is shown for words, enumerations, flags, strings and
optional parts; for repeated groups by induction on the number of items read, with
the places of the items given by those of the concatenation (`FlattenPlaces`); for the
list of fields of an object or message likewise (`FieldsObject`, `FieldsMessage`), where
the first group above its bound stops the reading and the message is refused
(`HelloReads` and so on). For an object's dependencies the decoder's check for a kind
twice is passed because the encoder writes them sorted and once (`SortedDepsForm`,
`DepsReads`). `MessageReads` puts the five messages together. The inductions are over
sets of natural numbers (`NatInd`, from well-foundedness), as induction over data is not
available with an operator as parameter; this is why each kind of item has its own lemma.

### Only model-checked

Liveness (`AttemptsSettle`, `ReturnsUnlessOvertaken`, `StopReturns`, `AcceptLoopEnds`,
`SweptWorkersReturn`, `PreparationEnds`, `WrittenIsRead`): fairness is out of the
prover's reach. Every other property of a passing run is a theorem.

## 5. Not modelled

- Sockets as such: addresses, options, name lookup. `transport.cpp` is modelled by
  what connections do to their users.
- Hashing and identity: ids are model values, and the checksum is taken to tell
  payloads apart.
- JSON, explanation texts and the names of invalidation causes: formatting for people
  and tools; what is decided (the parts of an explanation) is in `Planner`.
- The CLI: parses arguments and calls the library; its scenario is an instance of
  `Coordinator`.
- The CUDA backend: the warming operation succeeds or fails.
- The worker's `observed_` map: an observation is any member of `Observations`.
- `decay_on_dependency_change` and `decay_on_policy_change` are flags no code reads.

## 6. Plan

The models cover the parts with state, and every safety property TLC checks of them
is proved. What is left, in this order:

1. `WarmBudget` against `Budget`: for a fixed amount A, n*A <= L - A exactly if
   n + 1 <= L \div A, so the counting tracker is the one with amounts.
2. `ReadyIsBackedByLiveBoot` with two connections of a boot, for the objects no
   displaced connection has a result for.

A further step in modelling would be both directions of `Framing` at once, as a
refinement of the channels of `Coordinator`.
