------------------------------ MODULE Shutdown ------------------------------
(***************************************************************************)
(* Coordinator::stop() against the accept loop, the connection threads and *)
(* the workers at the other end (coordinator.cpp, transport.cpp,           *)
(* worker.cpp).                                                            *)
(*                                                                         *)
(* stop() closes the listener, closes the connections it finds in workers_ *)
(* and joins the threads it finds in threads_; the accept loop appends to  *)
(* threads_ without a lock, and connection threads register themselves in  *)
(* workers_ at any time.  A connection thread ends only when its           *)
(* connection does.                                                        *)
(*                                                                         *)
(* Abstractions.  Boots are whether a HELLO's boot is that of the worker   *)
(* registered under its id; what frames do to objects is in Coordinator.   *)
(* stop() is called once (a second call returns at its first line).        *)
(***************************************************************************)
EXTENDS Integers, Sequences

CONSTANTS
    Conns,     \* connections ever made, one per Worker::connect
    Workers,   \* worker ids
    NoConn, NoWorker

ASSUME ShutdownAssumption == NoConn \notin Conns /\ NoWorker \notin Workers

VARIABLES
    stop,      \* the flag run_accept_loop is given
    stopping,  \* stopping_
    listener,  \* whether the listener's sock_ is valid
    unblocks,  \* platform: closing the listening socket ends a blocked ::accept
    loop,      \* where run_accept_loop is
    got,       \* the connection it carries to on_connection
    pc,        \* where stop() is; then the destructor
    joinAt, joinEnd, \* the range of its loop over threads_
    threads,   \* threads_, as the connections they serve
    running,   \* connections whose thread has not ended
    conn,      \* the coordinator's end of each connection
    registered,\* cs->id of a connection with cs->registered
    workers,   \* workers_
    peer,      \* where the Worker at the other end is
    asked,     \* its shutdown_requested_
    swept,     \* history: what stop() found in workers_
    late,      \* history: a thread was appended after stop() began to join
    crashed    \* the process died

loopVars == <<stop, loop, got>>
stopVars == <<stopping, listener, pc, joinAt, joinEnd, swept>>
connVars == <<running, conn, registered, workers>>
peerVars == <<peer, asked>>
vars == <<loopVars, stopVars, connVars, peerVars, unblocks, threads, late, crashed>>

TypeOK ==
    /\ {stop, stopping, unblocks, late, crashed} \subseteq BOOLEAN
    /\ listener \in {"open", "closed"}
    /\ loop \in {"test", "accept", "got", "exited"}
    /\ got \in Conns \cup {NoConn}
    /\ pc \in {"out", "close", "sweep", "begin", "join", "returned", "destroyed"}
    /\ joinAt \in Nat /\ joinEnd \in Nat
    /\ threads \in Seq(Conns)
    /\ running \subseteq Conns /\ swept \subseteq Conns
    /\ conn \in [Conns -> {"none", "pending", "open", "closed"}]
    /\ registered \in [Conns -> Workers \cup {NoWorker}]
    /\ workers \in [Workers -> Conns \cup {NoConn}]
    /\ peer \in [Conns -> {"none", "connecting", "refused", "running", "returned", "gone"}]
    /\ asked \in [Conns -> BOOLEAN]

Init ==
    /\ stop = FALSE /\ stopping = FALSE /\ late = FALSE /\ crashed = FALSE
    /\ unblocks \in BOOLEAN
    /\ listener = "open"
    /\ loop = "test" /\ got = NoConn
    /\ pc = "out" /\ joinAt = 1 /\ joinEnd = 0
    /\ threads = <<>> /\ running = {} /\ swept = {}
    /\ conn = [c \in Conns |-> "none"]
    /\ registered = [c \in Conns |-> NoWorker]
    /\ workers = [w \in Workers |-> NoConn]
    /\ peer = [c \in Conns |-> "none"]
    /\ asked = [c \in Conns |-> FALSE]

---------------------------------------------------------------------------
\* The end of the connection, as recv() on the coordinator's side sees it.
Eof(c) == conn[c] = "closed" \/ peer[c] = "gone"

\* Closed connections, as the coordinator leaves them.
Close(S) == [c \in Conns |-> IF c \in S THEN "closed" ELSE conn[c]]

Pending == {c \in Conns : conn[c] = "pending"}

\* The kernel keeps the listening socket while an ::accept that close() does not
\* end is blocked on it.
Listening == listener = "open" \/ (loop = "accept" /\ ~unblocks)

---------------------------------------------------------------------------
(* run_accept_loop *)

\* The owner of the flag sets it, before or after it calls stop(), or never.
SetStopFlag ==
    /\ ~crashed /\ ~stop
    /\ stop' = TRUE
    /\ UNCHANGED <<loop, got, stopVars, connVars, peerVars, unblocks, threads, late, crashed>>

\* Mutant: a failed accept only looks at the flag.
Failed_FlagOnly == IF stop THEN "exited" ELSE "test"

\* Where a failed accept() takes the loop.
Failed == IF stop \/ stopping THEN "exited" ELSE "test"

\* The loop's test, and accept() on a listener that is closed already.
LoopTest ==
    /\ ~crashed /\ loop = "test"
    /\ loop' = IF stop THEN "exited" ELSE IF listener = "open" THEN "accept" ELSE Failed
    /\ UNCHANGED <<stop, got, stopVars, connVars, peerVars, unblocks, threads, late, crashed>>

\* A blocked ::accept returns a connection.  If close() left the socket to this
\* call, the socket goes away with it, and so does its backlog.
AcceptReturns(c) ==
    /\ ~crashed /\ loop = "accept" /\ Listening
    /\ conn[c] = "pending"
    /\ loop' = "got" /\ got' = c
    /\ conn' = [d \in Conns |->
          IF d = c THEN "open"
          ELSE IF d \in Pending /\ listener = "closed" THEN "closed" ELSE conn[d]]
    /\ UNCHANGED <<stop, running, registered, workers, stopVars, peerVars, unblocks,
                   threads, late, crashed>>

AcceptFails ==
    /\ ~crashed /\ loop = "accept" /\ ~Listening
    /\ loop' = Failed
    /\ UNCHANGED <<stop, got, stopVars, connVars, peerVars, unblocks, threads, late, crashed>>

\* on_connection starts the thread and appends it to threads_, without a lock.
OnConnection ==
    /\ ~crashed /\ loop = "got"
    /\ threads' = Append(threads, got)
    /\ running' = running \cup {got}
    /\ loop' = "test" /\ got' = NoConn
    /\ late' = (late \/ pc \in {"join", "returned"})
    /\ UNCHANGED <<stop, conn, registered, workers, stopVars, peerVars, unblocks, crashed>>

\* The process ends: its side of every connection goes away.
Crash ==
    /\ crashed' = TRUE
    /\ conn' = Close({c \in Conns : conn[c] # "none"})
    /\ running' = {}

\* The append meets the iteration of stop(): undefined, and a reallocation leaves
\* stop() with iterators into freed memory.
OnConnectionCrashes ==
    /\ ~crashed /\ loop = "got" /\ pc = "join"
    /\ Crash
    /\ late' = TRUE
    /\ UNCHANGED <<loopVars, stopVars, peerVars, registered, workers, unblocks, threads>>

---------------------------------------------------------------------------
(* Connection threads *)

\* HELLO of worker w.  Under the boot of the connection registered for w, the new
\* one takes its place (and the old one stays open); under another boot it is
\* refused.  stopping_ is not consulted.
HandleHello(c, w, sameBoot) ==
    /\ c \in running /\ conn[c] = "open"
    /\ registered[c] = NoWorker /\ peer[c] \in {"connecting", "gone"}
    /\ LET accepted == workers[w] = NoConn \/ sameBoot
       IN  /\ registered' = [registered EXCEPT ![c] = IF accepted THEN w ELSE @]
           /\ workers' = [workers EXCEPT ![w] = IF accepted THEN c ELSE @]
           /\ peer' = [peer EXCEPT ![c] = IF @ = "gone" THEN @
                                          ELSE IF accepted THEN "running" ELSE "refused"]
    /\ UNCHANGED <<loopVars, stopVars, running, conn, asked, unblocks, threads, late, crashed>>

\* Mutant: on_disconnect leaves the registry alone.
Unregistered_Kept(c) == workers

\* What on_disconnect leaves of the registry: it removes its own entry only.
Unregistered(c) == [w \in Workers |-> IF workers[w] = c THEN NoConn ELSE workers[w]]

\* read() fails, on_disconnect runs, the thread ends and takes the socket with it.
ThreadEnds(c) ==
    /\ c \in running /\ Eof(c)
    /\ running' = running \ {c}
    /\ conn' = Close({c})
    /\ workers' = Unregistered(c)
    /\ UNCHANGED <<loopVars, stopVars, peerVars, registered, unblocks, threads, late, crashed>>

---------------------------------------------------------------------------
(* stop() and ~Coordinator *)

StopBegin ==
    /\ ~crashed /\ pc = "out"
    /\ stopping' = TRUE
    /\ pc' = "close"
    /\ UNCHANGED <<loopVars, connVars, peerVars, listener, joinAt, joinEnd, swept,
                   unblocks, threads, late, crashed>>

\* listener_.close(): connections nobody accepted are reset with the socket.
CloseListener ==
    /\ ~crashed /\ pc = "close"
    /\ listener' = "closed"
    /\ conn' = IF loop = "accept" /\ ~unblocks THEN conn ELSE Close(Pending)
    /\ pc' = "sweep"
    /\ UNCHANGED <<loopVars, peerVars, running, registered, workers, stopping, joinAt,
                   joinEnd, swept, unblocks, threads, late, crashed>>

\* Mutant: one of the connections is not closed.
ToClose_MissesOne(S) == IF S = {} THEN {} ELSE S \ {CHOOSE c \in S : TRUE}

\* Of the registered connections S, those the loop under mutex_ closes.
ToClose(S) == S

Sweep ==
    /\ ~crashed /\ pc = "sweep"
    /\ swept' = {c \in Conns : \E w \in Workers : workers[w] = c}
    /\ conn' = Close(ToClose(swept'))
    /\ pc' = "begin"
    /\ UNCHANGED <<loopVars, peerVars, running, registered, workers, stopping, listener,
                   joinAt, joinEnd, unblocks, threads, late, crashed>>

\* Mutant: the last thread is not joined.
JoinRange_Short == Len(threads) - 1

\* The range of the loop over threads_, taken once.
JoinRange == Len(threads)

JoinBegin ==
    /\ ~crashed /\ pc = "begin"
    /\ joinEnd' = JoinRange
    /\ pc' = "join"
    /\ UNCHANGED <<loopVars, connVars, peerVars, stopping, listener, joinAt, swept,
                   unblocks, threads, late, crashed>>

Join ==
    /\ ~crashed /\ pc = "join" /\ joinAt <= joinEnd
    /\ threads[joinAt] \notin running
    /\ joinAt' = joinAt + 1
    /\ UNCHANGED <<loopVars, connVars, peerVars, stopping, listener, pc, joinEnd, swept,
                   unblocks, threads, late, crashed>>

\* threads_.clear() destroys the threads: one that was not joined ends the process
\* (std::terminate), whether it still runs or not.
Clear ==
    /\ ~crashed /\ pc = "join" /\ joinAt > joinEnd
    /\ IF joinEnd < Len(threads) THEN Crash ELSE UNCHANGED <<crashed, conn, running>>
    /\ threads' = <<>>
    /\ pc' = "returned"
    /\ UNCHANGED <<loopVars, peerVars, registered, workers, stopping, listener, joinAt,
                   joinEnd, swept, unblocks, late>>

\* The owner has joined the accept thread and destroys the coordinator: stop() does
\* nothing the second time, and a thread appended since is destroyed unjoined.
Destroy ==
    /\ ~crashed /\ pc = "returned" /\ loop = "exited"
    /\ IF threads # <<>> THEN Crash ELSE UNCHANGED <<crashed, conn, running>>
    /\ pc' = "destroyed"
    /\ UNCHANGED <<loopVars, peerVars, registered, workers, stopping, listener, joinAt,
                   joinEnd, swept, unblocks, threads, late>>

---------------------------------------------------------------------------
(* Workers *)

\* Worker::connect reaches the listener; its HELLO follows.
Connect(c) ==
    /\ ~crashed /\ Listening
    /\ conn[c] = "none"
    /\ conn' = [conn EXCEPT ![c] = "pending"]
    /\ peer' = [peer EXCEPT ![c] = "connecting"]
    /\ UNCHANGED <<loopVars, stopVars, running, registered, workers, asked, unblocks,
                   threads, late, crashed>>

\* request_shutdown from another thread of the worker: run() notices after the next
\* frame.  The SHUTDOWN frame it sends is ignored by the coordinator.
RequestShutdown(c) ==
    /\ peer[c] = "running" /\ ~asked[c]
    /\ asked' = [asked EXCEPT ![c] = TRUE]
    /\ UNCHANGED <<loopVars, stopVars, connVars, peer, unblocks, threads, late, crashed>>

\* run() handles a frame of the coordinator (a WARM_TOPIC, a PONG).
RunHandlesFrame(c) ==
    /\ peer[c] = "running" /\ conn[c] = "open" /\ asked[c]
    /\ peer' = [peer EXCEPT ![c] = "returned"]
    /\ UNCHANGED <<loopVars, stopVars, connVars, asked, unblocks, threads, late, crashed>>

\* Mutant: run() returns on a failed read only after request_shutdown.
ReadFails_OnlyIfAsked(c) == conn[c] = "closed" /\ asked[c]

\* The worker's read fails.
ReadFails(c) == conn[c] = "closed"

\* run() returns; so does a connect() that waits for its HELLO_ACK.
RunReturns(c) ==
    /\ peer[c] \in {"connecting", "running"}
    /\ ReadFails(c)
    /\ peer' = [peer EXCEPT ![c] = "returned"]
    /\ UNCHANGED <<loopVars, stopVars, connVars, asked, unblocks, threads, late, crashed>>

\* The Worker is destroyed, or its process dies: only this closes its socket.
PeerLeaves(c) ==
    /\ peer[c] \notin {"none", "gone"}
    /\ peer' = [peer EXCEPT ![c] = "gone"]
    /\ UNCHANGED <<loopVars, stopVars, connVars, asked, unblocks, threads, late, crashed>>

---------------------------------------------------------------------------
AcceptLoop == LoopTest \/ AcceptFails \/ OnConnection \/ \E c \in Conns : AcceptReturns(c)
Stop == StopBegin \/ CloseListener \/ Sweep \/ JoinBegin \/ Join \/ Clear

Next ==
    \/ SetStopFlag
    \/ AcceptLoop \/ OnConnectionCrashes
    \/ Stop \/ Destroy
    \/ \E c \in Conns :
          \/ Connect(c) \/ ThreadEnds(c)
          \/ RequestShutdown(c) \/ RunHandlesFrame(c) \/ RunReturns(c) \/ PeerLeaves(c)
    \/ \E c \in Conns, w \in Workers, sameBoot \in BOOLEAN : HandleHello(c, w, sameBoot)

Spec == Init /\ [][Next]_vars

(* Fairness: threads that can run do run: the accept loop, stop() once it was
   called, a connection thread and a run() whose read fails.  Nobody has to call
   stop(), connect, send a HELLO, or leave. *)
FairSpec ==
    /\ Spec
    /\ WF_vars(AcceptLoop)
    /\ WF_vars(stopping /\ Stop)
    /\ \A c \in Conns : WF_vars(ThreadEnds(c)) /\ WF_vars(RunReturns(c))

---------------------------------------------------------------------------
(* Properties *)

\* The connections that hold stop() up: alive, and not in workers_ when it looked,
\* because they had not sent HELLO, were refused or displaced, or came later.
Strays == {c \in running : ~Eof(c) /\ c \notin swept}

\* stop() returns, unless a stray connection stays open for ever: the connections it
\* closes are enough for its joins, whatever registers or leaves meanwhile.
StopReturns ==
    <>stopping => <>(pc = "returned" \/ crashed) \/ <>[](Strays # {})

\* The process dies in stop() or ~Coordinator only because a thread was appended to
\* threads_ after stop() had begun to join: every earlier one is joined.
CrashedOnlyIfLate == crashed => late

\* After stop() has returned no connection thread is left and no worker registered,
\* with the same exception: what the destructor tears down is not in use.
StoppedIsQuiet ==
    pc \in {"returned", "destroyed"} /\ ~late =>
        running = {} /\ \A w \in Workers : workers[w] = NoConn

\* Where closing the listener ends a blocked accept(), the accept loop ends after
\* stop(), also when its flag is never set.
AcceptLoopEnds == stopping /\ unblocks ~> (loop = "exited" \/ crashed)

\* The run() of every worker stop() found registered returns, whether it was asked
\* to shut down or not.
SweptWorkersReturn == \A c \in Conns : c \in swept ~> peer[c] \in {"returned", "gone"}

=============================================================================
