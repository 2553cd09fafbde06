--------------------------- MODULE ShutdownProofs ---------------------------
(***************************************************************************)
(* Theorems about stop(), for any number of connections and workers.       *)
(***************************************************************************)
EXTENDS Shutdown, SequenceTheorems, TLAPS

\* The steps of Next, one each.
LEMMA NextSteps ==
    ASSUME Next
    PROVE  \/ SetStopFlag \/ LoopTest \/ AcceptFails \/ OnConnection
           \/ \E c \in Conns : AcceptReturns(c)
           \/ OnConnectionCrashes
           \/ StopBegin \/ CloseListener \/ Sweep \/ JoinBegin \/ Join \/ Clear \/ Destroy
           \/ \E c \in Conns : Connect(c)
           \/ \E c \in Conns : ThreadEnds(c)
           \/ \E c \in Conns : RequestShutdown(c) \/ RunHandlesFrame(c) \/ RunReturns(c) \/ PeerLeaves(c)
           \/ \E c \in Conns, w \in Workers, sameBoot \in BOOLEAN : HandleHello(c, w, sameBoot)
  BY DEF Next, AcceptLoop, Stop

---------------------------------------------------------------------------
(* Types *)

\* The accept loop carries a connection when it says so.
TypeInv == TypeOK /\ (loop = "got" => got \in Conns)

LEMMA CloseType ==
    ASSUME TypeOK, NEW S
    PROVE  Close(S) \in [Conns -> {"none", "pending", "open", "closed"}]
  BY DEF TypeOK, Close

\* The process after a crash, or without one.
LEMMA CrashType ==
    ASSUME TypeOK, Crash \/ UNCHANGED <<crashed, conn, running>>
    PROVE  /\ crashed' \in BOOLEAN /\ running' \subseteq Conns
           /\ conn' \in [Conns -> {"none", "pending", "open", "closed"}]
  <1>1. CASE Crash
    BY <1>1, CloseType DEF Crash
  <1>2. CASE UNCHANGED <<crashed, conn, running>>
    <2>1. crashed \in BOOLEAN
      BY DEF TypeOK
    <2>2. QED
      BY <1>2, <2>1 DEF TypeOK
  <1>3. QED
    BY <1>1, <1>2

LEMMA TypeInit == Init => TypeInv
  <1> SUFFICES ASSUME Init PROVE TypeInv
    OBVIOUS
  <1>1. {stop, stopping, unblocks, late, crashed} \subseteq BOOLEAN
    BY DEF Init
  <1>2. threads \in Seq(Conns)
    BY DEF Init
  <1>3. joinAt \in Nat /\ joinEnd \in Nat /\ running \subseteq Conns /\ swept \subseteq Conns
    BY DEF Init
  <1>4. QED
    BY <1>1, <1>2, <1>3 DEF Init, TypeInv, TypeOK

LEMMA TypeStep == TypeInv /\ [Next]_vars => TypeInv'
  <1> SUFFICES ASSUME TypeInv, [Next]_vars PROVE TypeInv'
    OBVIOUS
  <1>0. TypeOK
    BY DEF TypeInv
  <1> USE DEF TypeInv, TypeOK
  <1>1. CASE SetStopFlag
    BY <1>1 DEF SetStopFlag, stopVars, connVars, peerVars
  <1>2. CASE LoopTest
    BY <1>2 DEF LoopTest, Failed, stopVars, connVars, peerVars
  <1>3. CASE AcceptFails
    BY <1>3 DEF AcceptFails, Failed, stopVars, connVars, peerVars
  <1>4. CASE OnConnection
    <2>1. threads' \in Seq(Conns) /\ running' \subseteq Conns
      BY <1>4 DEF OnConnection
    <2>2. late' \in BOOLEAN
      BY <1>4 DEF OnConnection
    <2>3. QED
      BY <1>4, <2>1, <2>2 DEF OnConnection, stopVars, peerVars
  <1>5. ASSUME NEW c \in Conns, AcceptReturns(c) PROVE TypeInv'
    <2>1. conn' \in [Conns -> {"none", "pending", "open", "closed"}]
      BY <1>5 DEF AcceptReturns
    <2>2. QED
      BY <1>5, <2>1 DEF AcceptReturns, stopVars, peerVars
  <1>6. CASE OnConnectionCrashes
    BY <1>0, <1>6, CrashType DEF OnConnectionCrashes, loopVars, stopVars, peerVars
  <1>7. CASE StopBegin
    BY <1>7 DEF StopBegin, loopVars, connVars, peerVars
  <1>8. CASE CloseListener
    <2>1. conn' \in [Conns -> {"none", "pending", "open", "closed"}]
      BY <1>0, <1>8, CloseType DEF CloseListener
    <2>2. QED
      BY <1>8, <2>1 DEF CloseListener, loopVars, peerVars
  <1>9. CASE Sweep
    <2>1. conn' \in [Conns -> {"none", "pending", "open", "closed"}] /\ swept' \subseteq Conns
      BY <1>0, <1>9, CloseType DEF Sweep
    <2>2. QED
      BY <1>9, <2>1 DEF Sweep, loopVars, peerVars
  <1>10. CASE JoinBegin
    <2>1. joinEnd' \in Nat
      BY <1>10 DEF JoinBegin, JoinRange
    <2>2. QED
      BY <1>10, <2>1 DEF JoinBegin, loopVars, connVars, peerVars
  <1>11. CASE Join
    BY <1>11 DEF Join, loopVars, connVars, peerVars
  <1>12. CASE Clear
    <2>1. crashed' \in BOOLEAN /\ running' \subseteq Conns
          /\ conn' \in [Conns -> {"none", "pending", "open", "closed"}]
      BY <1>0, <1>12, CrashType DEF Clear
    <2>2. threads' \in Seq(Conns)
      BY <1>12 DEF Clear
    <2>3. QED
      BY <1>12, <2>1, <2>2 DEF Clear, loopVars, peerVars
  <1>13. CASE Destroy
    <2>1. crashed' \in BOOLEAN /\ running' \subseteq Conns
          /\ conn' \in [Conns -> {"none", "pending", "open", "closed"}]
      BY <1>0, <1>13, CrashType DEF Destroy
    <2>2. QED
      BY <1>13, <2>1 DEF Destroy, loopVars, peerVars
  <1>14. ASSUME NEW c \in Conns, Connect(c) PROVE TypeInv'
    BY <1>14 DEF Connect, loopVars, stopVars
  <1>15. ASSUME NEW c \in Conns, ThreadEnds(c) PROVE TypeInv'
    <2>1. conn' \in [Conns -> {"none", "pending", "open", "closed"}]
          /\ workers' \in [Workers -> Conns \cup {NoConn}]
      BY <1>0, <1>15, CloseType DEF ThreadEnds, Unregistered
    <2>2. QED
      BY <1>15, <2>1 DEF ThreadEnds, loopVars, stopVars, peerVars
  <1>16. ASSUME NEW c \in Conns,
                RequestShutdown(c) \/ RunHandlesFrame(c) \/ RunReturns(c) \/ PeerLeaves(c)
         PROVE  TypeInv'
    BY <1>16 DEF RequestShutdown, RunHandlesFrame, RunReturns, PeerLeaves,
                 loopVars, stopVars, connVars
  <1>17. ASSUME NEW c \in Conns, NEW w \in Workers, NEW sameBoot \in BOOLEAN,
                HandleHello(c, w, sameBoot)
         PROVE  TypeInv'
    <2>1. registered' \in [Conns -> Workers \cup {NoWorker}]
          /\ workers' \in [Workers -> Conns \cup {NoConn}]
      BY <1>17 DEF HandleHello
    <2>2. peer' \in [Conns -> {"none", "connecting", "refused", "running", "returned", "gone"}]
      BY <1>17 DEF HandleHello
    <2>3. QED
      BY <1>17, <2>1, <2>2 DEF HandleHello, loopVars, stopVars
  <1>18. CASE UNCHANGED vars
    BY <1>18 DEF vars, loopVars, stopVars, connVars, peerVars
  <1>19. QED
    BY <1>1, <1>2, <1>3, <1>4, <1>5, <1>6, <1>7, <1>8, <1>9, <1>10, <1>11, <1>12, <1>13,
       <1>14, <1>15, <1>16, <1>17, <1>18, NextSteps

LEMMA TypesAlways == Spec => []TypeInv
  BY TypeInit, TypeStep, PTL DEF Spec

\* The accept loop, stop() and the connection threads leave values of the declared
\* types, whatever the order of their steps.
THEOREM TypeCorrect == Spec => []TypeOK
  <1>1. TypeInv => TypeOK
    BY DEF TypeInv
  <1>2. QED
    BY <1>1, TypesAlways, PTL

---------------------------------------------------------------------------
(* Joins.  Neither property is inductive.  What stop() has to know when it clears
   threads_ is that its range was all of them, that every thread it passed has
   ended, and that a connection thread is in threads_ and its worker in workers_
   only while it runs. *)

Joins ==
    /\ crashed => late
    /\ pc \in {"out", "close", "sweep", "begin"} => joinAt = 1 /\ ~late
    /\ pc = "join" /\ ~late =>
          /\ joinEnd = Len(threads)
          /\ joinAt \in 1 .. joinEnd + 1
          /\ \A i \in 1 .. joinAt - 1 : threads[i] \notin running
    /\ pc \notin {"returned", "destroyed"} /\ ~late =>
          \A c \in running : \E i \in 1 .. Len(threads) : threads[i] = c
    /\ pc \in {"returned", "destroyed"} /\ ~late => threads = <<>> /\ running = {}
    /\ pc = "destroyed" => loop = "exited"
    /\ ~crashed => \A w \in Workers : workers[w] = NoConn \/ workers[w] \in running

LEMMA JoinsInit == Init => Joins
  BY DEF Init, Joins

\* A step that leaves all this alone.
LEMMA JoinsSame ==
    ASSUME TypeInv, Joins, UNCHANGED <<pc, loop, joinAt, joinEnd, threads, running, workers, late, crashed>>
    PROVE  Joins'
  BY DEF Joins

LEMMA JoinsStep == TypeInv /\ Joins /\ [Next]_vars => Joins'
  <1> SUFFICES ASSUME TypeInv, Joins, [Next]_vars PROVE Joins'
    OBVIOUS
  <1>0. /\ threads \in Seq(Conns) /\ Len(threads) \in Nat
        /\ joinAt \in Nat /\ joinEnd \in Nat
        /\ workers \in [Workers -> Conns \cup {NoConn}]
    BY DEF TypeInv, TypeOK
  <1>1. CASE SetStopFlag
    BY <1>1, JoinsSame DEF SetStopFlag, stopVars, connVars, peerVars
  <1>2. CASE LoopTest \/ AcceptFails
    BY <1>2 DEF LoopTest, AcceptFails, stopVars, connVars, Joins
  <1>3. CASE OnConnection
    <2>1. CASE late'
      <3>1. ~late => pc \in {"join", "returned"}
        BY <1>3, <2>1 DEF OnConnection
      <3>2. QED
        BY <1>3, <2>1, <3>1 DEF OnConnection, stopVars, Joins
    <2>2. CASE ~late'
      <3>1. ~late /\ pc \notin {"join", "returned"} /\ pc # "destroyed"
        BY <1>3, <2>2 DEF OnConnection, Joins
      <3>2. pc' = pc /\ joinAt' = joinAt /\ crashed' = crashed /\ workers' = workers
            /\ threads' = Append(threads, got) /\ running' = running \cup {got} /\ got \in Conns
        BY <1>3 DEF OnConnection, stopVars, TypeInv
      <3>3. Len(threads') = Len(threads) + 1 /\ threads'[Len(threads) + 1] = got
            /\ \A i \in 1 .. Len(threads) : threads'[i] = threads[i]
        BY <1>0, <3>2
      <3>4. ASSUME NEW c \in running' PROVE \E i \in 1 .. Len(threads') : threads'[i] = c
        <4>1. CASE c = got
          BY <1>0, <3>3, <4>1
        <4>2. CASE c \in running
          <5>1. PICK i \in 1 .. Len(threads) : threads[i] = c
            BY <3>1, <4>2 DEF Joins
          <5>2. i \in 1 .. Len(threads') /\ threads'[i] = c
            BY <1>0, <3>3, <5>1
          <5>3. QED
            BY <5>2
        <4>3. QED
          BY <3>2, <4>1, <4>2
      <3>5. QED
        BY <2>2, <3>1, <3>2, <3>4 DEF Joins
    <2>3. QED
      BY <2>1, <2>2
  <1>4. ASSUME NEW c \in Conns, AcceptReturns(c) PROVE Joins'
    BY <1>4 DEF AcceptReturns, stopVars, Joins
  <1>5. CASE OnConnectionCrashes
    BY <1>5 DEF OnConnectionCrashes, Crash, loopVars, stopVars, Joins
  <1>6. CASE StopBegin \/ CloseListener \/ Sweep
    BY <1>6 DEF StopBegin, CloseListener, Sweep, loopVars, connVars, Joins
  <1>7. CASE JoinBegin
    <2>1. /\ pc = "begin" /\ pc' = "join" /\ joinEnd' = Len(threads) /\ ~crashed
          /\ UNCHANGED <<loop, joinAt, threads, running, workers, late, crashed>>
      BY <1>7 DEF JoinBegin, JoinRange, loopVars, connVars
    <2>2. joinAt = 1 /\ ~late
      BY <2>1 DEF Joins
    <2>3. joinAt' \in 1 .. joinEnd' + 1 /\ 1 .. joinAt' - 1 = {}
      BY <1>0, <2>1, <2>2
    <2>4. QED
      BY <2>1, <2>2, <2>3 DEF Joins
  <1>8. CASE Join
    <2>1. /\ pc = "join" /\ joinAt <= joinEnd /\ threads[joinAt] \notin running
          /\ joinAt' = joinAt + 1
          /\ UNCHANGED <<loop, pc, joinEnd, threads, running, workers, late, crashed>>
      BY <1>8 DEF Join, loopVars, connVars
    <2>2. ASSUME ~late
          PROVE  /\ joinAt' \in 1 .. joinEnd' + 1
                 /\ \A i \in 1 .. joinAt' - 1 : threads'[i] \notin running'
      <3>1. joinAt \in 1 .. joinEnd + 1 /\ \A i \in 1 .. joinAt - 1 : threads[i] \notin running
        BY <2>1, <2>2 DEF Joins
      <3>2. \A i \in 1 .. joinAt' - 1 : i \in 1 .. joinAt - 1 \/ i = joinAt
        BY <1>0, <2>1
      <3>3. QED
        BY <1>0, <2>1, <3>1, <3>2
    <2>3. QED
      BY <2>1, <2>2 DEF Joins
  <1>9. CASE Clear
    <2>1. /\ pc = "join" /\ joinAt > joinEnd /\ threads' = <<>> /\ pc' = "returned" /\ ~crashed
          /\ UNCHANGED <<loop, joinAt, joinEnd, workers, late>>
      BY <1>9 DEF Clear, loopVars
    <2>2. CASE late
      <3>1. late' /\ pc' = "returned"
        BY <2>1, <2>2
      <3>2. ~crashed' => running' = running
        BY <1>9 DEF Clear, Crash
      <3>3. QED
        BY <2>1, <3>1, <3>2 DEF Joins
    <2>3. CASE ~late
      <3>1. joinEnd = Len(threads) /\ joinAt = joinEnd + 1
        BY <1>0, <2>1, <2>3 DEF Joins
      <3>2. \A i \in 1 .. Len(threads) : threads[i] \notin running
        BY <1>0, <2>1, <2>3, <3>1 DEF Joins
      <3>3. running = {}
        BY <2>1, <2>3, <3>2 DEF Joins
      <3>4. UNCHANGED <<crashed, running>>
        BY <1>0, <1>9, <3>1 DEF Clear
      <3>5. QED
        BY <2>1, <2>3, <3>3, <3>4 DEF Joins
    <2>4. QED
      BY <2>2, <2>3
  <1>10. CASE Destroy
    <2>1. /\ pc = "returned" /\ pc' = "destroyed" /\ loop = "exited" /\ ~crashed
          /\ UNCHANGED <<loop, joinAt, joinEnd, threads, workers, late>>
      BY <1>10 DEF Destroy, loopVars
    <2>2. CASE late
      <3>1. ~crashed' => running' = running
        BY <1>10 DEF Destroy, Crash
      <3>2. QED
        BY <2>1, <2>2, <3>1 DEF Joins
    <2>3. CASE ~late
      <3>1. threads = <<>> /\ running = {}
        BY <2>1, <2>3 DEF Joins
      <3>2. UNCHANGED <<crashed, running>>
        BY <1>10, <3>1 DEF Destroy
      <3>3. QED
        BY <2>1, <2>3, <3>1, <3>2 DEF Joins
    <2>4. QED
      BY <2>2, <2>3
  <1>11. ASSUME NEW c \in Conns, Connect(c) PROVE Joins'
    BY <1>11, JoinsSame DEF Connect, loopVars, stopVars
  <1>12. ASSUME NEW c \in Conns, ThreadEnds(c) PROVE Joins'
    <2>1. /\ running' = running \ {c}
          /\ UNCHANGED <<pc, loop, joinAt, joinEnd, threads, late, crashed>>
      BY <1>12 DEF ThreadEnds, loopVars, stopVars
    <2>2. ASSUME NEW w \in Workers, ~crashed PROVE workers'[w] = NoConn \/ workers'[w] \in running'
      <3>1. workers'[w] = IF workers[w] = c THEN NoConn ELSE workers[w]
        BY <1>12 DEF ThreadEnds, Unregistered
      <3>2. QED
        BY <2>1, <2>2, <3>1 DEF Joins
    <2>3. QED
      BY <2>1, <2>2 DEF Joins
  <1>13. ASSUME NEW c \in Conns,
                RequestShutdown(c) \/ RunHandlesFrame(c) \/ RunReturns(c) \/ PeerLeaves(c)
         PROVE  Joins'
    BY <1>13, JoinsSame DEF RequestShutdown, RunHandlesFrame, RunReturns, PeerLeaves,
                            loopVars, stopVars, connVars
  <1>14. ASSUME NEW c \in Conns, NEW w \in Workers, NEW sameBoot \in BOOLEAN,
                HandleHello(c, w, sameBoot)
         PROVE  Joins'
    <2>1. /\ c \in running
          /\ UNCHANGED <<pc, loop, joinAt, joinEnd, threads, running, late, crashed>>
      BY <1>14 DEF HandleHello, loopVars, stopVars
    <2>2. ASSUME NEW v \in Workers, ~crashed PROVE workers'[v] = NoConn \/ workers'[v] \in running'
      <3>1. workers'[v] = workers[v] \/ workers'[v] = c
        BY <1>0, <1>14 DEF HandleHello
      <3>2. QED
        BY <2>1, <2>2, <3>1 DEF Joins
    <2>3. QED
      BY <2>1, <2>2 DEF Joins
  <1>15. CASE UNCHANGED vars
    BY <1>15, JoinsSame DEF vars, loopVars, stopVars, connVars, peerVars
  <1>16. QED
    BY <1>1, <1>2, <1>3, <1>4, <1>5, <1>6, <1>7, <1>8, <1>9, <1>10, <1>11, <1>12, <1>13,
       <1>14, <1>15, NextSteps

LEMMA JoinsAlways == Spec => [](TypeInv /\ Joins)
  <1>1. Init => TypeInv /\ Joins
    BY TypeInit, JoinsInit
  <1>2. TypeInv /\ Joins /\ [Next]_vars => (TypeInv /\ Joins)'
    BY TypeStep, JoinsStep
  <1>3. QED
    BY <1>1, <1>2, PTL DEF Spec

\* The process dies in stop() or ~Coordinator only because the accept loop appended
\* a thread after stop() had begun to join, for any number of connections: the range
\* stop() takes holds every thread there is.
THEOREM CrashedOnlyIfLateHolds == Spec => []CrashedOnlyIfLate
  <1>1. Joins => CrashedOnlyIfLate
    BY DEF Joins, CrashedOnlyIfLate
  <1>2. QED
    BY <1>1, JoinsAlways, PTL

\* After stop() has returned no connection thread is left and no worker registered,
\* with the same exception.
THEOREM StoppedIsQuietHolds == Spec => []StoppedIsQuiet
  <1>1. Joins => StoppedIsQuiet
    BY DEF Joins, StoppedIsQuiet
  <1>2. QED
    BY <1>1, JoinsAlways, PTL

=============================================================================
