---------------------------- MODULE MCWorkerQueue ----------------------------
(* Instance of WorkerQueue, and two statements about it that do not hold. *)
EXTENDS WorkerQueue

\* worker.py:243 "Bounded Semaphore to limit concurrent executions (Backpressure)": the
\* worker holds no more tasks than it has slots, and the others stay in Redis.
Backpressure == Cardinality({t \in Tasks : place[t] \in InWorker}) <= Slots

\* Hence a crash loses no more than the tasks that were being executed.
CrashLosesSlots ==
    [][up /\ ~up' => Cardinality({t \in Tasks : place'[t] = "lost" /\ place[t] # "lost"})
                     <= Slots]_queueVars
=============================================================================
