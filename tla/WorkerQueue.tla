----------------------------- MODULE WorkerQueue -----------------------------
(***************************************************************************)
(* The orchestrator's worker (worker.py, run_worker_async): a loop pops    *)
(* tasks from the Redis list and makes an asyncio task of each, which      *)
(* waits for one of MAX_CONCURRENT_TASKS slots; a batch task then runs in  *)
(* the default thread pool and an interactive one on the event loop, which *)
(* its provisioning occupies.  What a handler does to pods and statuses is *)
(* PodPool's matter.  The worker is a background process of its container: *)
(* a crash goes unnoticed until something else restarts the container.     *)
(***************************************************************************)
EXTENDS ExecutionTasks, Naturals, Sequences, FiniteSets

CONSTANTS
    Interactive,    \* those with mode "interactive"
    Slots,          \* MAX_CONCURRENT_TASKS
    Threads,        \* threads of the default executor
    MaxCrashes      \* crashes the model keeps

ASSUME WorkerAssumption ==
    Interactive \subseteq Tasks /\ Slots \in Nat \ {0} /\ Threads \in Nat \ {0}
    /\ MaxCrashes \in Nat

VARIABLES
    place,      \* where each task is
    queue,      \* the Redis list
    waiting,    \* tasks in front of the semaphore
    free,       \* the semaphore's value
    executor,   \* tasks in front of the executor's threads
    up,         \* does the worker's process live?
    crashes,    \* crashes so far
    starts,     \* how often each task was given to its handler
    order       \* the tasks in the order they were popped

queueVars == <<place, queue, waiting, free, executor, up, crashes, starts, order>>

Places == {"new", "refused", "queued", "waiting", "submitted", "running", "provisioning",
           "relaying", "returned", "done", "lost"}
HoldsSlot == {"submitted", "running", "provisioning", "relaying", "returned"}
InWorker == {"waiting"} \cup HoldsSlot

QueueInit ==
    /\ place = [t \in Tasks |-> "new"]
    /\ queue = <<>> /\ waiting = <<>> /\ executor = <<>> /\ free = Slots
    /\ up = TRUE /\ crashes = 0
    /\ starts = [t \in Tasks |-> 0] /\ order = <<>>

Move(t, there) == place' = [place EXCEPT ![t] = there]
KeepProcess == UNCHANGED <<up, crashes>>
KeepRecords == UNCHANGED <<starts, order>>

\* Synchronous code of a handler occupies the event loop.
LoopRuns == up /\ \A t \in Tasks : place[t] # "provisioning"

\* The gateway's rpush, which may raise.
Push(t) ==
    /\ place[t] = "new"
    /\ \/ Move(t, "queued") /\ queue' = Append(queue, t)
       \/ Move(t, "refused") /\ UNCHANGED queue
    /\ KeepProcess /\ KeepRecords /\ UNCHANGED <<waiting, free, executor>>

\* Mutant: the list is read without being shortened.
PopKeeps ==
    /\ LoopRuns /\ queue # <<>>
    /\ LET t == Head(queue) IN
       Move(t, "waiting") /\ waiting' = Append(waiting, t) /\ order' = Append(order, t)
    /\ KeepProcess /\ UNCHANGED <<free, executor, queue, starts>>

\* blpop and create_task.
Pop ==
    /\ LoopRuns /\ queue # <<>> /\ queue' = Tail(queue)
    /\ LET t == Head(queue) IN
       Move(t, "waiting") /\ waiting' = Append(waiting, t) /\ order' = Append(order, t)
    /\ KeepProcess /\ UNCHANGED <<free, executor, starts>>

\* Redis has popped and its answer is lost with the connection: blpop raises, the loop
\* cools down for 2 s and goes on.
PopLost ==
    /\ LoopRuns /\ queue # <<>> /\ queue' = Tail(queue)
    /\ Move(Head(queue), "lost")
    /\ KeepProcess /\ KeepRecords /\ UNCHANGED <<waiting, free, executor>>

\* Mutant: the semaphore wakes the last waiter.
AcquireLast ==
    /\ LoopRuns /\ waiting # <<>> /\ free > 0
    /\ LET t == waiting[Len(waiting)] IN
       /\ waiting' = SubSeq(waiting, 1, Len(waiting) - 1) /\ free' = free - 1
       /\ starts' = [starts EXCEPT ![t] = @ + 1]
       /\ IF t \in Interactive
          THEN Move(t, "provisioning") /\ UNCHANGED executor
          ELSE Move(t, "submitted") /\ executor' = Append(executor, t)
    /\ KeepProcess /\ UNCHANGED <<queue, order>>

\* asyncio's semaphore is fair: the slot goes to the first waiter.
Acquire ==
    /\ LoopRuns /\ waiting # <<>> /\ free > 0
    /\ waiting' = Tail(waiting) /\ free' = free - 1
    /\ LET t == Head(waiting) IN
       /\ starts' = [starts EXCEPT ![t] = @ + 1]
       /\ IF t \in Interactive
          THEN Move(t, "provisioning") /\ UNCHANGED executor
          ELSE Move(t, "submitted") /\ executor' = Append(executor, t)
    /\ KeepProcess /\ UNCHANGED <<queue, order>>

\* Mutant: off by one at the executor's limit.
StartBatchOneLess ==
    /\ up /\ executor # <<>> /\ Cardinality({t \in Tasks : place[t] = "running"}) < Threads - 1
    /\ Move(Head(executor), "running") /\ executor' = Tail(executor)
    /\ KeepProcess /\ KeepRecords /\ UNCHANGED <<queue, waiting, free>>

\* A thread takes the first task of the executor; it needs no event loop.
StartBatch ==
    /\ up /\ executor # <<>> /\ Cardinality({t \in Tasks : place[t] = "running"}) < Threads
    /\ Move(Head(executor), "running") /\ executor' = Tail(executor)
    /\ KeepProcess /\ KeepRecords /\ UNCHANGED <<queue, waiting, free>>

\* handle_batch_task ends, with its result or an exception.
BatchEnds(t) ==
    /\ up /\ place[t] = "running" /\ Move(t, "returned")
    /\ KeepProcess /\ KeepRecords /\ UNCHANGED <<queue, waiting, free, executor>>

\* handle_interactive_task has its pod and awaits the relay, or has failed.
Provisioned(t) ==
    /\ up /\ place[t] = "provisioning" /\ Move(t, "relaying")
    /\ KeepProcess /\ KeepRecords /\ UNCHANGED <<queue, waiting, free, executor>>

ProvisionFails(t) ==
    /\ up /\ place[t] = "provisioning" /\ Move(t, "returned")
    /\ KeepProcess /\ KeepRecords /\ UNCHANGED <<queue, waiting, free, executor>>

RelayEnds(t) ==
    /\ LoopRuns /\ place[t] = "relaying" /\ Move(t, "returned")
    /\ KeepProcess /\ KeepRecords /\ UNCHANGED <<queue, waiting, free, executor>>

\* Mutant: an exception leaves the slot taken.
LeaveSometimes(t) ==
    /\ LoopRuns /\ place[t] = "returned" /\ Move(t, "done")
    /\ free' = free + 1 \/ free' = free
    /\ KeepProcess /\ KeepRecords /\ UNCHANGED <<queue, waiting, executor>>

\* "async with" releases the slot on every path out of process_task.
Leave(t) ==
    /\ LoopRuns /\ place[t] = "returned" /\ Move(t, "done") /\ free' = free + 1
    /\ KeepProcess /\ KeepRecords /\ UNCHANGED <<queue, waiting, executor>>

\* The process dies with everything it has popped.
Crash ==
    /\ up /\ crashes < MaxCrashes /\ crashes' = crashes + 1 /\ up' = FALSE
    /\ place' = [t \in Tasks |-> IF place[t] \in InWorker THEN "lost" ELSE place[t]]
    /\ waiting' = <<>> /\ executor' = <<>>
    /\ KeepRecords /\ UNCHANGED <<queue, free>>

\* The container is started again, by a crash of the API or a new pod.
Restart ==
    /\ ~up /\ up' = TRUE /\ free' = Slots
    /\ KeepRecords /\ UNCHANGED <<place, queue, waiting, executor, crashes>>

Work ==
    \/ Pop \/ Acquire \/ StartBatch
    \/ \E t \in Tasks :
          BatchEnds(t) \/ Provisioned(t) \/ ProvisionFails(t) \/ RelayEnds(t) \/ Leave(t)

QueueNext == (\E t \in Tasks : Push(t)) \/ Work \/ PopLost \/ Crash \/ Restart

QueueSpec == QueueInit /\ [][QueueNext]_queueVars

\* The loop and the threads go on, a batch handler ends and so does the provisioning of
\* an interactive one (PodPool, HandlerEnds).  Nothing promises that a session ends,
\* which relay_session awaits without bound, nor that the worker is started again.
FairQueueSpec ==
    /\ QueueSpec
    /\ WF_queueVars(Pop) /\ WF_queueVars(Acquire) /\ WF_queueVars(StartBatch)
    /\ \A t \in Tasks :
          /\ WF_queueVars(BatchEnds(t)) /\ WF_queueVars(Provisioned(t) \/ ProvisionFails(t))
          /\ WF_queueVars(Leave(t))

-----------------------------------------------------------------------------
(* Properties *)

QueueTypeOK ==
    /\ place \in [Tasks -> Places]
    /\ queue \in Seq(Tasks) /\ waiting \in Seq(Tasks) /\ executor \in Seq(Tasks)
    /\ free \in Nat /\ up \in BOOLEAN /\ crashes \in Nat
    /\ starts \in [Tasks -> Nat] /\ order \in Seq(Tasks)

\* Every slot is free or held by a task in the hands of its handler, after any number
\* of failures and restarts.
SlotsKept == up => free + Cardinality({t \in Tasks : place[t] \in HoldsSlot}) = Slots

\* No task reaches its handler twice, whatever fails, and of two tasks in one worker
\* the one popped first is started first.
HandledOnceInOrder ==
    /\ \A t \in Tasks : starts[t] <= 1
    /\ \A i, j \in DOMAIN order :
          i < j /\ starts[order[j]] = 1 => starts[order[i]] = 1 \/ place[order[i]] = "lost"

Relaying == {t \in Tasks : place[t] = "relaying"}

\* A task that was accepted is lost, has its session or is done, as long as the worker
\* lives and endless sessions do not hold every slot: neither slots, threads nor a
\* handler that occupies the loop keep it for ever, and one slot that is not held serves
\* all the tasks.
EachHandled ==
    \/ <>[](Cardinality(Relaying) = Slots)
    \/ \A t \in Tasks : place[t] = "queued" ~> (place[t] \in {"relaying", "done", "lost"} \/ ~up)
=============================================================================
