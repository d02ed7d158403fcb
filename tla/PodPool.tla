------------------------------- MODULE PodPool -------------------------------
(***************************************************************************)
(* How the orchestrator gives sandbox pods to execution tasks: the worker  *)
(* (worker.py), the Kubernetes provisioner with its pre-warmed pool        *)
(* (k8s_provisioner_adapter.py), the Redis lease (redis_lock_adapter.py),  *)
(* the execution service (execution_service.py) and, of the interactive    *)
(* relay (ws_relay_adapter.py), what it publishes and how it ends.         *)
(*                                                                         *)
(* A task runs in a thread of the worker (batch) or as a coroutine on its  *)
(* event loop (interactive); each step below is one remote call, so that   *)
(* every interleaving of two tasks' Kubernetes and Redis calls is a        *)
(* behaviour.  The pods are those of one environment type.                 *)
(***************************************************************************)
EXTENDS ExecutionTasks, Naturals, FiniteSets

\* A member of Tasks also names the pod that the task creates itself.
CONSTANTS
    WarmPods,       \* pods of the pre-warmed Deployment, replacements included
    NoPod, NoTask,  \* None
    ListAttempts,   \* rounds of list-and-lease before a pod is created (3)
    LeaseTTL,       \* ttl_seconds of a lease, in clock ticks
    KubeMayFail,    \* may a Kubernetes call fail otherwise than by an ApiException, or a delete?
    Flaky,          \* tasks whose Redis commands may raise, executed or not
    DebugMode       \* the DEBUG_MODE environment variable

Pods == WarmPods \cup Tasks

ASSUME PodPoolAssumption ==
    /\ Tasks # {} /\ WarmPods \cap Tasks = {}
    /\ NoPod \notin Pods /\ NoTask \notin Tasks
    /\ ListAttempts \in Nat \ {0} /\ LeaseTTL \in Nat \ {0}
    /\ Flaky \subseteq Tasks /\ {KubeMayFail, DebugMode} \subseteq BOOLEAN

VARIABLES
    pc,      \* where each task is in its handler
    mode,    \* how the task was queued
    cur,     \* the handler's pod_name
    seen,    \* pods of the last listing the task has not tried yet
    tries,   \* rounds of list-and-lease done
    good,    \* did the batch execution return a result? (is_success)
    out,     \* the relay's output_task
    raised,  \* has a Redis command of the handler raised, out of the handler even?
    status,  \* last status published on task_status_<task_id>
    pod,     \* the cluster: state of each pod
    lease,   \* Redis: lease:<pod>, with the task that set it (not stored)
    age,     \* time since the lease key was set
    ran,     \* history: tasks whose code was posted to each pod
    overrun, \* history: pods whose lease ran out while a handler held them
    astray   \* history: pods a handler left behind or could not delete

handlerVars == <<pc, mode, cur, seen, tries, good>>
toldVars == <<out, raised, status>>
leaseVars == <<lease, age, overrun>>
clusterVars == <<pod, astray>>
vars == <<handlerVars, toldVars, leaseVars, clusterVars, ran>>

PCs == {"idle", "list", "lease", "create", "waiting", "leased", "ip", "running", "overdue",
        "svcDelete", "svcRelease", "final", "wrkDelete", "wrkRelease", "report", "done"}

\* pc values at which a handler owns the pod it will run in and later delete.
HoldingPCs == {"leased", "ip", "running", "overdue", "svcDelete", "final", "wrkDelete"}

Holding(t) == cur[t] # NoPod /\ pc[t] \in HoldingPCs

Init ==
    /\ pc = [t \in Tasks |-> "idle"]
    /\ mode = [t \in Tasks |-> "batch"]
    /\ cur = [t \in Tasks |-> NoPod]
    /\ seen = [t \in Tasks |-> {}]
    /\ tries = [t \in Tasks |-> 0]
    /\ good = [t \in Tasks |-> FALSE]
    /\ out = [t \in Tasks |-> "off"]
    /\ raised = [t \in Tasks |-> "never"]
    /\ status = [t \in Tasks |-> "none"]
    /\ pod = [p \in Pods |-> "absent"]
    /\ lease = [p \in Pods |-> NoTask]
    /\ age = [p \in Pods |-> 0]
    /\ ran = [p \in Pods |-> {}]
    /\ overrun = {} /\ astray = {}

-----------------------------------------------------------------------------
(* The worker's single event loop, and helpers for a step of one task.       *)

\* An interactive handler calls provision() and the clean-up without awaiting.
OnLoop(t) == mode[t] = "interactive"
Blocks(t) == OnLoop(t) /\ pc[t] \in {"list", "lease", "create", "waiting", "wrkRelease"}
LoopFree(t) == \A u \in Tasks \ {t} : ~Blocks(u)

At(t, here) == pc[t] = here /\ (OnLoop(t) => LoopFree(t))
Goto(t, there) == pc' = [pc EXCEPT ![t] = there]

\* publish_status.
Publish(t, s) == status' = [status EXCEPT ![t] = s]

\* A Redis command raises, and the exception is caught in the handler or escapes it.
Raise(t, how) == t \in Flaky /\ raised' = [raised EXCEPT ![t] = how]

\* The publish of s raises: Redis may have executed it all the same.
PublishRaises(t, s, how) == Raise(t, how) /\ (UNCHANGED status \/ Publish(t, s))

\* delete_namespaced_pod: the adapters swallow every exception it raises.
DeletePod(p) ==
    \/ pod' = [pod EXCEPT ![p] = "gone"] /\ UNCHANGED astray
    \/ KubeMayFail /\ UNCHANGED pod /\ astray' = astray \cup {p}

\* cleanup_pod(p, keep_alive_for_debug).
CleanupPod(p, keepAlive) ==
    IF keepAlive THEN UNCHANGED pod /\ astray' = astray \cup {p} ELSE DeletePod(p)

\* The key lease:p is set by task t, or deleted.
SetLease(t, p) == lease' = [lease EXCEPT ![p] = t] /\ age' = [age EXCEPT ![p] = 0]

\* release_lock(lease:p) by task t: an unconditional DEL, whoever set the key.
ReleaseLock(t, p) ==
    /\ SetLease(NoTask, p) \/ (t \in Flaky /\ UNCHANGED <<lease, age>>)
    /\ UNCHANGED overrun

\* Mutant: SET without NX.
AcquireLockNoNX(t, p) == SetLease(t, p) /\ UNCHANGED overrun

\* acquire_lock(lease:p, ttl_seconds=60): SET NX EX by task t, when it takes effect.
AcquireLock(t, p) == lease[p] = NoTask /\ SetLease(t, p) /\ UNCHANGED overrun

-----------------------------------------------------------------------------
(* provision()                                                               *)

\* process_task takes the task up; resolve_pod_catalog finds it, reports it
\* missing, or raises.
Start(t) ==
    /\ pc[t] = "idle" /\ LoopFree(t)
    /\ \E m \in {"batch", "interactive"} : mode' = [mode EXCEPT ![t] = m]
    /\ \/ Goto(t, "list") /\ Publish(t, "provisioning") /\ UNCHANGED raised
       \/ Goto(t, "final") /\ PublishRaises(t, "provisioning", "caught")
       \/ Goto(t, "done") /\ Publish(t, "error") /\ UNCHANGED raised
       \/ Goto(t, "report") /\ PublishRaises(t, "error", "escapes")
    /\ UNCHANGED <<cur, seen, tries, good, out, leaseVars, clusterVars, ran>>

\* list_namespaced_pod; an ApiException leaves the round without candidates,
\* any other exception ends provision().
ListPods(t) ==
    /\ At(t, "list")
    /\ \/ Goto(t, "lease") /\ seen' \in
            {[seen EXCEPT ![t] = S] : S \in {{}, {p \in WarmPods : pod[p] = "ready"}}}
       \/ KubeMayFail /\ Goto(t, "final") /\ UNCHANGED seen
    /\ UNCHANGED <<mode, cur, tries, good, toldVars, leaseVars, clusterVars, ran>>

LeaseListed(t) == \E p \in seen[t] :
    /\ At(t, "lease") /\ Goto(t, "leased")
    /\ AcquireLock(t, p)
    /\ cur' = [cur EXCEPT ![t] = p]
    /\ seen' = [seen EXCEPT ![t] = {}]
    /\ UNCHANGED <<mode, tries, good, toldVars, clusterVars, ran>>

\* acquire_lock returned False: the key exists, or Redis raised, having set it or not.
SkipListed(t) == \E p \in seen[t] :
    /\ At(t, "lease")
    /\ \/ (lease[p] # NoTask \/ t \in Flaky) /\ UNCHANGED leaseVars
       \/ t \in Flaky /\ AcquireLock(t, p)
    /\ seen' = [seen EXCEPT ![t] = @ \ {p}]
    /\ UNCHANGED <<pc, mode, cur, tries, good, toldVars, clusterVars, ran>>

\* Mutant: rounds without a bound.
NextRoundForever(t) ==
    /\ At(t, "lease") /\ seen[t] = {} /\ Goto(t, "list")
    /\ UNCHANGED <<mode, cur, seen, tries, good, toldVars, leaseVars, clusterVars, ran>>

NextRound(t) ==
    /\ At(t, "lease") /\ seen[t] = {}
    /\ tries' = [tries EXCEPT ![t] = @ + 1]
    /\ Goto(t, IF tries[t] + 1 < ListAttempts THEN "list" ELSE "create")
    /\ UNCHANGED <<mode, cur, seen, good, toldVars, leaseVars, clusterVars, ran>>

\* The pod is created, refused, or created although its answer is lost.
CreatePod(t) ==
    /\ At(t, "create")
    /\ \/ Goto(t, "waiting") /\ pod' = [pod EXCEPT ![t] = "starting"] /\ UNCHANGED astray
       \/ Goto(t, "final") /\ UNCHANGED clusterVars
       \/ /\ KubeMayFail /\ Goto(t, "final")
          /\ pod' = [pod EXCEPT ![t] = "starting"] /\ astray' = astray \cup {t}
    /\ UNCHANGED <<mode, cur, seen, tries, good, toldVars, leaseVars, ran>>

\* The created pod answers ready; the result of acquire_lock is ignored.
CreatedPodReady(t) ==
    /\ At(t, "waiting") /\ pod[t] = "ready" /\ Goto(t, "leased")
    /\ AcquireLock(t, t) \/ (t \in Flaky /\ UNCHANGED leaseVars)
    /\ cur' = [cur EXCEPT ![t] = t]
    /\ UNCHANGED <<mode, seen, tries, good, toldVars, clusterVars, ran>>

\* Mutant: a pod that is not ready in time is left behind.
CreatedPodTimeoutNoDelete(t) ==
    /\ At(t, "waiting") /\ Goto(t, "final")
    /\ UNCHANGED <<mode, cur, seen, tries, good, toldVars, leaseVars, clusterVars, ran>>

\* 25 reads found it not ready: delete it and raise; pod_name is still None.
CreatedPodTimeout(t) ==
    /\ At(t, "waiting") /\ Goto(t, "final")
    /\ DeletePod(t)
    /\ UNCHANGED <<mode, cur, seen, tries, good, toldVars, leaseVars, ran>>

\* read_namespaced_pod raises something else than an ApiException: provision()
\* ends, and nothing deletes the pod.
CreatedPodLost(t) ==
    /\ KubeMayFail /\ At(t, "waiting") /\ Goto(t, "final")
    /\ astray' = astray \cup {t}
    /\ UNCHANGED <<mode, cur, seen, tries, good, toldVars, leaseVars, pod, ran>>

-----------------------------------------------------------------------------
(* Running in the pod                                                        *)

\* Batch publishes "executing" before it asks for the pod's IP.
PublishExecuting(t) ==
    /\ At(t, "leased") /\ ~OnLoop(t)
    /\ \/ Publish(t, "executing") /\ Goto(t, "ip") /\ UNCHANGED raised
       \/ PublishRaises(t, "executing", "caught") /\ Goto(t, "final")
    /\ UNCHANGED <<mode, cur, seen, tries, good, out, leaseVars, clusterVars, ran>>

\* get_pod_ip answers and the payload is posted.  The interactive relay then
\* subscribes, publishes "executing" and starts its output_task.
PostToPod(t) ==
    /\ \/ At(t, "ip") /\ Goto(t, "running") /\ UNCHANGED toldVars
       \/ /\ At(t, "leased") /\ OnLoop(t)
          /\ \/ /\ Goto(t, "running") /\ Publish(t, "executing")
                /\ out' = [out EXCEPT ![t] = "on"] /\ UNCHANGED raised
             \/ /\ Goto(t, "final") /\ PublishRaises(t, "executing", "caught")
                /\ UNCHANGED out
    /\ pod[cur[t]] = "ready"
    /\ ran' = [ran EXCEPT ![cur[t]] = @ \cup {t}]
    /\ UNCHANGED <<mode, cur, seen, tries, good, leaseVars, clusterVars>>

\* No IP in ten reads, or the engine never answers: nothing was posted.  Some of
\* the relay's failures are published by the relay, the others by the handler.
NoAnswer(t) ==
    /\ \/ At(t, "ip") /\ Goto(t, "svcDelete") /\ UNCHANGED <<raised, status>>
       \/ /\ At(t, "leased") /\ OnLoop(t)
          /\ \/ Goto(t, "final") /\ UNCHANGED <<raised, status>>
             \/ Goto(t, "wrkDelete") /\ Publish(t, "error") /\ UNCHANGED raised
             \/ Goto(t, "final") /\ PublishRaises(t, "error", "caught")
    /\ UNCHANGED <<mode, cur, seen, tries, good, out, leaseVars, clusterVars, ran>>

\* Batch: the engine returns a result, or fails (exception, timeout, pod lost).
RunEnds(t) ==
    /\ At(t, "running") /\ ~OnLoop(t) /\ Goto(t, "svcDelete")
    /\ \E ok \in BOOLEAN :
        /\ ok => pod[cur[t]] = "ready"
        /\ good' = [good EXCEPT ![t] = ok]
    /\ UNCHANGED <<mode, cur, seen, tries, toldVars, leaseVars, clusterVars, ran>>

\* Mutant: a pre-warmed pod goes back to the pool instead of being deleted.
ServiceCleanupReturnsPod(t) ==
    /\ At(t, "svcDelete") /\ Goto(t, "svcRelease")
    /\ IF cur[t] \in WarmPods THEN UNCHANGED clusterVars ELSE DeletePod(cur[t])
    /\ UNCHANGED <<mode, cur, seen, tries, good, toldVars, leaseVars, ran>>

\* The finally of ExecutionService.execute_code.
ServiceCleanup(t) ==
    /\ At(t, "svcDelete") /\ Goto(t, "svcRelease")
    /\ CleanupPod(cur[t], DebugMode /\ ~good[t])
    /\ UNCHANGED <<mode, cur, seen, tries, good, toldVars, leaseVars, ran>>

ServiceRelease(t) ==
    /\ At(t, "svcRelease") /\ Goto(t, "final")
    /\ ReleaseLock(t, cur[t])
    /\ UNCHANGED <<mode, cur, seen, tries, good, toldVars, clusterVars, ran>>

-----------------------------------------------------------------------------
(* The interactive relay: output_task, and the handler that waits for it      *)

\* output_task publishes the engine's verdict, or that the connection is lost; a
\* publish that raises ends it.  It goes on when the handler has left the relay.
Verdict(t) ==
    /\ out[t] = "on" /\ \A u \in Tasks : ~Blocks(u)
    /\ \/ /\ \E s \in {"completed", "error"} : Publish(t, s)
          /\ out' \in {[out EXCEPT ![t] = o] : o \in {"telling"} \cup
                                                 (IF t \in Flaky THEN {"failed"} ELSE {})}
       \/ t \in Flaky /\ out' = [out EXCEPT ![t] = "failed"] /\ UNCHANGED status
    /\ UNCHANGED <<handlerVars, raised, leaseVars, clusterVars, ran>>

\* The publish has returned: completed.set().
VerdictTold(t) ==
    /\ out[t] = "telling" /\ \A u \in Tasks : ~Blocks(u)
    /\ out' = [out EXCEPT ![t] = "set"]
    /\ UNCHANGED <<handlerVars, raised, status, leaseVars, clusterVars, ran>>

\* The engine closes without a verdict, or a publish of the program's output raises.
OutputStops(t) ==
    /\ out[t] = "on" /\ \A u \in Tasks : ~Blocks(u)
    /\ \/ out' = [out EXCEPT ![t] = "ended"]
       \/ t \in Flaky /\ out' = [out EXCEPT ![t] = "failed"]
    /\ UNCHANGED <<handlerVars, raised, status, leaseVars, clusterVars, ran>>

\* 120 s without completed.set(): the relay publishes an error of its own, then
\* awaits output_task, which nothing cancels.
RelayTimeout(t) ==
    /\ At(t, "running") /\ OnLoop(t) /\ out[t] # "set"
    /\ \/ Publish(t, "error") /\ Goto(t, "overdue") /\ UNCHANGED raised
       \/ PublishRaises(t, "error", "caught") /\ Goto(t, "final")
    /\ UNCHANGED <<mode, cur, seen, tries, good, out, leaseVars, clusterVars, ran>>

\* The wait is over: the relay unsubscribes, which may raise, and returns.  An
\* output_task that failed raises here.
RelayReturns(t) ==
    /\ \/ At(t, "running") /\ out[t] = "set"
       \/ At(t, "overdue") /\ out[t] \in {"set", "ended", "failed"}
    /\ OnLoop(t)
    /\ \/ out[t] # "failed" /\ Goto(t, "wrkDelete") /\ UNCHANGED raised
       \/ Raise(t, "caught") /\ Goto(t, "final")
    /\ out' = [out EXCEPT ![t] = "off"]
    /\ UNCHANGED <<mode, cur, seen, tries, good, status, leaseVars, clusterVars, ran>>

-----------------------------------------------------------------------------
(* The end of the handler in worker.py                                       *)

\* After the final publish the handler's own finally runs, if it has a pod.
\* A "completed" that raises is followed by an "error"; an "error" that raises
\* leaves the handler, and process_task reports it after the finally.
PublishFinal(t) ==
    /\ At(t, "final")
    /\ \/ /\ Publish(t, IF good[t] THEN "completed" ELSE "error")
          /\ Goto(t, IF cur[t] = NoPod THEN "done" ELSE "wrkDelete")
          /\ UNCHANGED <<good, raised>>
       \/ /\ good[t] /\ PublishRaises(t, "completed", "caught")
          /\ good' = [good EXCEPT ![t] = FALSE]
          /\ UNCHANGED pc
       \/ /\ ~good[t] /\ PublishRaises(t, "error", "escapes")
          /\ Goto(t, IF cur[t] = NoPod THEN "report" ELSE "wrkDelete")
          /\ UNCHANGED good
    /\ UNCHANGED <<mode, cur, seen, tries, out, leaseVars, clusterVars, ran>>

WorkerCleanup(t) ==
    /\ At(t, "wrkDelete") /\ Goto(t, "wrkRelease")
    /\ CleanupPod(cur[t], FALSE)
    /\ UNCHANGED <<mode, cur, seen, tries, good, toldVars, leaseVars, ran>>

\* Mutant: process_task reports an error after every handler.
WorkerReleaseReports(t) ==
    /\ At(t, "wrkRelease") /\ Goto(t, "report")
    /\ ReleaseLock(t, cur[t])
    /\ UNCHANGED <<mode, cur, seen, tries, good, toldVars, clusterVars, ran>>

WorkerRelease(t) ==
    /\ At(t, "wrkRelease")
    /\ Goto(t, IF raised[t] = "escapes" THEN "report" ELSE "done")
    /\ ReleaseLock(t, cur[t])
    /\ UNCHANGED <<mode, cur, seen, tries, good, toldVars, clusterVars, ran>>

\* process_task's except: "Worker Execution Error".
ReportEscaped(t) ==
    /\ At(t, "report") /\ Goto(t, "done")
    /\ (Publish(t, "error") /\ UNCHANGED raised) \/ PublishRaises(t, "error", "escapes")
    /\ UNCHANGED <<mode, cur, seen, tries, good, out, leaseVars, clusterVars, ran>>

-----------------------------------------------------------------------------
(* The cluster and the clock                                                 *)

\* The Deployment starts a pre-warmed pod; a created pod becomes ready.
PodReady(p) ==
    /\ pod[p] = IF p \in WarmPods THEN "absent" ELSE "starting"
    /\ pod' = [pod EXCEPT ![p] = "ready"]
    /\ UNCHANGED <<handlerVars, toldVars, leaseVars, astray, ran>>

\* Mutant: the lease key is set without EX.
TickNoExpiry ==
    /\ \E p \in Pods : lease[p] # NoTask
    /\ UNCHANGED vars

Expiring(p) == lease[p] # NoTask /\ age[p] + 1 >= LeaseTTL

\* Lease keys age and expire, whatever their holders do.
Tick ==
    /\ \E p \in Pods : lease[p] # NoTask
    /\ lease' = [p \in Pods |-> IF Expiring(p) THEN NoTask ELSE lease[p]]
    /\ age' = [p \in Pods |-> IF lease[p] = NoTask \/ Expiring(p) THEN 0 ELSE age[p] + 1]
    /\ overrun' = overrun \cup {p \in Pods : Expiring(p) /\ \E t \in Tasks : Holding(t) /\ cur[t] = p}
    /\ UNCHANGED <<handlerVars, toldVars, clusterVars, ran>>

HandlerStep(t) ==
    \/ ListPods(t) \/ LeaseListed(t) \/ SkipListed(t) \/ NextRound(t)
    \/ CreatePod(t) \/ CreatedPodReady(t) \/ CreatedPodTimeout(t) \/ CreatedPodLost(t)
    \/ PublishExecuting(t) \/ PostToPod(t) \/ NoAnswer(t) \/ RunEnds(t)
    \/ ServiceCleanup(t) \/ ServiceRelease(t) \/ RelayTimeout(t) \/ RelayReturns(t)
    \/ PublishFinal(t) \/ WorkerCleanup(t) \/ WorkerRelease(t) \/ ReportEscaped(t)

OutputStep(t) == Verdict(t) \/ VerdictTold(t) \/ OutputStops(t)

\* Every task has been handled.
Done == (\A t \in Tasks : pc[t] = "done") /\ UNCHANGED vars

Next ==
    \/ \E t \in Tasks : Start(t) \/ HandlerStep(t) \/ OutputStep(t)
    \/ \E p \in Pods : PodReady(p)
    \/ Tick
    \/ Done

\* Every handler thread and coroutine is scheduled and its calls return, and time
\* passes.  No task need come, and no interactive program need end.
Spec ==
    /\ Init /\ [][Next]_vars
    /\ \A t \in Tasks : WF_vars(HandlerStep(t) \/ VerdictTold(t))
    /\ WF_vars(Tick)
-----------------------------------------------------------------------------
(* Properties                                                                *)

\* Every variable keeps its type, and a handler past provision() has a pod.
TypeOK ==
    /\ pc \in [Tasks -> PCs]
    /\ mode \in [Tasks -> {"batch", "interactive"}]
    /\ cur \in [Tasks -> Pods \cup {NoPod}]
    /\ seen \in [Tasks -> SUBSET WarmPods]
    /\ tries \in [Tasks -> 0 .. ListAttempts]
    /\ good \in [Tasks -> BOOLEAN]
    /\ out \in [Tasks -> {"off", "on", "telling", "set", "ended", "failed"}]
    /\ raised \in [Tasks -> {"never", "caught", "escapes"}]
    /\ status \in [Tasks -> {"none", "provisioning", "executing", "completed", "error"}]
    /\ pod \in [Pods -> {"absent", "starting", "ready", "gone"}]
    /\ lease \in [Pods -> Tasks \cup {NoTask}]
    /\ age \in [Pods -> Nat]
    /\ ran \in [Pods -> SUBSET Tasks]
    /\ overrun \in SUBSET Pods /\ astray \in SUBSET Pods

\* Isolation: a pod receives the code of two tasks, at once or one after the other, only
\* if its lease ran out while a handler still held it, or if a delete of it was refused or
\* withheld (listing, lease, delete and release order of two handlers).
SingleUse == \A p \in Pods \ (overrun \cup astray) : \A t, u \in ran[p] : t = u

\* The two clean-ups of a handler (service, then worker) never delete a pod in which
\* another handler's task is running, with the same two exceptions.
OnlyUserDeletes ==
    [][\A t \in Tasks : \A p \in Pods \ (overrun \cup astray) :
        (pc[t] \in {"running", "overdue"} /\ cur[t] = p /\ pod[p] = "ready")
            => pod'[p] = "ready"]_vars

\* When a handler has ended, no pod it created or ran code in is left running, whichever
\* error path it took, unless Kubernetes refused a delete or raised in provision().
NoPodLeft == \A t \in Tasks : pc[t] = "done" =>
    /\ pod[t] \in {"absent", "gone"} \/ t \in astray
    /\ \A p \in Pods \ astray : t \in ran[p] => pod[p] = "gone"

\* Every handler ends, so that its slot of the worker's semaphore is freed, but for one:
\* the relay past its timeout that awaits a program which never stops printing.
HandlerEnds == <>[](\A t \in Tasks :
    pc[t] \in {"idle", "done"} \/ (pc[t] = "overdue" /\ out[t] = "on"))

\* The published statuses of every task follow the lifecycle that JobLifecycle states.
Begun == {t \in Tasks : pc[t] # "idle"}
Over == {t \in Tasks : pc[t] = "done"}
Relayed == {t \in Tasks : OnLoop(t)}
Failed == {t \in Tasks : raised[t] # "never"}
Lifecycle == INSTANCE JobLifecycle WITH
    begun <- Begun, over <- Over, relayed <- Relayed, failed <- Failed
ImplementsLifecycle == Lifecycle!Spec

\* No lease lasts for good, whatever becomes of its task: it is released, or expires by
\* its ttl when the release was lost, so no pod is withheld from the pool for ever.
LeaseEnds == \A p \in Pods : []<>(lease[p] = NoTask)
=============================================================================
