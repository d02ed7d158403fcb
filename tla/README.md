# Verification of the polyglot code execution platform

TLA+ models of the parts of this repository in which order, timing and failure
decide what a student sees, checked with TLC and in part proved with TLAPS.
Paths are relative to the repository's root; `gateway/` stands for
`src/api-gateway/src/`, `orchestrator/` for `src/environment-orchestrator/src/`,
`engine/` for `src/cpp-processing-engine/src/`.

## The system

A student's browser opens a WebSocket to the **gateway**. The gateway checks
the token, subscribes to the task's status channel, pushes the task on a Redis
list and relays messages. The **worker** pops tasks, takes a **sandbox pod**
from a pre-warmed pool (or creates one), has the code run by the **engine** in
the pod, publishes each status on Redis Pub/Sub and deletes the pod. Beside
that path the gateway is a course platform over one SQL database.

| Component | State | Operations | Interacts with |
|---|---|---|---|
| Gateway execution endpoint, `gateway/presentation/execution_ws.py` | per request: subscription, two coroutines, last status | admit, queue, forward status, forward input, charge | browser, Redis, database |
| Worker's loop, `orchestrator/worker.py` (`run_worker_async`) | 50 slots, waiting tasks, the default executor's threads | pop, acquire a slot, start, release, crash | Redis, handlers |
| Worker's handlers, `orchestrator/worker.py` | one handler per task, in a thread (batch) or on the loop (interactive) | handle_batch_task, handle_interactive_task | Redis, provisioner, service, relay |
| Provisioner and lease, `orchestrator/adapters/k8s_provisioner_adapter.py`, `redis_lock_adapter.py` | pods in the cluster, `lease:<pod>` keys | provision, cleanup_pod, acquire_lock, release_lock | Kubernetes, Redis |
| Execution service, `orchestrator/services/execution_service.py`, `http_executor_adapter.py` | none | execute_code with retries, clean-up | engine over HTTP |
| Interactive relay, `orchestrator/adapters/ws_relay_adapter.py` | event, two coroutines, subscription | relay_session | engine over WebSocket, Redis |
| Engine's server, `engine/httplib.h` (`ThreadPool`, `listen_internal`, `process_server_socket`) | queue of connections, base and dynamic threads, idle counter | accept, enqueue, worker loop, keep-alive, shutdown | clients, handlers |
| Engine's WebSocket, `engine/httplib.h` (`ws::WebSocket`, `SocketStream`), `engine/main.cpp` | closed flag, write mutex, read buffer, heartbeat | read, send, close, ping, destroy | relay, session |
| Engine's interactive session, `engine/main.cpp`, `InteractiveSession.hpp`, `ProcessPipe.hpp` | child process, three pipes, flags shared by two threads | compile, start, feed, poll, terminate | child, WebSocket |
| Engine's batch execution, `engine/main.cpp` and strategies | one shared orchestrator and fixed files in /tmp | compile, execute | child process |
| Enrolment, `gateway/use_cases/enroll_student.py` | enrollment rows | execute | database |
| Submissions, `gateway/presentation/academic_router.py` | submission rows | submit, a teacher's grading, and the faculty's queries | grader, database |
| GUI engine, `src/gui-processing-engine/src/gui_server.py` | one process, its activity time | hot reload, WebSocket session | X display |
| Billing, registration, teacher environments | rows | REST handlers | database, Redis catalog |
| Frontend, `src/frontend-web/src` | stores, one WebSocket | run, cancel, type | gateway |

What is hard here: handlers of several tasks interleave between any two Redis
or Kubernetes calls; leases expire; every remote call may raise, executed or not,
and a handler must still publish and clean up; processes outlive the one that
was waited for, and files stay behind half written; Pub/Sub forgets what nobody listens to; the
relay's timeout races the engine's verdict; two engine threads share a child,
and a socket's read buffer, without a lock; a pool's worker may go to sleep as
a connection arrives; a worker that dies takes what it popped with it; SQL
rules are checked in one statement and relied on in another. PROJECT.json lists
each hazard at its line.

What makes each part correct:

- worker's loop: no slot is lost, no task is handled twice, every task is handled;
- provisioning: a pod runs one task's code, is deleted by its user only, and
  none is left behind, but for the cases the code itself lets happen, which the
  properties name; statuses come in order and the handler ends;
- relay and gateway: a student is told exactly one final status, the input a
  student is invited to type is heard, a charge is made once and for success;
- engine's server: each connection is served once, in order, none is forgotten
  by a sleeping pool, and a closed server leaves no thread behind;
- engine's WebSocket: the client gets whole frames and one Close, the program
  gets the client's input whole and in order, and all three threads end;
- engine's session: all output, then one truthful verdict; no zombie, no thread
  left waiting;
- batch engine: an answer is the whole output of the attempt it answers, no file
  an earlier attempt left behind spoils a later one, and both sides end;
- enrolment: no more rows than places, one row per student;
- submissions: one row per student, whose marks are those of its source unless
  the teacher overrode them.

## Modules

| Module | Models | State and actions |
|---|---|---|
| `ExecutionTasks` | the tasks on `execution_queue` | `Tasks`, shared by the next two |
| `WorkerQueue` | the worker's loop and its death | `place` of each task; `queue` is the Redis list, `waiting` the semaphore's waiters, `executor` the executor's queue; `Crash`, `Restart` |
| `PodPool` | worker handlers, provisioner, lease, execution service, and of the interactive relay what it publishes and how it ends | one program counter per task, one step per remote call; `out` is the relay's output_task; `lease`, `age` are the Redis keys, `pod` the cluster; `overrun`, `astray` record pods whose lease ran out under a handler, and pods left or not deleted |
| `JobLifecycle` | the abstract promise to the gateway | last published status of a task; whether its handler has begun, is over, is interactive, and has met a raising command |
| `ExecutionRelay` | one request through gateway, Redis, worker and relay | `gw`, `gwInput`, `wk`, `outT`, `inT` are the coroutines; `statusCh`, `stdinCh` the subscriptions |
| `ThreadPool` | the engine's accept loop, its thread pool and the connections it serves | `listener` and `pc` are the threads; one step per critical section of `mutex_` or wait on `cond_`; `idle`, `dynamic`, `finished`, `jobs` are the pool's members |
| `JobQueue` | the abstract promise of the pool to the server | the queue, what is served, what is done |
| `EngineSocket` | the WebSocket of a session, as its three threads use it | `pc` are the threads, `wlock` is `write_mutex_`, `buf`, `off`, `size` the unlocked read buffer; one step per access |
| `EngineSession` | the engine's interactive session | `pc.main`, `pc.out` are the two threads; one step per system call or shared variable; `pipe`, `unread` are the output and stdin pipes |
| `BatchEngine` | one batch task from the HTTP executor to the program in the pod | `client` is `execute_code`, `pc` one thread of the engine per attempt; `this`, `strategy`, `freed` the strategy objects; `binary`, `cache`, `out`, `text` the files in /tmp |
| `Enrollment` | the enrolment endpoint | one program counter per request, one step per SQL statement |
| `Submissions` | the submit endpoint and the teacher's grading | one program counter per call; `loaded`, `was` are what its session read, which decides what its UPDATE writes |
| `MC...` | instances for TLC, and statements the code does not keep | |
| `...Proofs` | the theorems about the module they extend; `PodPoolProofs` extends both modules of the worker | |

They compose by contract. `PodPool` is mapped by an `INSTANCE` to
`JobLifecycle` (a published status is the same in both; a handler is over when
its counter is `done`), and `ThreadPool` to `JobQueue`. `WorkerQueue` gives
tasks to handlers and assumes that batch handlers end and that interactive ones
come to their session or fail, which `PodPool` (`HandlerEnds`) shows; it assumes
of no session that it ends, because `HandlerEnds` and `RelayReturns` leave that
open for a program that keeps printing. `ExecutionRelay` takes from
`EngineSession` that an engine sends output, then one verdict, then closes, or
loses the connection - which `VerdictIsLast`, `HandlerReturns` and the abort in
`SendThrows` establish. `EngineSession` takes from `EngineSocket` that its
messages arrive whole and in order, and `EngineSocket` from it that an output thread that
finds `connection_active` down ends; `ThreadPool` lets a session take as long as it likes.

Choices a reader should know:

- *WorkerQueue*. Each task is pushed once. asyncio's semaphore wakes its
  waiters in order. `Slots`, `Threads` stand for the 50 slots and the executor's
  threads. An interactive handler's provisioning occupies the loop (`LoopFree`).
  A crash loses what was popped; the container's restart brings the worker back
  with all its slots free. `PopLost` is a BLPOP whose answer the connection lost.
- *PodPool*. One environment type, so one pool. The queue hands out each task
  once. Interactive handlers call `provision()` without awaiting, so they block
  the event loop (`LoopFree`); batch handlers are threads. Replaced pre-warmed
  pods have new names and are taken from `WarmPods`. A lease lives `LeaseTTL` ticks,
  whatever its holder does, and a tick may come between any two steps. The task
  recorded in a lease is history; the code stores "leased". `Flaky` are the tasks whose
  Redis commands may raise, each before or after Redis has executed it. With
  `KubeMayFail` deletes may be refused, and a call inside `provision()` may raise
  something else than an ApiException or lose its answer, which leaves a created pod to
  nobody. `DebugMode` is the variable of that name. Calls to Kubernetes return.
  The relay is here what the pod and the gateway see of it: its `output_task` publishes a
  verdict, or is ended by a connection or a publish that fails; the handler's timeout
  publishes an error beside it and then awaits it without bound (`overdue`). Messages
  that only carry output are left out. An `output_task` whose handler has left goes on.
- *JobLifecycle* promises no more than the code keeps. A batch task whose Redis
  commands succeed gets one final status, the last. After a command that raised, an
  error may follow "completed", because the first was published all the same. An
  interactive task may get two final statuses in either order, the relay's and the
  engine's. A handler ends without a final status only if a command raised. The
  gateway shows the first (`OneFinalShown` of `ExecutionRelay`).
- *ExecutionRelay*. `gone` is a browser whose disconnection the server has
  seen, so sends to it raise. Redis itself does not fail here; `PodPool` covers
  raising publishes. Repeated "running" messages are kept as one. The 120 s
  timeout may fire at any time while the relay waits. An input is `early` or
  `ready` by whether "executing" was on the screen, or a JSON `number`, which
  ends the gateway's coroutine with a TypeError.
- *ThreadPool*. A connection is one unit of work, with its requests counted by
  `left`; parsing and routing are no steps. The engine sets no limit on the
  queue and never calls `stop`, so the loop ends only if accept() fails. A
  spurious wakeup tests the predicate and sleeps again, which changes nothing.
- *EngineSocket*. A frame is written as a head and a rest and read as one piece;
  payloads, masking and fragmentation are left out. Two readers of one buffer,
  which only the closing thread brings about, may be given a frame or nonsense
  (`Give`). A failed write happens once without the client's leaving
  (`stalled`). Pongs are left out: nothing looks at `unacked_pings_` when
  `max_missed_pongs_` is 0. The text main hands to the program is a step of its own
  (`Feed`) that may never come, because the stdin pipe is full and the program does
  not read.
- *EngineSession*. stdout and stderr are one stream. The stdin pipe holds
  `StdinMax` chunks; a write to a full one blocks the main thread. Accesses to
  the unlocked members are atomic and in program order. `Terminal` and the
  child's fate are what the client and the kernel see.
- *BatchEngine*. Two threads serve one pod after a request that failed at the
  client, because nothing stops the first thread. All attempts carry the same
  task, so extra files, in.txt and sources have the same content and only
  completeness is kept. A language is one of five kinds of strategy. A copy of a
  file empties its target in one step and fills it in another, with what the
  source held at either. `SwapStrategy` follows the `unique_ptr`'s assignment: read
  the old pointer, then store and delete; a thread that calls an object deleted
  under it may bring the process down or may find the memory unchanged. `damaged`
  marks an exit code that comes from a missing or incomplete binary and not from the
  program; on the wire it is an ordinary failure. `out` stands for out.txt and err.txt.
  `smart_waitpid` waits for and kills the direct child, so two things may go on after
  it: a process the program has forked, which keeps /tmp/student_exec busy, so that
  the next attempt's copy from the cache fails and is answered with a 500 although it
  has the engine alone; and the linker of a killed compiler, which may still replace
  the binary. /tmp lies in the pod's memory and may fill up at any write: a copy into
  the cache that fails midway leaves a partial file there (`SaveFails`), one from it a
  500 (`HitFails`), a script or output is cut short unseen. `hindered` records the
  attempts this has happened to. Left out: what a leftover process prints into a
  later attempt's out.txt, an engine killed for its memory, and, of a source cut
  short by a full /tmp, anything but that it does not compile.
- *Enrollment*. One offering. `Workers` are the threads running endpoints, over
  all gateway processes. Each statement sees what was committed before it.
  Nothing calls `drop_course`, so rows stay active.
- *Submissions*. One assignment. Of the columns, the source and the marks, which
  stand for what the grader returns; the grader is a function of the source.
  SQLAlchemy's UPDATE names only the columns that differ from what the session
  loaded, in both endpoints. Status and feedback, which the teacher's PATCH also
  writes, are left out. `met` records the submissions beside which another call for a
  row of the student, the teacher's included, was between query and commit;
  `overruled` the rows whose marks a teacher has set since a submission last changed
  them.

Every definition is tied to its lines in PROJECT.json, "map". Actions whose
comment begins with "Mutant" are not part of any specification: each is a
plausible bug put in the place of the action after it, to see that the
properties notice.

## Runs

| Run | Instance | Question and answer |
|---|---|---|
| `worker_queue` | 2 batch tasks and 2 interactive, 2 slots, 1 thread, 1 crash | are slots kept, tasks handled at most once, in order, and at last, unless endless sessions hold every slot? yes |
| `pool_two_tasks` | 2 tasks, 1 warm pod, 2 rounds; leases expire, Redis fails for one task, Kubernetes for both, DEBUG_MODE | is each pod used once, deleted by its user, and never left, but for a lease that ran out under its holder and a delete that did not happen? yes |
| `pool_progress` | 2 tasks, Redis may raise for one of them; leases expire | do handlers and leases end, but for a relay whose program keeps printing, and statuses implement `JobLifecycle`? yes |
| `pool_lease_expires` | 2 tasks, nothing fails, a use longer than the lease | two tasks run in one live pod: finding |
| `relay` | 1 typed input, all three modes | one final status, ready input heard, charges right, everyone ends: yes |
| `thread_pool` | 3 connections of 2 requests, 1 base thread, 2 dynamic | no lost wakeup, a clean shutdown, queued connections served, `JobQueue` implemented: yes |
| `engine_socket` | 1 client frame beside its Close, 1 ping | whole frames, one Close, input intact, all threads end unless the program never reads what main writes to it: yes |
| `engine_session` | 2 client messages, 2 unread chunks of output, 1 of input | truthful, complete and last verdict; child reaped; handler returns, unless it is blocked writing to a program that never reads: yes |
| `engine_text` | the same | abort on text that is not UTF-8: finding |
| `batch_retry` | 2 attempts, all five kinds of strategy | an attempt alone in the engine, hindered neither by a leftover process nor by a full /tmp, is answered intact; only those and threads that meet can break the cache, only the latter the process; adapter and threads end: yes |
| `enrol_overlap` | 4 requests, 2 students, 2 places, 2 threads | excess bounded by the threads: yes |
| `submissions` | 3 submissions, 1 grading, 2 students, 2 marks, 2 threads | marks and source of a row differ only after a teacher's grading or an overlap, rows bounded by the threads: yes |

More disagreements are stated in the MC modules without a run of their own. To
see one, put its name in place of the properties of the cfg:

| Statement | cfg | What the code does |
|---|---|---|
| `ReadyWhenAnnounced` (PROPERTY) | `MCPodPool_expiry.cfg` | a pod deleted since it was listed is announced as ready |
| `Backpressure` (INVARIANT), `CrashLosesSlots` (PROPERTY) | `MCWorkerQueue_slots.cfg` | tasks are popped before they have a slot, and a crash loses them all |
| `TimeoutEndsSession` (PROPERTY) | `MCRelay_run.cfg` | a timed-out relay waits for output that may never end |
| `CancelHeard`, `ChargedOnSuccess` (INVARIANT) | `MCRelay_run.cfg` | a cancel is published to nobody; a failed batch run is charged |
| `SpawnsUnderMax` (INVARIANT) | `MCThreadPool_serve.cfg` | a worker that was notified still counts as idle, so a second connection starts no thread and may wait behind a session |
| `CloseUnblocksRead` (PROPERTY), `NothingAfterClose` (INVARIANT) | `MCEngineSocket_close.cfg` | close() returns while the main thread still polls; a pong follows the Close |
| `KillsOnlyTheChild`, `NothingAfterVerdict` (INVARIANT) | `MCEngine_run.cfg` | a reaped pid is killed; a compile-only run sends its artifact after its verdict |
| `WritesWithoutBlocking` (PROPERTY) | `MCEngine_run.cfg` | a child that reads nothing blocks the main thread, which misses the client's leaving |
| `SlowStartRetried` (INVARIANT) | `MCBatch_retry.cfg` | a port that is not open yet is not retried |
| `CapacityKept`, `EnrolledOnce` (INVARIANT) | `MCEnrollment_overlap.cfg` | two requests pass a check before either saves its row |
| `GradeOfSource` (INVARIANT) | `MCSubmissions_resubmit.cfg` | two resubmissions of one student, or one and a grading, mix their columns |

Why the bounds are enough. Tasks meet in pairs at a pod, its lease and the
loop; what a third task could do with a stale release is covered by the proofs. One
warm pod maximises contention, and dynamic pods are private. `ListAttempts` of
2 has a first, a last and a following round (the code has 3); the liveness run has one
round, since what a second adds is an end that the rank of `HandlersAreBounded`
covers. A `LeaseTTL` of 1 tick ends a lease at any moment, which includes what longer
ones allow: the next tick may come before, during or after everything its holder
does. In both runs of the pool one task has failing Redis commands and the other
none: tasks share no status, `JobLifecycle` promises more of the second, and a lease may be
lost to the first. In the liveness run Kubernetes answers: its refusals end a handler's wait
in ways `NoAnswer`, `CreatePod` and the empty listing have too. As many batch and interactive
tasks as slots, and more slots than threads, make a task wait in each of the worker's
three queues, stop the loop, and let endless sessions hold no, one or every slot. A pool of one base
thread and two dynamic ones has a thread that never leaves, one that does and one
that is started beside it; three connections keep both busy and one queued. One
frame before the Close makes the buffer hold two frames when both readers look at
it. The engine keeps one more chunk than a read needs, fills the stdin pipe, and
sees input before and after EOF. The relay has one task because tasks share no channel;
one input can be early, late, or a number. Two attempts are a first and a
retried one, alone or together, with every state of the files and the cache, and every
process, that the first can leave. Two overlapping threads, a later submission and a
grading before, beside or after any of them make and see every mixture of rows. For the properties of the proof modules the
bounds do not matter.

Deadlock checking is off where the system stops by design: an engine's handler
returns, a request is answered, a batch task returns, a server is shut down,
a queue is empty. `PodPool` and `EngineSocket` are checked for deadlock: handlers that
are all done, and threads that have all ended, stutter in a step of their own.

Fairness. `WorkerQueue` assumes that the loop and the executor's threads run, that
batch handlers end and that interactive ones finish provisioning, and nothing of
sessions, crashes or restarts. `PodPool` assumes that a handler's thread or coroutine
goes on when it can and its remote calls return (the clients of Kubernetes, Redis
and the engine time out or are answered), that a publish `output_task` has begun
returns, and that time passes; nothing is assumed of the program in the pod, which may
print for ever, of pods becoming ready, or of tasks arriving. `ExecutionRelay` assumes
that both event loops schedule every coroutine and the 120 s pass; nothing is
assumed of the student, the program or its pod. `ThreadPool` assumes that
threads run and that a request is answered, or an unused connection given up, in
bounded time (5 s of keep-alive, the limits of a batch execution); a WebSocket
session may last for ever, which the properties say. `EngineSocket` assumes
that the three threads run and that a client answers a Close; its waits have
timeouts. Two of its steps are left to the program and may never come: that it reads
what main writes to it, and that it ends while the connection is active. `EngineSession` assumes both threads run; nothing is assumed of the child, the
client or the clock. `BatchEngine` assumes that the engine's threads and the
adapter run and that their timeouts (60 s, 5 s, 120 s) fire; nothing is assumed of the
container's start, the compiler, the program or the network.

## Proofs

Each proof module states the inductive invariant of its component and proves
that it holds initially and is kept by every action. Every invariant that a run
checks follows from it and is a theorem. Every invariant named here was checked
with TLC before it was proved.

`PodPoolProofs`, for any tasks, pods, rounds, lifetime of leases and failures:

- `TypeCorrect`: `Spec => []TypeOK`. `TypeOK` is not inductive alone: the bound
  on rounds needs `RoundInv` and the pod of a handler needs `OwnInv`.
- `StatusesFollow`: the safety half of the mapping to `JobLifecycle`, with no
  condition on leases, deletes or Redis. A handler publishes from seven places, its
  `output_task` beside it and even after it, and a publish that raises may have been
  executed. So the mapping needs `StatusInv`, what has been published at each place,
  `ResultInv`, that a result is reported only by a batch handler that has a pod, and
  `OutputInv`, that an `output_task` is an interactive task's that was announced, and
  outlives its handler only if a command raised.
- `CreatedPodsArePrivate`, with no exception for leases, deletes or debugging: what goes
  wrong when a lease expires goes wrong in pre-warmed pods only. A pod that a handler
  creates itself receives no other task's code and is not taken away while the code runs.
- `HandlersAreBounded`: over a finite pool, each step of a handler lowers its
  `Rank`, a number made of the rounds and listings left and the place reached, and
  nothing else moves it. No sequence of failures makes a handler retry for ever;
  that it takes its next step is a matter of fairness, and TLC's (`HandlerEnds`).
- `PodsAreSingleUse`, `HandlersLeaveNoPod`, `DeletesAreOwn`: `SingleUse`, `NoPodLeft`
  and `OnlyUserDeletes` for every setting of the constants, the deployed one included,
  in which a lease of 60 s ends under runs of 120 s and deletes may be refused. The
  properties name the pods to which the code lets that happen, `overrun` and `astray`,
  and say that no order of listings, leases, deletes and double releases brings two
  tasks to any other pod. The exceptions are needed: `pool_lease_expires` shows the first, and
  without the second a pod that was not deleted is released all the same and
  leased again. `IInv` says who owns what: the holder of a live pre-warmed pod owns its lease
  (`LeaseInv`); what was cleaned up is gone (`GoneInv`), so a second release or a stale
  listing meets a dead pod; a created pod is waited for, owned, gone or astray
  (`CreatedInv`); code was posted only to the pod a task names (`RanInv`).
- `SlotsAreKept` and `TasksInOrder`, about `WorkerQueue`, for any tasks, slots,
  threads and crashes, from `LoopInv`. A task is in one list only, once
  (`ListInv`); free slots and tasks that hold one add up to `Slots`, and a dead
  worker has nothing in its hands (`SlotInv`), so a restart may begin with all of
  them; a task was started exactly if it has passed the semaphore (`StartInv`); the
  waiting tasks are the last ones popped, in that order (`OrderInv`).
  Crashes are bounded in the model, by any number.
- `NoTaskIsOvertaken`, from the same invariant: each step of the worker takes a task
  on to a later list or leaves it where it is, and puts no other in front of it in the list it
  waits in. So a task waits for those that came before it and for no others.

`ExecutionRelayProofs`, for any number of inputs: `OneFinal`, `InputIsHeard`,
`ChargedOnce`, `Typed`. Statuses travel through two queues, so each argument
follows one on its way: the gateway leaves its loop with the first final status
it shows (`ShownInv`); "executing" is under way only once the relay listens
(`HeardInv`); "completed" is under way only once the engine has said it
(`ChargeInv`); `ModeInv` says which handler serves which mode. Two theorems are about
how a request ends:

- `FinalIsNotLost`: when the worker has ended, the student has seen a final status, has
  left, or has one waiting with a gateway that still forwards. It is what
  `StudentIsTold` needs for its safety. Whoever queued a task is subscribed, and leaves only with
  the student or a final status (`GatewayInv`); the output coroutine lives within
  the relay (`OutputInv`); so a final status is published before either is on its way out
  (`Concluded`), and from then on it is under way or shown (`Told`).
- `HandlersGoOn`: the worker makes at most nine steps. Once the run in the pod is over,
  its messages only get fewer and the output coroutine goes on towards its end; once the
  worker has ended, the same holds of the gateway and its subscription. Nothing bounds
  the output coroutine before the run is over, and a timed-out worker waits for it:
  `TimeoutEndsSession` does not hold.

`ThreadPoolProofs`, for any connections and threads:

- `NoLostWakeup`: a base thread returns only from an empty queue after the
  shutdown, so while the listener notifies there is a worker that waits, works
  or is on its way (`BaseInv`, `JoinInv`).
- `ShutdownIsClean` and `PoolIsAQueue` add `ConnInv`, which says where each connection is
  accounted for. The second is the whole refinement of `JobQueue`, which
  states safety only.
- `IdleIsCounted`: types, and that `idle_thread_count_`, an unsigned number that
  enqueue() trusts, is the number of idle workers.

`EngineSocketProofs`, for any number of frames and pings: `WholeFrames` and
`OneClose` rest on the mutex (`LockInv`) and on the one thread that `closed_`
lets write the Close (`CloseInv`); `InputIsIntact` on arithmetic: what main was
given, what the buffer holds and what is on the wire carry consecutive numbers
until the output thread closes (`DataInv`); `HeartbeatIsJoined` on
`ping_mutex_`; and `Typed`. `LifeInv` adds the order in which the threads end:

- `NobodyOutlives`: the object is on main's stack and two other threads use it; the
  destructor begins when the output thread has returned and is in no read, and main
  returns when the heartbeat has and nobody holds `write_mutex_`.
- `TeardownIsBounded`: each thread has a rank that its own steps lower and no other
  thread's, nor the client's, raises. Once the connection is down main has at most 14
  steps; once the socket is closed the heartbeat at most five; and once main has
  stopped reading, the output thread, which reads until a Close, at most 16 and ten for each
  frame still on the way, in the buffer or not yet sent. The two readers may have left
  the buffer's offsets anywhere, so a read may skip what is no longer there:
  the rank counts that too.

`EngineSessionProofs`, for any sizes of the pipes and any number of messages:
`OneVerdict`, `OutputIsComplete`, `VerdictIsHonest`, `NoZombie`, `Typed`. No
lock is held, so each fact has to survive the other thread's steps: main puts
`connection_active` down before it terminates the child (`PlaceInv`), so an output
thread that still finds it up after its loop has the exit to itself (`ExitInv`);
by then the child is reaped (`ReapInv`) and read empty (`DrainInv`), and nothing
was sent before (`VerdictInv`). `ThreadsAreBounded` gives each thread a rank: main
has at most 20 steps of its own and three for each message of the client, and once the
child is over the output thread has at most 16 and one for each chunk left in the
pipe. `WaitsAreOver`, from `WaitInv`: a thread in the blocking waitpid has a child that
is over, and main, whose locals the output thread refers to, returns after that thread.

`BatchEngineProofs`, for any number of attempts:

- `TypeCorrect`: `Spec => []TypeOK`, inductive as it stands.
- `EngineLives`, `CacheKept`: `EngineSurvives` and `CacheIsSound` at every step.
  The first says something as long as no two threads have met (`met = {}`), the second
  as long as, besides, no attempt was hindered by a leftover process or a full /tmp. The
  invariant is `Calm` until two threads meet: one thread serves at most; the object it uses is
  the current strategy, which was never deleted, and a strategy that has been
  current belongs to a thread past its `set_language` (`StrategyKept`). A binary
  that an unhindered thread saves is whole (`BuildKept`). `Fresh` says that an attempt not yet
  posted has no thread, so a POST starts one and never restarts one.
- `RetriesAreIntact`: `AloneIsIntact`, which also speaks of engines in which
  threads have met. A thread that is not in `met` serves alone (`AloneInv`);
  its strategy lives (`LiveInv`) and no program of another thread runs (`DeadInv`), while
  what such a program has left may: if it is in the way, the thread is hindered;
  else what it builds, runs and reads is its own at each place (`IntactInv`), except
  when the cache it copies was broken before, by a meeting or a copy that failed midway.
- `RetriesAreBounded`: each step of the adapter lowers `AdapterLeft`, at most three
  for each attempt, and nothing the engine does moves it; a thread of the engine
  only goes forward, by `StepsLeft`, and none is started twice.

`EnrollmentProofs`, for any requests, students, capacity and threads:

- `Overbooking`: at most `Workers - 1` rows too many. Rows alone are no
  inductive bound, because a row is saved long after the check that allowed it;
  `PlacesInv` counts rows and promises together. At the check, fewer than
  `MaxCapacity` rows exist and every other promise is in flight.
- `Duplicates`: at most `Workers` rows of one student, by the same argument.
- `Typed`.

`SubmissionsProofs`, for any submissions, gradings, students, marks and threads:

- `MixedNeedsOverlap`: a submission beside which no other call for a row of its student
  was between query and commit writes to the row it loaded (`MetInv`, `RowInv`), source
  and marks together; what changes the marks afterwards is a teacher, and the row is then
  `overruled`.
- `RowsWithinThreads`: a query that finds no row comes before the student's first
  commit, so all rows a student ever gets were in flight at that moment
  (`InsertInv`). `Typed`.
- `LoneSubmissionsAreSerial`: on any number of threads, a submission that met nobody
  changes the table as one atomic step would, which inserts the student's only row or
  overwrites source and marks of one together. The overlap, not the separate
  statements, is all that is wrong.

Only model-checked: all liveness, which needs ENABLED and fairness, out of the
prover's reach; so the fairness half of `JobLifecycle`, `EachHandled`, `HandlerEnds`,
`LeaseEnds`, `RelayReturns`, `HandlerReturns`, `ThreadsEnd` and the like. For
`PodPool`, `EngineSession`, `EngineSocket`, `ExecutionRelay` and the adapter of
`BatchEngine` the ranks leave open only that the next step is taken. The contracts
between modules are stated above and not proved. The assumptions on constants are the named ASSUMEs of the modules, which every run
evaluates.

## Not modelled

- The GUI engine: its process variable is shared by hot reload, the idle monitor
  and the WebSocket session, so it deserves a model and is the next one to write.
- Registration: two commits, of which the second may fail; the frontend: the
  callbacks of a cancelled run. Both are hazards without a property.
- Billing's balance: the charge is one synchronous function of a single event
  loop, which nothing interleaves; which runs are charged is in `ExecutionRelay`.
- The clean-up job of the manifests (`k8s/09-sandbox-gc-cronjob.yaml`), which deletes
  sandbox pods that have Succeeded or Failed, whatever their age, and so not the running
  ones a handler has left; the Deployment that replaces pre-warmed pods is
  `PodPool`'s environment.
- A constructor of `std::thread` that throws after its connection was queued
  (`httplib.h:10094`), for want of memory or threads: the exception leaves `listen()`
  and ends the engine; in the model threads always start.
- Inside the engine, most of `httplib.h` (client, parsing, TLS, multipart) and all
  of `json.hpp` are third-party code; of the first the server's pool and the
  WebSocket are modelled because the engine's own threads meet in them. Strategies'
  command lines and `SecurityContainer`, which prints, hold no state.
- REST wrappers, token and password handling, the grader's string work, seeds,
  metrics and the AI worker hold no state whose order matters.

## Plan

1. `GuiServer`: hot reload against the session and the idle monitor.
2. `Workspace`: the browser's callbacks against a cancelled run, composed with
   `ExecutionRelay`; `Registration`.
3. Proofs: ranks for `ThreadPool`, whose loops are driven by the listener; the
   contract that `ExecutionRelay` takes from `EngineSession`, as a refinement of an
   abstract engine.
