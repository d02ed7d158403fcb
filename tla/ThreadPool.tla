------------------------------ MODULE ThreadPool ------------------------------
(***************************************************************************)
(* The server of the native engine: Server::listen_internal accepts a      *)
(* connection and hands it to httplib's ThreadPool, whose workers serve    *)
(* it to its end (process_and_close_socket), a whole interactive session   *)
(* included.  Base workers wait for ever; dynamic ones are started when    *)
(* nobody seems idle and leave after 3 s without work.                     *)
(*                                                                         *)
(* A step is a critical section of mutex_, a wait on cond_, or a step of   *)
(* the served connection.  The engine never calls Server::stop, so the     *)
(* loop ends only when accept() fails, and it sets no limit on jobs_.  A   *)
(* spurious wakeup of cond_ tests the predicate and waits again.           *)
(***************************************************************************)
EXTENDS Integers, Sequences, FiniteSets

CONSTANTS
    Conns,          \* connections clients may open
    Base,           \* the base threads
    Spare,          \* the dynamic threads
    MaxRequests,    \* keep_alive_max_count_
    NoConn

Threads == Base \cup Spare

ASSUME PoolAssumption ==
    /\ IsFiniteSet(Base) /\ Base # {} /\ IsFiniteSet(Spare) /\ Base \cap Spare = {}
    /\ MaxRequests \in Nat \ {0} /\ NoConn \notin Conns

VARIABLES
    listener,   \* place of the thread that accepts
    incoming,   \* the connection it has accepted and not handed over yet
    conn,       \* state of each connection
    jobs,       \* jobs_
    pc,         \* place of each worker
    doing,      \* the connection each worker serves
    left,       \* requests the served connection may still make
    idle,       \* idle_thread_count_
    shutdown,   \* shutdown_
    dynamic,    \* dynamic_threads_
    finished,   \* finished_threads_
    remaining   \* shutdown()'s local remaining_dynamic

pool == <<dynamic, finished, remaining>>
vars == <<listener, incoming, conn, jobs, pc, doing, left, idle, shutdown, pool>>

Unborn == "unborn"
Serving == {"poll", "request", "session"}

Init ==
    /\ listener = "accept" /\ incoming = NoConn
    /\ conn = [c \in Conns |-> "new"]
    /\ jobs = <<>>
    /\ pc = [t \in Threads |-> IF t \in Base THEN "enter" ELSE Unborn]
    /\ doing = [t \in Threads |-> NoConn]
    /\ left = [t \in Threads |-> 0]
    /\ idle = 0 /\ shutdown = FALSE
    /\ dynamic = {} /\ finished = {} /\ remaining = {}

\* The listener keeps mutex_ while it joins finished threads.
MutexFree == listener \notin {"cleanup", "joinFinished"}

WaitSet == {t \in Threads : pc[t] = "waiting"}

-----------------------------------------------------------------------------
(* The listening thread *)

Accept(c) ==
    /\ listener = "accept" /\ conn[c] = "new"
    /\ listener' = "enqueue" /\ incoming' = c
    /\ conn' = [conn EXCEPT ![c] = "accepted"]
    /\ UNCHANGED <<jobs, pc, doing, left, idle, shutdown, pool>>

\* enqueue: with nobody idle and room for one more, a thread is to be started.
Enqueue ==
    /\ listener = "enqueue"
    /\ jobs' = Append(jobs, incoming)
    /\ conn' = [conn EXCEPT ![incoming] = "queued"]
    /\ incoming' = NoConn
    /\ listener' = IF idle = 0 /\ Cardinality(dynamic) < Cardinality(Spare)
                   THEN "cleanup" ELSE "notify"
    /\ UNCHANGED <<pc, doing, left, idle, shutdown, pool>>

\* Joins the finished threads, which are about to return, and starts a new one.
Spawn ==
    /\ listener = "cleanup"
    /\ \A t \in finished : pc[t] = "gone"
    /\ \E n \in Spare \ dynamic :
        /\ dynamic' = dynamic \cup {n}
        /\ pc' = [t \in Threads |-> IF t = n THEN "enter"
                                    ELSE IF t \in finished THEN Unborn ELSE pc[t]]
    /\ finished' = {} /\ listener' = "notify"
    /\ UNCHANGED <<incoming, conn, jobs, doing, left, idle, shutdown, remaining>>

\* Mutant: nobody is notified.
NotifyNobody ==
    /\ listener = "notify" /\ listener' = "accept"
    /\ UNCHANGED <<incoming, conn, jobs, pc, doing, left, idle, shutdown, pool>>

\* notify_one, after the mutex was released: any one waiter, if there is one.
Notify ==
    /\ listener = "notify" /\ listener' = "accept"
    /\ IF WaitSet = {} THEN UNCHANGED pc
       ELSE \E t \in WaitSet : pc' = [pc EXCEPT ![t] = "woken"]
    /\ UNCHANGED <<incoming, conn, jobs, doing, left, idle, shutdown, pool>>

\* accept() fails for good: the loop ends and shutdown() begins.
AcceptFails ==
    /\ listener = "accept" /\ listener' = "notifyAll"
    /\ shutdown' = TRUE
    /\ UNCHANGED <<incoming, conn, jobs, pc, doing, left, idle, pool>>

\* Mutant: shutdown() wakes one waiter.
NotifyOneOnly ==
    /\ listener = "notifyAll" /\ listener' = "joinBase"
    /\ IF WaitSet = {} THEN UNCHANGED pc
       ELSE \E t \in WaitSet : pc' = [pc EXCEPT ![t] = "woken"]
    /\ UNCHANGED <<incoming, conn, jobs, doing, left, idle, shutdown, pool>>

NotifyAll ==
    /\ listener = "notifyAll" /\ listener' = "joinBase"
    /\ pc' = [t \in Threads |-> IF pc[t] = "waiting" THEN "woken" ELSE pc[t]]
    /\ UNCHANGED <<incoming, conn, jobs, doing, left, idle, shutdown, pool>>

\* Then the dynamic threads are moved to a local list, so that one that leaves
\* meanwhile finds itself in neither.
JoinBase ==
    /\ listener = "joinBase" /\ \A t \in Base : pc[t] = "gone"
    /\ listener' = "joinDynamic"
    /\ remaining' = dynamic /\ dynamic' = {}
    /\ UNCHANGED <<incoming, conn, jobs, pc, doing, left, idle, shutdown, finished>>

\* Mutant: the dynamic threads are detached.
DetachDynamic ==
    /\ listener = "joinDynamic"
    /\ listener' = "joinFinished" /\ remaining' = {}
    /\ UNCHANGED <<incoming, conn, jobs, pc, doing, left, idle, shutdown, dynamic, finished>>

JoinDynamic ==
    /\ listener = "joinDynamic" /\ \A t \in remaining : pc[t] = "gone"
    /\ listener' = "joinFinished" /\ remaining' = {}
    /\ UNCHANGED <<incoming, conn, jobs, pc, doing, left, idle, shutdown, dynamic, finished>>

JoinFinished ==
    /\ listener = "joinFinished" /\ \A t \in finished : pc[t] = "gone"
    /\ listener' = "ended" /\ finished' = {}
    /\ UNCHANGED <<incoming, conn, jobs, pc, doing, left, idle, shutdown, dynamic, remaining>>

-----------------------------------------------------------------------------
(* The workers *)

\* Mutant: the newest job is taken.
TakeNewest(t) ==
    IF jobs # <<>>
    THEN /\ pc' = [pc EXCEPT ![t] = "poll"]
         /\ doing' = [doing EXCEPT ![t] = jobs[Len(jobs)]]
         /\ conn' = [conn EXCEPT ![jobs[Len(jobs)]] = "served"]
         /\ left' = [left EXCEPT ![t] = MaxRequests]
         /\ jobs' = SubSeq(jobs, 1, Len(jobs) - 1)
    ELSE /\ pc' = [pc EXCEPT ![t] = "leaving"]
         /\ UNCHANGED <<jobs, doing, conn, left>>

\* The predicate holds: take the oldest job, or leave if there is none.
TakeOrLeave(t) ==
    IF jobs # <<>>
    THEN /\ pc' = [pc EXCEPT ![t] = "poll"]
         /\ doing' = [doing EXCEPT ![t] = Head(jobs)]
         /\ conn' = [conn EXCEPT ![Head(jobs)] = "served"]
         /\ left' = [left EXCEPT ![t] = MaxRequests]
         /\ jobs' = Tail(jobs)
    ELSE /\ pc' = [pc EXCEPT ![t] = "leaving"]
         /\ UNCHANGED <<jobs, doing, conn, left>>

HasWork == jobs # <<>> \/ shutdown

\* A worker comes from its start or its last job: it takes the next one at once
\* or counts itself idle and waits.
Enter(t) ==
    /\ pc[t] = "enter" /\ MutexFree
    /\ IF HasWork
       THEN TakeOrLeave(t) /\ UNCHANGED idle
       ELSE /\ pc' = [pc EXCEPT ![t] = "waiting"]
            /\ idle' = idle + 1
            /\ UNCHANGED <<jobs, doing, conn, left>>
    /\ UNCHANGED <<listener, incoming, shutdown, pool>>

\* A notified worker holds the mutex again; another one may have taken the job.
Resume(t) ==
    /\ pc[t] = "woken" /\ MutexFree
    /\ IF HasWork
       THEN TakeOrLeave(t) /\ idle' = idle - 1
       ELSE /\ pc' = [pc EXCEPT ![t] = "waiting"]
            /\ UNCHANGED <<idle, jobs, doing, conn, left>>
    /\ UNCHANGED <<listener, incoming, shutdown, pool>>

\* 3 s without a notification, for a dynamic worker.
IdleTimeout(t) ==
    /\ t \in Spare /\ pc[t] = "waiting"
    /\ pc' = [pc EXCEPT ![t] = "expired"]
    /\ UNCHANGED <<listener, incoming, conn, jobs, doing, left, idle, shutdown, pool>>

\* wait_for returns what the predicate says then, so work that came with the
\* timeout is done; without any the worker hands itself over to be joined.
Expire(t) ==
    /\ pc[t] = "expired" /\ MutexFree /\ idle' = idle - 1
    /\ IF HasWork
       THEN TakeOrLeave(t) /\ UNCHANGED <<dynamic, finished>>
       ELSE /\ pc' = [pc EXCEPT ![t] = "leaving"]
            /\ dynamic' = dynamic \ {t}
            /\ finished' = IF t \in dynamic THEN finished \cup {t} ELSE finished
            /\ UNCHANGED <<jobs, doing, conn, left>>
    /\ UNCHANGED <<listener, incoming, shutdown, remaining>>

\* The thread function returns.
Leave(t) ==
    /\ pc[t] = "leaving" /\ pc' = [pc EXCEPT ![t] = "gone"]
    /\ UNCHANGED <<listener, incoming, conn, jobs, doing, left, idle, shutdown, pool>>

-----------------------------------------------------------------------------
(* A served connection *)

GoOn(t, there) ==
    /\ pc' = [pc EXCEPT ![t] = there]
    /\ UNCHANGED <<listener, incoming, conn, jobs, doing, idle, shutdown, pool>>

Request(t) == pc[t] = "poll" /\ GoOn(t, "request") /\ UNCHANGED left

\* A POST is answered on a connection that may make another request.
Answer(t) ==
    /\ pc[t] = "request" /\ left[t] > 1
    /\ GoOn(t, "poll") /\ left' = [left EXCEPT ![t] = left[t] - 1]

\* The WebSocket handler runs, as long as the student's program does.
Upgrade(t) == pc[t] = "request" /\ GoOn(t, "session") /\ UNCHANGED left

\* keep_alive gave up after 5 s, the connection was closed by the peer or with
\* its answer, or the WebSocket handler returned: the socket is closed.
Close(t) ==
    /\ pc[t] \in Serving
    /\ pc' = [pc EXCEPT ![t] = "enter"]
    /\ conn' = [conn EXCEPT ![doing[t]] = "closed"]
    /\ doing' = [doing EXCEPT ![t] = NoConn]
    /\ left' = [left EXCEPT ![t] = 0]
    /\ UNCHANGED <<listener, incoming, jobs, idle, shutdown, pool>>

Listening ==
    \/ Enqueue \/ Spawn \/ Notify \/ NotifyAll \/ JoinBase \/ JoinDynamic \/ JoinFinished

Working(t) == Enter(t) \/ Resume(t) \/ Expire(t) \/ Leave(t)

Exchanging(t) == Request(t) \/ Answer(t) \/ Upgrade(t) \/ Close(t)

Next ==
    \/ Listening \/ AcceptFails
    \/ \E c \in Conns : Accept(c)
    \/ \E t \in Threads : Working(t) \/ IdleTimeout(t) \/ Exchanging(t)

\* All threads run.  A request is answered and an unused connection given up in
\* bounded time; a WebSocket session may last for ever.
Fairness ==
    /\ WF_vars(Listening)
    /\ \A t \in Threads : WF_vars(Working(t)) /\ WF_vars(pc[t] # "session" /\ Close(t))

Spec == Init /\ [][Next]_vars /\ Fairness

-----------------------------------------------------------------------------
(* Properties *)

Places == {Unborn, "enter", "waiting", "woken", "expired", "leaving", "gone"} \cup Serving
ListenerPlaces == {"accept", "enqueue", "cleanup", "notify", "notifyAll", "joinBase",
                   "joinDynamic", "joinFinished", "ended"}
ConnStates == {"new", "accepted", "queued", "served", "closed"}

\* Every variable keeps its type.
TypeOK ==
    /\ listener \in ListenerPlaces
    /\ incoming \in Conns \cup {NoConn}
    /\ conn \in [Conns -> ConnStates]
    /\ jobs \in Seq(Conns)
    /\ pc \in [Threads -> Places]
    /\ doing \in [Threads -> Conns \cup {NoConn}]
    /\ left \in [Threads -> 0 .. MaxRequests]
    /\ idle \in Nat
    /\ shutdown \in BOOLEAN
    /\ dynamic \subseteq Spare /\ finished \subseteq Spare /\ remaining \subseteq Spare

Idle == {t \in Threads : pc[t] \in {"waiting", "woken", "expired"}}
Awake == {t \in Threads : pc[t] \notin {Unborn, "waiting", "leaving", "gone"}}

\* No wakeup is lost: while a job is queued, some worker is on its way to the
\* queue or still serves, or the listener is about to start or wake one.
WorkerAwake == jobs # <<>> => (Awake # {} \/ listener \in {"cleanup", "notify"})

\* When listen() returns, every accepted connection has been served and closed,
\* and no thread is left to touch the queue that is destroyed next.
NothingLeft == listener = "ended" =>
    /\ \A c \in Conns : conn[c] \in {"new", "closed"}
    /\ \A t \in Threads : pc[t] \in {Unborn, "gone"}

InSession == \E t \in Threads : pc[t] = "session"

Abstract == INSTANCE JobQueue WITH
    queue <- jobs,
    running <- {doing[t] : t \in Threads} \ {NoConn},
    done <- {c \in Conns : conn[c] = "closed"}

\* Each accepted connection is served once, in the order of arrival: the pool and
\* its condition variable implement the queue the server relies on.
ImplementsQueue == Abstract!Spec

\* A connection in the queue is served, unless a session runs on without end.
QueuedIsServed == \A c \in Conns :
    conn[c] = "queued" ~> (conn[c] # "queued" \/ InSession)

\* Once accept() has failed, listen() returns, unless a session runs on without end.
ListenReturns == shutdown ~> (listener = "ended" \/ InSession)
=============================================================================
