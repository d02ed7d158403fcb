--------------------------- MODULE ThreadPoolProofs ---------------------------
(***************************************************************************)
(* Proofs about ThreadPool, for any number of connections and threads.     *)
(*                                                                         *)
(* WorkerAwake is inductive with WorkInv: a base thread returns only from  *)
(* an empty queue after the shutdown, so as long as the listener notifies  *)
(* there is a thread that waits, works or is on its way.  NothingLeft      *)
(* needs to know where each connection and each dynamic thread is          *)
(* accounted for (ConnInv, JoinInv).                                       *)
(* The idle counter is right because only the worker that begins or ends   *)
(* to be idle changes it (IdleInv).                                        *)
(***************************************************************************)
EXTENDS ThreadPool, FiniteSetTheorems, TLAPS

\* The types of all variables but the idle counter.
TypeInv ==
    /\ listener \in ListenerPlaces
    /\ incoming \in Conns \cup {NoConn}
    /\ (listener = "enqueue") <=> (incoming # NoConn)
    /\ conn \in [Conns -> ConnStates]
    /\ jobs \in Seq(Conns)
    /\ pc \in [Threads -> Places]
    /\ doing \in [Threads -> Conns \cup {NoConn}]
    /\ \A t \in Threads : pc[t] \in Serving <=> doing[t] # NoConn
    /\ left \in [Threads -> 0 .. MaxRequests]
    /\ shutdown \in BOOLEAN
    /\ dynamic \subseteq Spare /\ finished \subseteq Spare /\ remaining \subseteq Spare

Closing == {"notifyAll", "joinBase", "joinDynamic", "joinFinished", "ended"}

\* Base threads are born with the pool and return only when it is shut down and the
\* queue is empty.
BaseInv ==
    /\ shutdown <=> listener \in Closing
    /\ \A t \in Base : pc[t] \notin {Unborn, "expired"}
    /\ \A t \in Base : pc[t] \in {"leaving", "gone"} => shutdown /\ jobs = <<>>

\* A dynamic thread that runs is in one of the three lists of threads to be joined.
JoinInv ==
    /\ \A t \in Spare : pc[t] \in {Unborn, "gone"} \/ t \in dynamic \cup finished \cup remaining
    /\ remaining # {} => listener = "joinDynamic"
    /\ listener \in {"joinDynamic", "joinFinished", "ended"} =>
          dynamic = {} /\ \A t \in Base : pc[t] = "gone"
    /\ listener = "ended" => finished = {}

-----------------------------------------------------------------------------
(* Types *)

LEMMA HeadAndTail ==
    ASSUME NEW S, NEW q \in Seq(S), q # <<>>
    PROVE  Head(q) \in S /\ Tail(q) \in Seq(S)
OBVIOUS

LEMMA TypeInit == Init => TypeInv
<1> SUFFICES ASSUME Init PROVE TypeInv
  OBVIOUS
<1>1. pc \in [Threads -> Places] /\ left \in [Threads -> 0 .. MaxRequests]
  BY PoolAssumption DEF Init, Places, Unborn
<1>2. \A t \in Threads : pc[t] \notin Serving
  BY DEF Init, Serving, Unborn
<1>3. conn \in [Conns -> ConnStates] /\ jobs \in Seq(Conns)
  BY DEF Init, ConnStates
<1>4. \A t \in Threads : doing[t] = NoConn
  BY DEF Init
<1>5. QED
  BY <1>1, <1>2, <1>3, <1>4 DEF Init, TypeInv, ListenerPlaces

\* Taking a job, or none, keeps the types of what it changes.
LEMMA TakeTypes ==
    ASSUME TypeInv, NEW t \in Threads, TakeOrLeave(t)
    PROVE  /\ conn' \in [Conns -> ConnStates] /\ jobs' \in Seq(Conns)
           /\ pc' \in [Threads -> Places] /\ doing' \in [Threads -> Conns \cup {NoConn}]
           /\ left' \in [Threads -> 0 .. MaxRequests]
           /\ pc[t] \notin Serving => \A u \in Threads : pc'[u] \in Serving <=> doing'[u] # NoConn
<1> USE PoolAssumption DEF TypeInv, ConnStates, Places, Serving, Unborn
<1>1. CASE jobs # <<>>
  <2>1. Head(jobs) \in Conns /\ Tail(jobs) \in Seq(Conns)
    BY <1>1, HeadAndTail
  <2>2. MaxRequests \in 0 .. MaxRequests
    OBVIOUS
  <2>3. Head(jobs) # NoConn
    BY <2>1
  <2>4. /\ pc' = [pc EXCEPT ![t] = "poll"] /\ doing' = [doing EXCEPT ![t] = Head(jobs)]
        /\ conn' = [conn EXCEPT ![Head(jobs)] = "served"] /\ jobs' = Tail(jobs)
        /\ left' = [left EXCEPT ![t] = MaxRequests]
    BY <1>1 DEF TakeOrLeave
  <2>5. QED
    BY <2>1, <2>2, <2>3, <2>4
<1>2. CASE jobs = <<>>
  BY <1>2 DEF TakeOrLeave
<1>3. QED
  BY <1>1, <1>2

LEMMA TypeStep ==
    ASSUME TypeInv, JoinInv, [Next]_vars
    PROVE  TypeInv'
<1> USE PoolAssumption DEF TypeInv, ListenerPlaces, ConnStates, Places, Serving, Unborn, pool
<1>1. CASE UNCHANGED vars
  BY <1>1 DEF vars
<1>2. ASSUME NEW c \in Conns, Accept(c) PROVE TypeInv'
  BY <1>2 DEF Accept
<1>3. CASE Enqueue
  BY <1>3 DEF Enqueue
<1>4. CASE Spawn
  BY <1>4 DEF Spawn, JoinInv, Threads
<1>5. CASE Notify
  BY <1>5 DEF Notify, WaitSet
<1>6. CASE AcceptFails \/ NotifyAll
  BY <1>6 DEF AcceptFails, NotifyAll
<1>7. CASE JoinBase \/ JoinDynamic \/ JoinFinished
  BY <1>7 DEF JoinBase, JoinDynamic, JoinFinished
<1>8. ASSUME NEW t \in Threads, Enter(t) PROVE TypeInv'
  <2>1. CASE HasWork
    <3>1. TakeOrLeave(t) /\ pc[t] \notin Serving
      BY <1>8, <2>1 DEF Enter
    <3>2. QED
      BY <1>8, <3>1, TakeTypes DEF Enter
  <2>2. CASE ~HasWork
    BY <1>8, <2>2 DEF Enter
  <2>3. QED
    BY <2>1, <2>2
<1>9. ASSUME NEW t \in Threads, Resume(t) PROVE TypeInv'
  <2>1. CASE HasWork
    <3>1. TakeOrLeave(t) /\ pc[t] \notin Serving
      BY <1>9, <2>1 DEF Resume
    <3>2. QED
      BY <1>9, <3>1, TakeTypes DEF Resume
  <2>2. CASE ~HasWork
    BY <1>9, <2>2 DEF Resume
  <2>3. QED
    BY <2>1, <2>2
<1>10. ASSUME NEW t \in Threads, Expire(t) PROVE TypeInv'
  <2>1. CASE HasWork
    <3>1. TakeOrLeave(t) /\ pc[t] \notin Serving
      BY <1>10, <2>1 DEF Expire
    <3>2. QED
      BY <1>10, <3>1, TakeTypes DEF Expire
  <2>2. CASE ~HasWork
    BY <1>10, <2>2 DEF Expire
  <2>3. QED
    BY <2>1, <2>2
<1>11. ASSUME NEW t \in Threads, Leave(t) \/ IdleTimeout(t) PROVE TypeInv'
  BY <1>11 DEF Leave, IdleTimeout
<1>12. ASSUME NEW t \in Threads, Request(t) \/ Upgrade(t) PROVE TypeInv'
  BY <1>12 DEF Request, Upgrade, GoOn
<1>13. ASSUME NEW t \in Threads, Close(t) PROVE TypeInv'
  BY <1>13 DEF Close
<1>14. ASSUME NEW t \in Threads, Answer(t) PROVE TypeInv'
  <2>1. left[t] - 1 \in 0 .. MaxRequests
    BY <1>14 DEF Answer
  <2>2. QED
    BY <1>14, <2>1 DEF Answer, GoOn
<1>15. QED
  BY <1>1, <1>2, <1>3, <1>4, <1>5, <1>6, <1>7, <1>8, <1>9, <1>10, <1>11, <1>12, <1>13,
     <1>14
     DEF Next, Listening, Working, Exchanging

-----------------------------------------------------------------------------
(* The shutdown and the lists of threads *)

LEMMA BaseInit == Init => BaseInv /\ JoinInv
BY PoolAssumption DEF Init, BaseInv, JoinInv, Closing, Unborn, Threads

LEMMA BaseStep ==
    ASSUME TypeInv, BaseInv, JoinInv, [Next]_vars
    PROVE  BaseInv'
<1> USE PoolAssumption DEF BaseInv, Closing, Unborn, Threads, pool
<1>1. CASE UNCHANGED vars
  BY <1>1 DEF vars
<1>2. ASSUME NEW c \in Conns, Accept(c) PROVE BaseInv'
  BY <1>2 DEF Accept
<1>3. CASE Enqueue
  BY <1>3 DEF Enqueue
<1>4. CASE Spawn
  BY <1>4 DEF Spawn, TypeInv
<1>5. CASE Notify
  BY <1>5 DEF Notify, WaitSet, TypeInv
<1>6. CASE AcceptFails \/ NotifyAll
  BY <1>6 DEF AcceptFails, NotifyAll
<1>7. CASE JoinBase \/ JoinDynamic \/ JoinFinished
  BY <1>7 DEF JoinBase, JoinDynamic, JoinFinished
<1>8. ASSUME NEW t \in Threads, Enter(t) \/ Resume(t) PROVE BaseInv'
  <2>1. CASE jobs # <<>>
    BY <1>8, <2>1 DEF Enter, Resume, TakeOrLeave, HasWork, TypeInv
  <2>2. CASE jobs = <<>>
    BY <1>8, <2>2 DEF Enter, Resume, TakeOrLeave, HasWork, TypeInv
  <2>3. QED
    BY <2>1, <2>2
<1>9. ASSUME NEW t \in Threads, Expire(t) PROVE BaseInv'
  <2>1. t \in Spare /\ t \notin Base
    BY <1>9 DEF Expire
  <2>2. \A b \in Base : pc'[b] = pc[b]
    BY <1>9, <2>1 DEF Expire, TakeOrLeave, TypeInv
  <2>3. jobs = <<>> => jobs' = <<>>
    BY <1>9 DEF Expire, TakeOrLeave
  <2>4. QED
    BY <1>9, <2>2, <2>3 DEF Expire
<1>10. ASSUME NEW t \in Threads, Leave(t) \/ IdleTimeout(t) PROVE BaseInv'
  BY <1>10 DEF Leave, IdleTimeout, TypeInv
<1>11. ASSUME NEW t \in Threads, Exchanging(t) PROVE BaseInv'
  BY <1>11 DEF Exchanging, Request, Upgrade, Answer, Close, GoOn, Serving, TypeInv
<1>12. QED
  BY <1>1, <1>2, <1>3, <1>4, <1>5, <1>6, <1>7, <1>8, <1>9, <1>10, <1>11
     DEF Next, Listening, Working

LEMMA JoinStep ==
    ASSUME TypeInv, BaseInv, JoinInv, [Next]_vars
    PROVE  JoinInv'
<1> USE PoolAssumption DEF JoinInv, Unborn, Threads, pool
<1>1. CASE UNCHANGED vars
  BY <1>1 DEF vars
<1>2. ASSUME NEW c \in Conns, Accept(c) PROVE JoinInv'
  BY <1>2 DEF Accept
<1>3. CASE Enqueue
  BY <1>3 DEF Enqueue
<1>4. CASE Spawn
  BY <1>4 DEF Spawn, TypeInv
<1>5. CASE Notify
  BY <1>5 DEF Notify, WaitSet, TypeInv
<1>6. CASE AcceptFails \/ NotifyAll
  BY <1>6 DEF AcceptFails, NotifyAll, TypeInv
<1>7. CASE JoinBase \/ JoinDynamic \/ JoinFinished
  BY <1>7 DEF JoinBase, JoinDynamic, JoinFinished
<1>8. ASSUME NEW t \in Threads, Enter(t) \/ Resume(t) PROVE JoinInv'
  <2>1. pc[t] \in {"enter", "woken"} /\ \A u \in Threads : u # t => pc'[u] = pc[u]
    BY <1>8 DEF Enter, Resume, TakeOrLeave, TypeInv
  <2>2. UNCHANGED <<listener, dynamic, finished, remaining>>
    BY <1>8 DEF Enter, Resume
  <2>3. QED
    BY <2>1, <2>2
<1>9. ASSUME NEW t \in Threads, Expire(t) PROVE JoinInv'
  <2>1. t \in Spare /\ pc[t] = "expired" /\ \A u \in Threads : u # t => pc'[u] = pc[u]
    BY <1>9 DEF Expire, TakeOrLeave, TypeInv, BaseInv
  <2>2. CASE HasWork
    BY <1>9, <2>1, <2>2 DEF Expire
  <2>3. CASE ~HasWork
    <3>1. listener \notin Closing
      BY <2>3 DEF HasWork, BaseInv
    <3>2. QED
      BY <1>9, <2>1, <2>3, <3>1 DEF Expire, Closing
  <2>4. QED
    BY <2>2, <2>3
<1>10. ASSUME NEW t \in Threads, Leave(t) \/ IdleTimeout(t) PROVE JoinInv'
  BY <1>10 DEF Leave, IdleTimeout, TypeInv
<1>11. ASSUME NEW t \in Threads, Exchanging(t) PROVE JoinInv'
  BY <1>11 DEF Exchanging, Request, Upgrade, Answer, Close, GoOn, Serving, TypeInv
<1>12. QED
  BY <1>1, <1>2, <1>3, <1>4, <1>5, <1>6, <1>7, <1>8, <1>9, <1>10, <1>11
     DEF Next, Listening, Working

-----------------------------------------------------------------------------
(* No wakeup is lost *)

LEMMA AwakeStep ==
    ASSUME TypeInv, BaseInv, JoinInv, WorkerAwake, [Next]_vars
    PROVE  WorkerAwake'
<1> USE PoolAssumption DEF WorkerAwake, Awake, Unborn, pool
<1>1. CASE UNCHANGED vars
  BY <1>1 DEF vars
<1>2. ASSUME NEW c \in Conns, Accept(c) PROVE WorkerAwake'
  BY <1>2 DEF Accept
<1>3. CASE Enqueue
  BY <1>3 DEF Enqueue
<1>4. CASE Spawn
  BY <1>4 DEF Spawn
<1>5. CASE Notify
  <2>1. PICK b \in Base : pc[b] \notin {Unborn, "leaving", "gone"}
    BY <1>5 DEF Notify, BaseInv, Closing
  <2>2. b \in Threads
    BY DEF Threads
  <2>3. \E t \in Threads : pc'[t] \notin {Unborn, "waiting", "leaving", "gone"}
    BY <1>5, <2>1, <2>2 DEF Notify, WaitSet, TypeInv
  <2>4. QED
    BY <2>3
<1>6. CASE AcceptFails \/ NotifyAll
  BY <1>6 DEF AcceptFails, NotifyAll, TypeInv
<1>7. CASE JoinBase \/ JoinDynamic \/ JoinFinished
  BY <1>7 DEF JoinBase, JoinDynamic, JoinFinished
<1>8. ASSUME NEW t \in Threads, Enter(t) \/ Resume(t) \/ Expire(t) PROVE WorkerAwake'
  <2>1. CASE jobs # <<>>
    <3>1. pc'[t] = "poll"
      BY <1>8, <2>1 DEF Enter, Resume, Expire, HasWork, TakeOrLeave, TypeInv
    <3>2. QED
      BY <3>1
  <2>2. CASE jobs = <<>>
    BY <1>8, <2>2 DEF Enter, Resume, Expire, HasWork, TakeOrLeave
  <2>3. QED
    BY <2>1, <2>2
<1>9. ASSUME NEW t \in Threads, Leave(t) PROVE WorkerAwake'
  <2>1. \A u \in Threads : pc[u] \notin {Unborn, "waiting", "leaving", "gone"} => pc'[u] = pc[u]
    BY <1>9 DEF Leave, TypeInv
  <2>2. QED
    BY <1>9, <2>1 DEF Leave
<1>10. ASSUME NEW t \in Threads, IdleTimeout(t) PROVE WorkerAwake'
  BY <1>10 DEF IdleTimeout, TypeInv
<1>11. ASSUME NEW t \in Threads, Exchanging(t) PROVE WorkerAwake'
  <2>1. pc'[t] \in {"enter", "poll", "request", "session"}
    BY <1>11 DEF Exchanging, Request, Upgrade, Answer, Close, GoOn, TypeInv
  <2>2. QED
    BY <2>1
<1>12. QED
  BY <1>1, <1>2, <1>3, <1>4, <1>5, <1>6, <1>7, <1>8, <1>9, <1>10, <1>11
     DEF Next, Listening, Working

PoolInv == TypeInv /\ BaseInv /\ JoinInv /\ WorkerAwake

LEMMA PoolInvariant == Spec => []PoolInv
<1>1. Init => PoolInv
  BY TypeInit, BaseInit DEF PoolInv, WorkerAwake, Init
<1>2. PoolInv /\ [Next]_vars => PoolInv'
  BY TypeStep, BaseStep, JoinStep, AwakeStep DEF PoolInv
<1>3. QED
  BY <1>1, <1>2, PTL DEF Spec

\* Whenever a connection waits in the queue, a worker is on its way to it.
THEOREM NoLostWakeup == Spec => []WorkerAwake
<1>1. PoolInv => WorkerAwake
  BY DEF PoolInv
<1>2. QED
  BY <1>1, PoolInvariant, PTL

-----------------------------------------------------------------------------
(* Where every connection is *)

Queued(c) == \E i \in 1 .. Len(jobs) : jobs[i] = c

ConnInv ==
    /\ \A c \in Conns : conn[c] = "accepted" <=> incoming = c
    /\ \A c \in Conns : conn[c] = "queued" <=> Queued(c)
    /\ \A i, j \in 1 .. Len(jobs) : jobs[i] = jobs[j] => i = j
    /\ \A c \in Conns : conn[c] = "served" <=> \E t \in Threads : doing[t] = c
    /\ \A t, u \in Threads : doing[t] = doing[u] /\ doing[t] # NoConn => t = u

LEMMA TailFacts ==
    ASSUME NEW S, NEW q \in Seq(S), q # <<>>
    PROVE  /\ Len(q) \in Nat /\ Len(q) > 0 /\ Len(Tail(q)) = Len(q) - 1
           /\ \A i \in 1 .. Len(q) - 1 : Tail(q)[i] = q[i + 1]
           /\ Head(q) = q[1]
OBVIOUS

LEMMA AppendFacts ==
    ASSUME NEW S, NEW q \in Seq(S), NEW e \in S
    PROVE  /\ Len(q) \in Nat /\ Len(Append(q, e)) = Len(q) + 1
           /\ \A i \in 1 .. Len(q) : Append(q, e)[i] = q[i]
           /\ Append(q, e)[Len(q) + 1] = e
OBVIOUS

\* A worker takes the head of the queue or nothing.
LEMMA TakeConn ==
    ASSUME TypeInv, ConnInv, NEW t \in Threads, doing[t] = NoConn,
           TakeOrLeave(t), UNCHANGED incoming
    PROVE  ConnInv'
<1> USE PoolAssumption DEF ConnInv, TypeInv
<1>1. CASE jobs = <<>>
  BY <1>1 DEF TakeOrLeave, Queued
<1>2. CASE jobs # <<>>
  <2> DEFINE h == Head(jobs)
  <2>1. h \in Conns /\ h # NoConn /\ h = jobs[1] /\ Queued(h)
    BY <1>2, TailFacts DEF Queued
  <2>2. /\ doing' = [doing EXCEPT ![t] = h] /\ conn' = [conn EXCEPT ![h] = "served"]
        /\ jobs' = Tail(jobs)
    BY <1>2 DEF TakeOrLeave
  <2>3. \A c \in Conns : Queued(c)' <=> Queued(c) /\ c # h
    <3>1. ASSUME NEW c \in Conns, Queued(c)' PROVE Queued(c) /\ c # h
      <4>1. PICK i \in 1 .. Len(Tail(jobs)) : Tail(jobs)[i] = c
        BY <2>2, <3>1 DEF Queued
      <4>2. i + 1 \in 1 .. Len(jobs) /\ jobs[i + 1] = c /\ 1 \in 1 .. Len(jobs) /\ i + 1 # 1
        BY <1>2, <4>1, TailFacts
      <4>3. QED
        BY <2>1, <4>2 DEF Queued
    <3>2. ASSUME NEW c \in Conns, Queued(c), c # h PROVE Queued(c)'
      <4>1. PICK i \in 1 .. Len(jobs) : jobs[i] = c
        BY <3>2 DEF Queued
      <4>2. i - 1 \in 1 .. Len(Tail(jobs)) /\ Tail(jobs)[i - 1] = c
        BY <1>2, <2>1, <3>2, <4>1, TailFacts
      <4>3. QED
        BY <2>2, <4>2 DEF Queued
    <3>3. QED
      BY <3>1, <3>2
  <2>4. \A i, j \in 1 .. Len(Tail(jobs)) : Tail(jobs)[i] = Tail(jobs)[j] => i = j
    <3>1. TAKE i, j \in 1 .. Len(Tail(jobs))
    <3>2. /\ i + 1 \in 1 .. Len(jobs) /\ j + 1 \in 1 .. Len(jobs)
          /\ Tail(jobs)[i] = jobs[i + 1] /\ Tail(jobs)[j] = jobs[j + 1]
      BY <1>2, TailFacts
    <3>3. QED
      BY <3>2
  <2>5. conn[h] = "queued" /\ \A u \in Threads : doing[u] # h
    BY <2>1
  <2>6. QED
    BY <2>1, <2>2, <2>3, <2>4, <2>5
<1>3. QED
  BY <1>1, <1>2

LEMMA ConnInit == Init => ConnInv
BY PoolAssumption DEF Init, ConnInv, Queued

LEMMA ConnStep ==
    ASSUME PoolInv, ConnInv, [Next]_vars
    PROVE  ConnInv'
<1> USE PoolAssumption DEF PoolInv, TypeInv
<1>1. CASE UNCHANGED vars
  BY <1>1 DEF vars, ConnInv, Queued
<1>2. ASSUME NEW c \in Conns, Accept(c) PROVE ConnInv'
  BY <1>2 DEF Accept, ConnInv, Queued, pool
<1>3. CASE Enqueue
  <2> DEFINE e == incoming
  <2>1. e \in Conns /\ conn[e] = "accepted" /\ ~Queued(e)
    BY <1>3 DEF Enqueue, ConnInv
  <2>2. /\ jobs' = Append(jobs, e) /\ conn' = [conn EXCEPT ![e] = "queued"]
        /\ incoming' = NoConn /\ UNCHANGED doing
    BY <1>3 DEF Enqueue
  <2>3. \A c \in Conns : Queued(c)' <=> Queued(c) \/ c = e
    BY <2>1, <2>2, AppendFacts DEF Queued
  <2>4. \A i, j \in 1 .. Len(jobs') : jobs'[i] = jobs'[j] => i = j
    <3>1. TAKE i, j \in 1 .. Len(jobs')
    <3>2. \A k \in 1 .. Len(jobs) : jobs[k] # e
      BY <2>1 DEF Queued
    <3>3. \A k \in 1 .. Len(jobs') : IF k = Len(jobs) + 1 THEN jobs'[k] = e
                                     ELSE k \in 1 .. Len(jobs) /\ jobs'[k] = jobs[k]
      BY <2>1, <2>2, AppendFacts
    <3>4. \A k, m \in 1 .. Len(jobs) : jobs[k] = jobs[m] => k = m
      BY DEF ConnInv
    <3>5. SUFFICES ASSUME jobs'[i] = jobs'[j] PROVE i = j
      OBVIOUS
    <3>6. CASE jobs'[i] = e
      <4>1. i = Len(jobs) + 1 /\ j = Len(jobs) + 1
        BY ONLY <3>2, <3>3, <3>5, <3>6, <3>1
      <4>2. QED
        BY ONLY <4>1
    <3>7. CASE jobs'[i] # e
      <4>1. /\ i \in 1 .. Len(jobs) /\ j \in 1 .. Len(jobs)
            /\ jobs'[i] = jobs[i] /\ jobs'[j] = jobs[j]
        BY ONLY <3>3, <3>5, <3>7, <3>1
      <4>2. QED
        BY ONLY <4>1, <3>4, <3>5
    <3>8. QED
      BY ONLY <3>6, <3>7
  <2>5. QED
    BY <2>1, <2>2, <2>3, <2>4 DEF ConnInv
<1>4. CASE Spawn \/ Notify \/ AcceptFails \/ NotifyAll \/ JoinBase \/ JoinDynamic \/ JoinFinished
  <2>1. UNCHANGED <<incoming, conn, jobs, doing>>
    BY <1>4 DEF Spawn, Notify, AcceptFails, NotifyAll, JoinBase, JoinDynamic, JoinFinished
  <2>2. QED
    BY <2>1 DEF ConnInv, Queued
<1>5. ASSUME NEW t \in Threads, Enter(t) \/ Resume(t) \/ Expire(t) PROVE ConnInv'
  <2>1. doing[t] = NoConn /\ UNCHANGED incoming
    BY <1>5 DEF Enter, Resume, Expire, Serving
  <2>2. CASE HasWork
    <3>1. TakeOrLeave(t)
      BY <1>5, <2>2 DEF Enter, Resume, Expire
    <3>2. QED
      BY <2>1, <3>1, TakeConn
  <2>3. CASE ~HasWork
    BY <1>5, <2>3 DEF Enter, Resume, Expire, ConnInv, Queued
  <2>4. QED
    BY <2>2, <2>3
<1>6. ASSUME NEW t \in Threads, Leave(t) \/ IdleTimeout(t) \/ Request(t) \/ Answer(t) \/ Upgrade(t)
      PROVE  ConnInv'
  BY <1>6 DEF Leave, IdleTimeout, Request, Answer, Upgrade, GoOn, ConnInv, Queued
<1>7. ASSUME NEW t \in Threads, Close(t) PROVE ConnInv'
  <2>1. doing[t] \in Conns /\ conn[doing[t]] = "served"
    BY <1>7 DEF Close, ConnInv
  <2>2. \A c \in Conns : Queued(c)' <=> Queued(c)
    BY <1>7 DEF Close, Queued
  <2>3. QED
    BY <1>7, <2>1, <2>2 DEF Close, ConnInv
<1>8. QED
  BY <1>1, <1>2, <1>3, <1>4, <1>5, <1>6, <1>7 DEF Next, Listening, Working, Exchanging

LEMMA ConnInvariant == Spec => [](PoolInv /\ ConnInv)
<1>1. Init => ConnInv
  BY ConnInit
<1>2. PoolInv /\ ConnInv /\ [Next]_vars => ConnInv'
  BY ConnStep
<1>3. QED
  BY <1>1, <1>2, PoolInvariant, PTL DEF Spec

\* When listen() has returned, no accepted connection is forgotten and no thread is left.
THEOREM ShutdownIsClean == Spec => []NothingLeft
<1>1. PoolInv /\ ConnInv => NothingLeft
  <2> SUFFICES ASSUME PoolInv, ConnInv, listener = "ended"
               PROVE  /\ \A c \in Conns : conn[c] \in {"new", "closed"}
                      /\ \A t \in Threads : pc[t] \in {Unborn, "gone"}
    BY DEF NothingLeft
  <2>1. \A t \in Threads : pc[t] \in {Unborn, "gone"}
    BY DEF PoolInv, JoinInv, Threads
  <2>2. jobs = <<>>
    BY <2>1, PoolAssumption DEF PoolInv, BaseInv, Threads
  <2>3. \A t \in Threads : doing[t] = NoConn
    BY <2>1 DEF PoolInv, TypeInv, Serving, Unborn
  <2>4. incoming = NoConn
    BY DEF PoolInv, TypeInv
  <2>5. ASSUME NEW c \in Conns PROVE conn[c] \in {"new", "closed"}
    <3>1. ~Queued(c) /\ c # NoConn
      BY <2>2, PoolAssumption DEF Queued
    <3>2. QED
      BY <2>3, <2>4, <3>1 DEF ConnInv, PoolInv, TypeInv, ConnStates
  <2>6. QED
    BY <2>1, <2>5
<1>2. QED
  BY <1>1, ConnInvariant, PTL

-----------------------------------------------------------------------------
(* The pool implements the queue *)

LEMMA QueueStep ==
    ASSUME PoolInv, ConnInv, [Next]_vars
    PROVE  [Abstract!Next]_(Abstract!vars)
<1> DEFINE run == {doing[t] : t \in Threads} \ {NoConn}
           fin == {c \in Conns : conn[c] = "closed"}
<1> USE PoolAssumption DEF PoolInv, TypeInv
<1>1. CASE UNCHANGED vars
  BY <1>1 DEF vars, Abstract!vars
<1>2. ASSUME NEW c \in Conns, Accept(c) PROVE UNCHANGED Abstract!vars
  BY <1>2 DEF Accept, Abstract!vars
<1>3. CASE Enqueue
  <2>1. incoming \in Conns /\ conn[incoming] = "accepted"
    BY <1>3 DEF Enqueue, ConnInv
  <2>2. incoming \notin Abstract!Waiting
    BY <2>1 DEF Abstract!Waiting, ConnInv, Queued
  <2>3. incoming \notin run /\ incoming \notin fin
    BY <2>1 DEF ConnInv
  <2>4. UNCHANGED <<run, fin>>
    BY <1>3, <2>1 DEF Enqueue
  <2>5. Abstract!Submit(incoming)
    BY <1>3, <2>2, <2>3, <2>4 DEF Enqueue, Abstract!Submit
  <2>6. QED
    BY <2>1, <2>5 DEF Abstract!Next
<1>4. CASE Spawn \/ Notify \/ AcceptFails \/ NotifyAll \/ JoinBase \/ JoinDynamic \/ JoinFinished
  BY <1>4 DEF Spawn, Notify, AcceptFails, NotifyAll, JoinBase, JoinDynamic, JoinFinished,
     Abstract!vars
<1>5. ASSUME NEW t \in Threads, Enter(t) \/ Resume(t) \/ Expire(t)
      PROVE  [Abstract!Next]_(Abstract!vars)
  <2>1. doing[t] = NoConn
    BY <1>5 DEF Enter, Resume, Expire, Serving
  <2>2. CASE jobs # <<>>
    <3>1. /\ doing' = [doing EXCEPT ![t] = Head(jobs)] /\ jobs' = Tail(jobs)
          /\ conn' = [conn EXCEPT ![Head(jobs)] = "served"]
      BY <1>5, <2>2 DEF Enter, Resume, Expire, HasWork, TakeOrLeave
    <3>2. Head(jobs) \in Conns /\ conn[Head(jobs)] = "queued"
      BY <2>2, TailFacts DEF ConnInv, Queued
    <3>3. run' = run \cup {Head(jobs)} /\ fin' = fin
      BY <2>1, <3>1, <3>2
    <3>4. Abstract!Start
      BY <2>2, <3>1, <3>3 DEF Abstract!Start
    <3>5. QED
      BY <3>4 DEF Abstract!Next
  <2>3. CASE jobs = <<>>
    BY <1>5, <2>3 DEF Enter, Resume, Expire, HasWork, TakeOrLeave, Abstract!vars
  <2>4. QED
    BY <2>2, <2>3
<1>6. ASSUME NEW t \in Threads, Leave(t) \/ IdleTimeout(t) \/ Request(t) \/ Answer(t) \/ Upgrade(t)
      PROVE  UNCHANGED Abstract!vars
  BY <1>6 DEF Leave, IdleTimeout, Request, Answer, Upgrade, GoOn, Abstract!vars
<1>7. ASSUME NEW t \in Threads, Close(t) PROVE Abstract!Next
  <2>1. doing[t] \in Conns /\ doing[t] \in run /\ conn[doing[t]] = "served"
    BY <1>7 DEF Close, ConnInv
  <2>2. run' = run \ {doing[t]}
    BY <1>7, <2>1 DEF Close, ConnInv
  <2>3. fin' = fin \cup {doing[t]} /\ UNCHANGED jobs
    BY <1>7, <2>1 DEF Close
  <2>4. \E c \in Conns : Abstract!Finish(c)
    BY <2>1, <2>2, <2>3 DEF Abstract!Finish
  <2>5. QED
    BY <2>4 DEF Abstract!Next
<1>8. QED
  BY <1>1, <1>2, <1>3, <1>4, <1>5, <1>6, <1>7 DEF Next, Listening, Working, Exchanging

\* Every connection handed over is served once, in the order of arrival, by any number
\* of base and dynamic threads.
THEOREM PoolIsAQueue == Spec => ImplementsQueue
<1>1. Init => Abstract!Init
  BY PoolAssumption DEF Init, Abstract!Init
<1>2. PoolInv /\ ConnInv /\ [Next]_vars => [Abstract!Next]_(Abstract!vars)
  BY QueueStep
<1>3. QED
  BY <1>1, <1>2, ConnInvariant, PTL DEF Spec, ImplementsQueue, Abstract!Spec

-----------------------------------------------------------------------------
(* The idle counter                                                          *)

IdlePlaces == {"waiting", "woken", "expired"}
IdleInv == idle = Cardinality(Idle)

LEMMA FiniteThreads ==
    ASSUME NEW S \in SUBSET Threads
    PROVE  IsFiniteSet(S) /\ Cardinality(S) \in Nat
<1>1. IsFiniteSet(Threads)
  BY PoolAssumption, FS_Union DEF Threads
<1>2. QED
  BY <1>1, FS_Subset, FS_CardinalityType

\* One worker begins or ends to be idle, or none does.
LEMMA IdleChange ==
    ASSUME IdleInv, NEW t \in Threads, \A u \in Threads \ {t} : pc'[u] \in IdlePlaces <=> pc[u] \in IdlePlaces,
           \/ /\ pc'[t] \in IdlePlaces <=> pc[t] \in IdlePlaces
              /\ idle' = idle
           \/ pc[t] \notin IdlePlaces /\ pc'[t] \in IdlePlaces /\ idle' = idle + 1
           \/ pc[t] \in IdlePlaces /\ pc'[t] \notin IdlePlaces /\ idle' = idle - 1
    PROVE  IdleInv'
<1>1. Idle \in SUBSET Threads /\ IsFiniteSet(Idle)
  BY FiniteThreads DEF Idle
<1>2. CASE (pc'[t] \in IdlePlaces <=> pc[t] \in IdlePlaces) /\ idle' = idle
  <2>1. Idle' = Idle
    BY <1>2 DEF Idle, IdlePlaces
  <2>2. QED
    BY <1>2, <2>1 DEF IdleInv
<1>3. CASE pc[t] \notin IdlePlaces /\ pc'[t] \in IdlePlaces /\ idle' = idle + 1
  <2>1. Idle' = Idle \cup {t} /\ t \notin Idle
    BY <1>3 DEF Idle, IdlePlaces
  <2>2. Cardinality(Idle') = Cardinality(Idle) + 1
    BY <1>1, <2>1, FS_AddElement
  <2>3. QED
    BY <1>3, <2>2 DEF IdleInv
<1>4. CASE pc[t] \in IdlePlaces /\ pc'[t] \notin IdlePlaces /\ idle' = idle - 1
  <2>1. Idle' = Idle \ {t} /\ t \in Idle
    BY <1>4 DEF Idle, IdlePlaces
  <2>2. Cardinality(Idle') = Cardinality(Idle) - 1
    BY <1>1, <2>1, FS_RemoveElement
  <2>3. QED
    BY <1>4, <2>2 DEF IdleInv
<1>5. QED
  BY <1>2, <1>3, <1>4

LEMMA IdleStep ==
    ASSUME PoolInv, IdleInv, [Next]_vars
    PROVE  IdleInv'
<1> USE DEF IdlePlaces
<1>1. pc \in [Threads -> Places] /\ Base # {} /\ Base \subseteq Threads
  BY PoolAssumption DEF PoolInv, TypeInv, Threads
<1>2. ASSUME idle' = idle, \A u \in Threads : pc'[u] \in IdlePlaces <=> pc[u] \in IdlePlaces
      PROVE  IdleInv'
  BY <1>1, <1>2, IdleChange
<1>3. CASE UNCHANGED vars
  BY <1>2, <1>3 DEF vars
<1>4. ASSUME NEW c \in Conns, Accept(c) PROVE IdleInv'
  BY <1>2, <1>4 DEF Accept
<1>5. CASE Enqueue \/ AcceptFails \/ JoinBase \/ JoinDynamic \/ JoinFinished
  BY <1>2, <1>5 DEF Enqueue, AcceptFails, JoinBase, JoinDynamic, JoinFinished
<1>6. CASE Spawn
  <2>1. PICK n \in Spare \ dynamic : pc' = [t \in Threads |-> IF t = n THEN "enter"
                                              ELSE IF t \in finished THEN Unborn ELSE pc[t]]
    BY <1>6 DEF Spawn
  <2>2. (\A t \in finished : pc[t] = "gone") /\ listener = "cleanup" /\ idle' = idle
    BY <1>6 DEF Spawn
  <2>3. pc[n] \in {Unborn, "gone"}
    BY <2>1, <2>2 DEF PoolInv, JoinInv
  <2>4. \A u \in Threads : pc'[u] \in IdlePlaces <=> pc[u] \in IdlePlaces
    BY <2>1, <2>2, <2>3 DEF Unborn
  <2>5. QED
    BY <1>2, <2>2, <2>4
<1>7. CASE Notify \/ NotifyAll
  <2>1. idle' = idle
    BY <1>7 DEF Notify, NotifyAll
  <2>2. \A u \in Threads : pc'[u] \in IdlePlaces <=> pc[u] \in IdlePlaces
    BY <1>1, <1>7 DEF Notify, NotifyAll, WaitSet
  <2>3. QED
    BY <1>2, <2>1, <2>2
<1>8. ASSUME NEW t \in Threads, TakeOrLeave(t)
      PROVE  /\ pc'[t] \notin IdlePlaces
             /\ \A u \in Threads \ {t} : pc'[u] = pc[u]
  BY <1>1, <1>8 DEF TakeOrLeave
<1>9. ASSUME NEW t \in Threads, Enter(t) PROVE IdleInv'
  <2>1. CASE HasWork
    BY <1>8, <1>9, <2>1, IdleChange DEF Enter
  <2>2. CASE ~HasWork
    <3>1. /\ pc[t] = "enter" /\ pc'[t] = "waiting" /\ idle' = idle + 1
          /\ \A u \in Threads \ {t} : pc'[u] = pc[u]
      BY <1>1, <1>9, <2>2 DEF Enter
    <3>2. QED
      BY <3>1, IdleChange
  <2>3. QED
    BY <2>1, <2>2
<1>10. ASSUME NEW t \in Threads, Resume(t) PROVE IdleInv'
  <2>1. CASE HasWork
    BY <1>8, <1>10, <2>1, IdleChange DEF Resume
  <2>2. CASE ~HasWork
    <3>1. /\ pc[t] = "woken" /\ pc'[t] = "waiting" /\ idle' = idle
          /\ \A u \in Threads \ {t} : pc'[u] = pc[u]
      BY <1>1, <1>10, <2>2 DEF Resume
    <3>2. QED
      BY <3>1, IdleChange
  <2>3. QED
    BY <2>1, <2>2
<1>11. ASSUME NEW t \in Threads, Expire(t) PROVE IdleInv'
  <2>1. /\ pc[t] = "expired" /\ idle' = idle - 1
        /\ pc'[t] \notin IdlePlaces /\ \A u \in Threads \ {t} : pc'[u] = pc[u]
    BY <1>1, <1>8, <1>11 DEF Expire
  <2>2. QED
    BY <2>1, IdleChange
<1>12. ASSUME NEW t \in Threads,
              IdleTimeout(t) \/ Leave(t) \/ Request(t) \/ Answer(t) \/ Upgrade(t) \/ Close(t)
       PROVE  IdleInv'
  <2>1. idle' = idle
    BY <1>12 DEF IdleTimeout, Leave, Request, Answer, Upgrade, Close, GoOn
  <2>2. \A u \in Threads : pc'[u] \in IdlePlaces <=> pc[u] \in IdlePlaces
    BY <1>1, <1>12 DEF IdleTimeout, Leave, Request, Answer, Upgrade, Close, GoOn, Serving
  <2>3. QED
    BY <1>2, <2>1, <2>2
<1>13. QED
  BY <1>3, <1>4, <1>5, <1>6, <1>7, <1>9, <1>10, <1>11, <1>12 DEF Next, Listening, Working, Exchanging

\* Type correctness; the unsigned idle_thread_count_ is the number of idle workers
\* whatever wakes them, so it never wraps around and enqueue() decides on the truth.
THEOREM IdleIsCounted == Spec => [](TypeOK /\ idle = Cardinality(Idle))
<1>1. Init => IdleInv
  <2> SUFFICES ASSUME Init PROVE IdleInv
    OBVIOUS
  <2>1. Idle = {}
    BY DEF Init, Idle, Unborn
  <2>2. QED
    BY <2>1, FS_EmptySet DEF Init, IdleInv
<1>2. PoolInv /\ IdleInv => TypeOK /\ idle = Cardinality(Idle)
  BY FiniteThreads DEF PoolInv, TypeInv, IdleInv, TypeOK, Idle
<1>3. QED
  BY <1>1, <1>2, IdleStep, PoolInvariant, PTL DEF Spec
===============================================================================
