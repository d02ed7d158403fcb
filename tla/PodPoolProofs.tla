---------------------------- MODULE PodPoolProofs ----------------------------
(***************************************************************************)
(* Proofs about PodPool, for any number of tasks and pods, and about       *)
(* WorkerQueue, the loop that gives the tasks to their handlers.           *)
(*                                                                         *)
(* TypeOK needs RoundInv, the bound on a task's rounds of listing, and     *)
(* OwnInv, when a handler has a pod, to be inductive.  StatusInv,          *)
(* ResultInv and OutputInv tie what a task has published to the place of   *)
(* its handler and of its output_task: that PodPool implements             *)
(* JobLifecycle rests on them.  Rank bounds the steps a handler has left.  *)
(* IInv is the discipline of pods and leases, whatever fails: who holds a  *)
(* live pre-warmed pod owns its lease, a handler that has cleaned up left  *)
(* a deleted pod behind, unless the lease ran out under a handler          *)
(* (overrun) or a pod was left or not deleted (astray).  LoopInv, on the   *)
(* loop, has the invariant of each of its lists, of the semaphore, of the  *)
(* starts and of their order.                                              *)
(***************************************************************************)
EXTENDS PodPool, WorkerQueue, FiniteSetTheorems, SequenceTheorems, TLAPS

\* A task that may still list has rounds left.
RoundInv == \A t \in Tasks :
    pc[t] \in {"idle", "list", "lease"} => tries[t] < ListAttempts

\* A handler has a pod exactly from provision() on, and a created pod is used
\* only by the task that created it.
OwnInv == \A t \in Tasks :
    /\ pc[t] \in {"idle", "list", "lease", "create", "waiting"} => cur[t] = NoPod
    /\ pc[t] \in {"leased", "ip", "running", "overdue", "svcDelete", "svcRelease", "wrkDelete",
                  "wrkRelease"} => cur[t] \in Pods
    /\ cur[t] \in Tasks => cur[t] = t

TypeInv == TypeOK /\ RoundInv /\ OwnInv

\* The lease of a live pre-warmed pod belongs to the task that holds the pod.
LeaseInv == \A t \in Tasks :
    (Holding(t) /\ cur[t] \in WarmPods /\ pod[cur[t]] # "gone" /\ cur[t] \notin overrun \cup astray)
        => lease[cur[t]] = t

\* Between a delete and the matching release, and at the end, the pod is gone.
GoneInv == \A t \in Tasks :
    (pc[t] \in {"svcRelease", "wrkRelease", "report", "done"} /\ cur[t] # NoPod)
        => pod[cur[t]] = "gone" \/ cur[t] \in astray

\* A created pod lives only while its creator waits for it or owns it.
CreatedInv == \A t \in Tasks :
    pod[t] \in {"absent", "gone"} \/ pc[t] = "waiting" \/ cur[t] = t \/ t \in astray

\* Code was only posted to the pod the task still names.
RanInv == \A p \in Pods : \A t \in ran[p] :
    /\ cur[t] = p
    /\ pc[t] \in {"running", "overdue", "svcDelete", "svcRelease", "final", "wrkDelete",
                  "wrkRelease", "report", "done"}

IInv == TypeInv /\ LeaseInv /\ GoneInv /\ CreatedInv /\ RanInv /\ SingleUse

-----------------------------------------------------------------------------
(* Type correctness                                                        *)

LEMMA TypeInit == Init => TypeInv
BY PodPoolAssumption DEF Init, TypeInv, RoundInv, OwnInv, TypeOK, PCs, Pods

\* Every action keeps every variable in its type.
LEMMA TypeOKStep ==
    ASSUME TypeInv, [Next]_vars
    PROVE  TypeOK'
<1> USE PodPoolAssumption DEF TypeInv, OwnInv, RoundInv, TypeOK, PCs, Pods,
       handlerVars, toldVars, leaseVars, clusterVars
<1>1. ASSUME NEW t \in Tasks, Start(t) PROVE TypeOK'
  <2>1. pc' \in [Tasks -> PCs]
    BY <1>1 DEF Start, Goto
  <2>2. status' \in [Tasks -> {"none", "provisioning", "executing", "completed", "error"}]
    BY <1>1 DEF Start, Publish, PublishRaises
  <2>3. raised' \in [Tasks -> {"never", "caught", "escapes"}]
    BY <1>1 DEF Start, PublishRaises, Raise
  <2>4. mode' \in [Tasks -> {"batch", "interactive"}]
    BY <1>1 DEF Start
  <2>5. UNCHANGED <<cur, seen, tries, good, out, leaseVars, clusterVars, ran>>
    BY <1>1 DEF Start
  <2> QED  BY <2>1, <2>2, <2>3, <2>4, <2>5
<1>2. ASSUME NEW t \in Tasks, HandlerStep(t) PROVE TypeOK'
  <2>1. CASE ListPods(t)
    BY <2>1 DEF ListPods, At, Goto
  <2>2. CASE LeaseListed(t)
    BY <2>2 DEF LeaseListed, At, Goto, AcquireLock, SetLease
  <2>3. CASE SkipListed(t)
    <3>1. PICK p \in seen[t] : UNCHANGED leaseVars \/ AcquireLock(t, p)
      BY <2>3 DEF SkipListed
    <3>2. p \in Pods
      OBVIOUS
    <3>3. lease' \in [Pods -> Tasks \cup {NoTask}]
      BY <3>1, <3>2 DEF AcquireLock, SetLease
    <3>4. age' \in [Pods -> Nat]
      BY <3>1, <3>2 DEF AcquireLock, SetLease
    <3>5. overrun' = overrun
      BY <3>1 DEF AcquireLock
    <3>6. seen' \in [Tasks -> SUBSET WarmPods]
      BY <2>3 DEF SkipListed
    <3> QED  BY <2>3, <3>3, <3>4, <3>5, <3>6 DEF SkipListed
  <2>4. CASE NextRound(t)
    BY <2>4 DEF NextRound, At, Goto
  <2>5. CASE CreatePod(t)
    BY <2>5 DEF CreatePod, At, Goto
  <2>6. CASE CreatedPodReady(t)
    BY <2>6 DEF CreatedPodReady, At, Goto, AcquireLock, SetLease
  <2>7. CASE CreatedPodTimeout(t)
    BY <2>7 DEF CreatedPodTimeout, At, Goto, DeletePod
  <2>8. CASE CreatedPodLost(t)
    BY <2>8 DEF CreatedPodLost, At, Goto
  <2>9. CASE PublishExecuting(t)
    <3>1. pc' \in [Tasks -> PCs]
      BY <2>9 DEF PublishExecuting, At, Goto
    <3>2. status' \in [Tasks -> {"none", "provisioning", "executing", "completed", "error"}]
      BY <2>9 DEF PublishExecuting, Publish, PublishRaises
    <3>3. raised' \in [Tasks -> {"never", "caught", "escapes"}]
      BY <2>9 DEF PublishExecuting, PublishRaises, Raise
    <3> QED  BY <2>9, <3>1, <3>2, <3>3 DEF PublishExecuting
  <2>10. CASE PostToPod(t)
    <3>1. pc' \in [Tasks -> PCs]
      BY <2>10 DEF PostToPod, At, Goto
    <3>2. status' \in [Tasks -> {"none", "provisioning", "executing", "completed", "error"}]
      BY <2>10 DEF PostToPod, Publish, PublishRaises
    <3>3. raised' \in [Tasks -> {"never", "caught", "escapes"}]
      BY <2>10 DEF PostToPod, PublishRaises, Raise
    <3>4. out' \in [Tasks -> {"off", "on", "telling", "set", "ended", "failed"}]
      BY <2>10 DEF PostToPod, At
    <3>5. ran' \in [Pods -> SUBSET Tasks]
      BY <2>10 DEF PostToPod, At
    <3> QED  BY <2>10, <3>1, <3>2, <3>3, <3>4, <3>5 DEF PostToPod
  <2>11. CASE NoAnswer(t)
    <3>1. pc' \in [Tasks -> PCs]
      BY <2>11 DEF NoAnswer, At, Goto
    <3>2. status' \in [Tasks -> {"none", "provisioning", "executing", "completed", "error"}]
      BY <2>11 DEF NoAnswer, Publish, PublishRaises
    <3>3. raised' \in [Tasks -> {"never", "caught", "escapes"}]
      BY <2>11 DEF NoAnswer, PublishRaises, Raise
    <3> QED  BY <2>11, <3>1, <3>2, <3>3 DEF NoAnswer
  <2>12. CASE RunEnds(t)
    BY <2>12 DEF RunEnds, At, Goto
  <2>13. CASE ServiceCleanup(t)
    BY <2>13 DEF ServiceCleanup, At, Goto, CleanupPod, DeletePod
  <2>14. CASE ServiceRelease(t)
    <3>1. pc' \in [Tasks -> PCs]
      BY <2>14 DEF ServiceRelease, Goto
    <3>2. lease' \in [Pods -> Tasks \cup {NoTask}]
      BY <2>14 DEF ServiceRelease, ReleaseLock, SetLease
    <3>3. age' \in [Pods -> Nat]
      BY <2>14 DEF ServiceRelease, ReleaseLock, SetLease
    <3>4. overrun' = overrun
      BY <2>14 DEF ServiceRelease, ReleaseLock
    <3> QED  BY <2>14, <3>1, <3>2, <3>3, <3>4 DEF ServiceRelease
  <2>15. CASE RelayTimeout(t)
    <3>1. pc' \in [Tasks -> PCs]
      BY <2>15 DEF RelayTimeout, At, Goto, Raise, PublishRaises
    <3>2. status' \in [Tasks -> {"none", "provisioning", "executing", "completed", "error"}]
      BY <2>15 DEF RelayTimeout, At, Publish, PublishRaises
    <3>3. raised' \in [Tasks -> {"never", "caught", "escapes"}]
      BY <2>15 DEF RelayTimeout, At, PublishRaises, Raise
    <3> QED  BY <2>15, <3>1, <3>2, <3>3 DEF RelayTimeout
  <2>16. CASE RelayReturns(t)
    <3>1. pc' \in [Tasks -> PCs]
      BY <2>16 DEF RelayReturns, Goto, Raise
    <3>2. raised' \in [Tasks -> {"never", "caught", "escapes"}]
      BY <2>16 DEF RelayReturns, Raise
    <3>3. out' \in [Tasks -> {"off", "on", "telling", "set", "ended", "failed"}]
      BY <2>16 DEF RelayReturns
    <3> QED  BY <2>16, <3>1, <3>2, <3>3 DEF RelayReturns
  <2>17. CASE PublishFinal(t)
    <3>1. pc' \in [Tasks -> PCs]
      BY <2>17 DEF PublishFinal, At, Goto
    <3>2. status' \in [Tasks -> {"none", "provisioning", "executing", "completed", "error"}]
      BY <2>17 DEF PublishFinal, Publish, PublishRaises
    <3>3. raised' \in [Tasks -> {"never", "caught", "escapes"}]
      BY <2>17 DEF PublishFinal, PublishRaises, Raise
    <3>4. good' = good \/ good' = [good EXCEPT ![t] = FALSE]
      BY <2>17 DEF PublishFinal, At
    <3>5. good' \in [Tasks -> BOOLEAN]
      <4>1. good \in [Tasks -> BOOLEAN] /\ DOMAIN good = Tasks
        OBVIOUS
      <4>2. CASE good' = good
        BY <4>1, <4>2
      <4>3. CASE good' = [good EXCEPT ![t] = FALSE]
        BY <4>1, <4>3, Zenon
      <4> QED  BY <3>4, <4>2, <4>3
    <3> QED  BY <2>17, <3>1, <3>2, <3>3, <3>4, <3>5 DEF PublishFinal
  <2>18. CASE WorkerCleanup(t)
    BY <2>18 DEF WorkerCleanup, At, Goto, CleanupPod, DeletePod
  <2>19. CASE WorkerRelease(t)
    BY <2>19 DEF WorkerRelease, At, Goto, ReleaseLock, SetLease
  <2>20. CASE ReportEscaped(t)
    <3>1. pc' \in [Tasks -> PCs]
      BY <2>20 DEF ReportEscaped, At, Goto, Raise, PublishRaises
    <3>2. status' \in [Tasks -> {"none", "provisioning", "executing", "completed", "error"}]
      BY <2>20 DEF ReportEscaped, At, Publish, PublishRaises
    <3>3. raised' \in [Tasks -> {"never", "caught", "escapes"}]
      BY <2>20 DEF ReportEscaped, At, PublishRaises, Raise
    <3> QED  BY <2>20, <3>1, <3>2, <3>3 DEF ReportEscaped
  <2> QED
    BY <1>2, <2>1, <2>2, <2>3, <2>4, <2>5, <2>6, <2>7, <2>8, <2>9, <2>10,
       <2>11, <2>12, <2>13, <2>14, <2>15, <2>16, <2>17, <2>18, <2>19, <2>20 DEF HandlerStep
<1>3. ASSUME NEW t \in Tasks, OutputStep(t) PROVE TypeOK'
  BY <1>3 DEF OutputStep, Verdict, VerdictTold, OutputStops, Publish
<1>4. ASSUME NEW p \in Pods, PodReady(p) PROVE TypeOK'
  BY <1>4 DEF PodReady
<1>5. CASE Tick
  BY <1>5 DEF Tick, Expiring
<1>6. CASE UNCHANGED vars
  BY <1>6 DEF vars
<1> QED  BY <1>1, <1>2, <1>3, <1>4, <1>5, <1>6 DEF Next, Done

\* Every action keeps the rounds bounded and pod_name as each place needs it.
LEMMA OwnStep ==
    ASSUME TypeInv, [Next]_vars
    PROVE  RoundInv' /\ OwnInv'
<1> USE PodPoolAssumption DEF TypeInv, RoundInv, OwnInv, TypeOK, Pods,
       handlerVars, toldVars, leaseVars, clusterVars
<1>1. ASSUME NEW t \in Tasks, Start(t) PROVE RoundInv' /\ OwnInv'
  BY <1>1 DEF Start, Publish, PublishRaises, Raise, Goto
<1>2. ASSUME NEW t \in Tasks, HandlerStep(t) PROVE RoundInv' /\ OwnInv'
  <2>1. CASE ListPods(t)
    BY <2>1 DEF ListPods, At, Goto
  <2>2. CASE LeaseListed(t)
    BY <2>2 DEF LeaseListed, At, Goto, AcquireLock, SetLease
  <2>3. CASE SkipListed(t)
    BY <2>3 DEF SkipListed, At, AcquireLock, SetLease
  <2>4. CASE NextRound(t)
    BY <2>4 DEF NextRound, At, Goto
  <2>5. CASE CreatePod(t)
    BY <2>5 DEF CreatePod, At, Goto
  <2>6. CASE CreatedPodReady(t)
    BY <2>6 DEF CreatedPodReady, At, Goto, AcquireLock, SetLease
  <2>7. CASE CreatedPodTimeout(t)
    BY <2>7 DEF CreatedPodTimeout, At, Goto, DeletePod
  <2>8. CASE CreatedPodLost(t)
    BY <2>8 DEF CreatedPodLost, At, Goto
  <2>9. CASE PublishExecuting(t)
    BY <2>9 DEF PublishExecuting, At, Goto, Publish, PublishRaises, Raise
  <2>10. CASE PostToPod(t)
    BY <2>10 DEF PostToPod, At, Goto, Publish, PublishRaises, Raise
  <2>11. CASE NoAnswer(t)
    BY <2>11 DEF NoAnswer, At, Goto, Publish, PublishRaises, Raise
  <2>12. CASE RunEnds(t)
    BY <2>12 DEF RunEnds, At, Goto
  <2>13. CASE ServiceCleanup(t)
    BY <2>13 DEF ServiceCleanup, At, Goto, CleanupPod, DeletePod
  <2>14. CASE ServiceRelease(t)
    BY <2>14 DEF ServiceRelease, At, Goto, ReleaseLock, SetLease
  <2>15. CASE RelayTimeout(t)
    BY <2>15 DEF RelayTimeout, At, Goto, Publish, PublishRaises, Raise
  <2>16. CASE RelayReturns(t)
    BY <2>16 DEF RelayReturns, At, Goto, Raise
  <2>17. CASE PublishFinal(t)
    BY <2>17 DEF PublishFinal, At, Goto, Publish, PublishRaises, Raise
  <2>18. CASE WorkerCleanup(t)
    BY <2>18 DEF WorkerCleanup, At, Goto, CleanupPod, DeletePod
  <2>19. CASE WorkerRelease(t)
    BY <2>19 DEF WorkerRelease, At, Goto, ReleaseLock, SetLease
  <2>20. CASE ReportEscaped(t)
    BY <2>20 DEF ReportEscaped, At, Goto, Publish, PublishRaises, Raise
  <2> QED
    BY <1>2, <2>1, <2>2, <2>3, <2>4, <2>5, <2>6, <2>7, <2>8, <2>9, <2>10,
       <2>11, <2>12, <2>13, <2>14, <2>15, <2>16, <2>17, <2>18, <2>19, <2>20 DEF HandlerStep
<1>3. ASSUME NEW t \in Tasks, OutputStep(t) PROVE RoundInv' /\ OwnInv'
  BY <1>3 DEF OutputStep, Verdict, VerdictTold, OutputStops, Publish
<1>4. ASSUME NEW p \in Pods, PodReady(p) PROVE RoundInv' /\ OwnInv'
  BY <1>4 DEF PodReady
<1>5. CASE Tick
  BY <1>5 DEF Tick, Expiring
<1>6. CASE UNCHANGED vars
  BY <1>6 DEF vars
<1> QED  BY <1>1, <1>2, <1>3, <1>4, <1>5, <1>6 DEF Next, Done

LEMMA TypeStep == TypeInv /\ [Next]_vars => TypeInv'
BY TypeOKStep, OwnStep DEF TypeInv

\* Every variable keeps its type in every reachable state, for any number of
\* tasks, pods and rounds.
THEOREM TypeCorrect == Spec => []TypeOK
<1>1. Init => TypeInv  BY TypeInit
<1>2. TypeInv /\ [Next]_vars => TypeInv'  BY TypeStep
<1>3. TypeInv => TypeOK  BY DEF TypeInv
<1> QED  BY <1>1, <1>2, <1>3, PTL DEF Spec

-----------------------------------------------------------------------------
(* The refinement of JobLifecycle, without its fairness.                   *)

\* What a task has published at each place of its handler.
StatusInv == \A t \in Tasks :
    /\ pc[t] = "idle" => status[t] = "none" /\ raised[t] = "never" /\ ~OnLoop(t)
    /\ pc[t] \in {"list", "lease", "create", "waiting", "leased"} => status[t] = "provisioning"
    /\ pc[t] \in {"ip", "svcDelete", "svcRelease"} => status[t] = "executing"
    /\ pc[t] = "running" /\ ~OnLoop(t) => status[t] = "executing"
    /\ pc[t] = "overdue" => OnLoop(t) /\ status[t] \in {"completed", "error"}
    /\ pc[t] = "final" /\ status[t] = "completed" => OnLoop(t) \/ raised[t] # "never"
    /\ pc[t] \in {"wrkDelete", "wrkRelease"} =>
           status[t] \in {"completed", "error"} \/ raised[t] # "never"
    /\ pc[t] = "report" => raised[t] # "never"

\* What a result means, until its handler ends.
ResultInv == \A t \in Tasks : good[t] =>
    /\ cur[t] \in Pods /\ ~OnLoop(t)
    /\ pc[t] \in {"svcDelete", "svcRelease", "final", "wrkDelete", "wrkRelease", "report", "done"}
    /\ pc[t] = "final" => status[t] = "executing"

\* An output_task belongs to an interactive task that has announced its execution; it
\* outlives the relay only if a command of the handler has raised.
OutputInv == \A t \in Tasks : out[t] # "off" =>
    /\ OnLoop(t) /\ status[t] \in {"executing", "completed", "error"}
    /\ pc[t] \in {"running", "overdue", "final", "wrkDelete", "wrkRelease", "report", "done"}
    /\ out[t] \in {"telling", "set"} => status[t] \in {"completed", "error"}
    /\ pc[t] \notin {"running", "overdue"} => raised[t] # "never"

LifeInv == TypeInv /\ StatusInv /\ ResultInv /\ OutputInv

\* A step of the cluster or of the clock, or a stuttering step, publishes nothing.
LEMMA QuietStep ==
    ASSUME (\E p \in Pods : PodReady(p)) \/ Tick \/ UNCHANGED vars
    PROVE  UNCHANGED <<handlerVars, toldVars>>
BY DEF PodReady, Tick, vars

\* Every action keeps the last status and the place of its handler in step.
LEMMA StatusStep ==
    ASSUME LifeInv, [Next]_vars
    PROVE  StatusInv'
<1> USE PodPoolAssumption DEF LifeInv, TypeInv, OwnInv, TypeOK, PCs, StatusInv, ResultInv, OutputInv, OnLoop,
       handlerVars, toldVars, leaseVars, clusterVars
<1>1. ASSUME NEW t \in Tasks, Start(t) PROVE StatusInv'
  BY <1>1 DEF Start, Publish, PublishRaises, Raise, Goto
<1>2. ASSUME NEW t \in Tasks, HandlerStep(t) PROVE StatusInv'
  <2>1. CASE ListPods(t)
    BY <2>1 DEF ListPods, At, Goto
  <2>2. CASE LeaseListed(t)
    BY <2>2 DEF LeaseListed, At, Goto, AcquireLock, SetLease
  <2>3. CASE SkipListed(t)
    BY <2>3 DEF SkipListed, At, AcquireLock, SetLease
  <2>4. CASE NextRound(t)
    BY <2>4 DEF NextRound, At, Goto
  <2>5. CASE CreatePod(t)
    BY <2>5 DEF CreatePod, At, Goto
  <2>6. CASE CreatedPodReady(t)
    BY <2>6 DEF CreatedPodReady, At, Goto, AcquireLock, SetLease
  <2>7. CASE CreatedPodTimeout(t)
    BY <2>7 DEF CreatedPodTimeout, At, Goto, DeletePod
  <2>8. CASE CreatedPodLost(t)
    BY <2>8 DEF CreatedPodLost, At, Goto
  <2>9. CASE PublishExecuting(t)
    BY <2>9 DEF PublishExecuting, At, Goto, Publish, PublishRaises, Raise
  <2>10. CASE PostToPod(t)
    BY <2>10 DEF PostToPod, At, Goto, Publish, PublishRaises, Raise
  <2>11. CASE NoAnswer(t)
    BY <2>11 DEF NoAnswer, At, Goto, Publish, PublishRaises, Raise
  <2>12. CASE RunEnds(t)
    BY <2>12 DEF RunEnds, At, Goto
  <2>13. CASE ServiceCleanup(t)
    BY <2>13 DEF ServiceCleanup, At, Goto, CleanupPod, DeletePod
  <2>14. CASE ServiceRelease(t)
    BY <2>14 DEF ServiceRelease, At, Goto, ReleaseLock, SetLease
  <2>15. CASE RelayTimeout(t)
    BY <2>15 DEF RelayTimeout, At, Goto, Publish, PublishRaises, Raise
  <2>16. CASE RelayReturns(t)
    BY <2>16 DEF RelayReturns, At, Goto, Raise
  <2>17. CASE PublishFinal(t)
    BY <2>17 DEF PublishFinal, At, Goto, Publish, PublishRaises, Raise
  <2>18. CASE WorkerCleanup(t)
    BY <2>18 DEF WorkerCleanup, At, Goto, CleanupPod, DeletePod
  <2>19. CASE WorkerRelease(t)
    BY <2>19 DEF WorkerRelease, At, Goto, ReleaseLock, SetLease
  <2>20. CASE ReportEscaped(t)
    BY <2>20 DEF ReportEscaped, At, Goto, Publish, PublishRaises, Raise
  <2> QED
    BY <1>2, <2>1, <2>2, <2>3, <2>4, <2>5, <2>6, <2>7, <2>8, <2>9, <2>10,
       <2>11, <2>12, <2>13, <2>14, <2>15, <2>16, <2>17, <2>18, <2>19, <2>20 DEF HandlerStep
<1>3. ASSUME NEW t \in Tasks, OutputStep(t) PROVE StatusInv'
  BY <1>3 DEF OutputStep, Verdict, VerdictTold, OutputStops, Publish
<1>4. ASSUME NEW p \in Pods, PodReady(p) PROVE StatusInv'
  BY <1>4 DEF PodReady
<1>5. CASE Tick
  BY <1>5 DEF Tick, Expiring
<1>6. CASE UNCHANGED vars
  BY <1>6 DEF vars
<1> QED  BY <1>1, <1>2, <1>3, <1>4, <1>5, <1>6 DEF Next, Done

\* Every action keeps a good result with a batch task that has a pod and says so last.
LEMMA ResultStep ==
    ASSUME LifeInv, [Next]_vars
    PROVE  ResultInv'
<1> USE PodPoolAssumption DEF LifeInv, TypeInv, OwnInv, TypeOK, PCs, StatusInv, ResultInv, OutputInv, OnLoop,
       handlerVars, toldVars, leaseVars, clusterVars
<1>1. ASSUME NEW t \in Tasks, Start(t) PROVE ResultInv'
  BY <1>1 DEF Start, Publish, PublishRaises, Raise, Goto
<1>2. ASSUME NEW t \in Tasks, HandlerStep(t) PROVE ResultInv'
  <2>1. CASE ListPods(t)
    BY <2>1 DEF ListPods, At, Goto
  <2>2. CASE LeaseListed(t)
    BY <2>2 DEF LeaseListed, At, Goto, AcquireLock, SetLease
  <2>3. CASE SkipListed(t)
    BY <2>3 DEF SkipListed, At, AcquireLock, SetLease
  <2>4. CASE NextRound(t)
    BY <2>4 DEF NextRound, At, Goto
  <2>5. CASE CreatePod(t)
    BY <2>5 DEF CreatePod, At, Goto
  <2>6. CASE CreatedPodReady(t)
    BY <2>6 DEF CreatedPodReady, At, Goto, AcquireLock, SetLease
  <2>7. CASE CreatedPodTimeout(t)
    BY <2>7 DEF CreatedPodTimeout, At, Goto, DeletePod
  <2>8. CASE CreatedPodLost(t)
    BY <2>8 DEF CreatedPodLost, At, Goto
  <2>9. CASE PublishExecuting(t)
    BY <2>9 DEF PublishExecuting, At, Goto, Publish, PublishRaises, Raise
  <2>10. CASE PostToPod(t)
    BY <2>10 DEF PostToPod, At, Goto, Publish, PublishRaises, Raise
  <2>11. CASE NoAnswer(t)
    BY <2>11 DEF NoAnswer, At, Goto, Publish, PublishRaises, Raise
  <2>12. CASE RunEnds(t)
    BY <2>12 DEF RunEnds, At, Goto
  <2>13. CASE ServiceCleanup(t)
    BY <2>13 DEF ServiceCleanup, At, Goto, CleanupPod, DeletePod
  <2>14. CASE ServiceRelease(t)
    BY <2>14 DEF ServiceRelease, At, Goto, ReleaseLock, SetLease
  <2>15. CASE RelayTimeout(t)
    BY <2>15 DEF RelayTimeout, At, Goto, Publish, PublishRaises, Raise
  <2>16. CASE RelayReturns(t)
    BY <2>16 DEF RelayReturns, At, Goto, Raise
  <2>17. CASE PublishFinal(t)
    BY <2>17 DEF PublishFinal, At, Goto, Publish, PublishRaises, Raise
  <2>18. CASE WorkerCleanup(t)
    BY <2>18 DEF WorkerCleanup, At, Goto, CleanupPod, DeletePod
  <2>19. CASE WorkerRelease(t)
    BY <2>19 DEF WorkerRelease, At, Goto, ReleaseLock, SetLease
  <2>20. CASE ReportEscaped(t)
    BY <2>20 DEF ReportEscaped, At, Goto, Publish, PublishRaises, Raise
  <2> QED
    BY <1>2, <2>1, <2>2, <2>3, <2>4, <2>5, <2>6, <2>7, <2>8, <2>9, <2>10,
       <2>11, <2>12, <2>13, <2>14, <2>15, <2>16, <2>17, <2>18, <2>19, <2>20 DEF HandlerStep
<1>3. ASSUME NEW t \in Tasks, OutputStep(t) PROVE ResultInv'
  BY <1>3 DEF OutputStep, Verdict, VerdictTold, OutputStops, Publish
<1>4. ASSUME NEW p \in Pods, PodReady(p) PROVE ResultInv'
  BY <1>4 DEF PodReady
<1>5. CASE Tick
  BY <1>5 DEF Tick, Expiring
<1>6. CASE UNCHANGED vars
  BY <1>6 DEF vars
<1> QED  BY <1>1, <1>2, <1>3, <1>4, <1>5, <1>6 DEF Next, Done

\* Every action keeps output_task, what it has published and its handler in step.
LEMMA OutputTaskStep ==
    ASSUME LifeInv, [Next]_vars
    PROVE  OutputInv'
<1> USE PodPoolAssumption DEF LifeInv, TypeInv, OwnInv, TypeOK, PCs, StatusInv, ResultInv, OutputInv, OnLoop,
       handlerVars, toldVars, leaseVars, clusterVars
<1>1. ASSUME NEW t \in Tasks, Start(t) PROVE OutputInv'
  BY <1>1 DEF Start, Publish, PublishRaises, Raise, Goto
<1>2. ASSUME NEW t \in Tasks, HandlerStep(t) PROVE OutputInv'
  <2>1. CASE ListPods(t)
    BY <2>1 DEF ListPods, At, Goto
  <2>2. CASE LeaseListed(t)
    BY <2>2 DEF LeaseListed, At, Goto, AcquireLock, SetLease
  <2>3. CASE SkipListed(t)
    BY <2>3 DEF SkipListed, At, AcquireLock, SetLease
  <2>4. CASE NextRound(t)
    BY <2>4 DEF NextRound, At, Goto
  <2>5. CASE CreatePod(t)
    BY <2>5 DEF CreatePod, At, Goto
  <2>6. CASE CreatedPodReady(t)
    BY <2>6 DEF CreatedPodReady, At, Goto, AcquireLock, SetLease
  <2>7. CASE CreatedPodTimeout(t)
    BY <2>7 DEF CreatedPodTimeout, At, Goto, DeletePod
  <2>8. CASE CreatedPodLost(t)
    BY <2>8 DEF CreatedPodLost, At, Goto
  <2>9. CASE PublishExecuting(t)
    BY <2>9 DEF PublishExecuting, At, Goto, Publish, PublishRaises, Raise
  <2>10. CASE PostToPod(t)
    BY <2>10 DEF PostToPod, At, Goto, Publish, PublishRaises, Raise
  <2>11. CASE NoAnswer(t)
    BY <2>11 DEF NoAnswer, At, Goto, Publish, PublishRaises, Raise
  <2>12. CASE RunEnds(t)
    BY <2>12 DEF RunEnds, At, Goto
  <2>13. CASE ServiceCleanup(t)
    BY <2>13 DEF ServiceCleanup, At, Goto, CleanupPod, DeletePod
  <2>14. CASE ServiceRelease(t)
    BY <2>14 DEF ServiceRelease, At, Goto, ReleaseLock, SetLease
  <2>15. CASE RelayTimeout(t)
    BY <2>15 DEF RelayTimeout, At, Goto, Publish, PublishRaises, Raise
  <2>16. CASE RelayReturns(t)
    BY <2>16 DEF RelayReturns, At, Goto, Raise
  <2>17. CASE PublishFinal(t)
    BY <2>17 DEF PublishFinal, At, Goto, Publish, PublishRaises, Raise
  <2>18. CASE WorkerCleanup(t)
    BY <2>18 DEF WorkerCleanup, At, Goto, CleanupPod, DeletePod
  <2>19. CASE WorkerRelease(t)
    BY <2>19 DEF WorkerRelease, At, Goto, ReleaseLock, SetLease
  <2>20. CASE ReportEscaped(t)
    BY <2>20 DEF ReportEscaped, At, Goto, Publish, PublishRaises, Raise
  <2> QED
    BY <1>2, <2>1, <2>2, <2>3, <2>4, <2>5, <2>6, <2>7, <2>8, <2>9, <2>10,
       <2>11, <2>12, <2>13, <2>14, <2>15, <2>16, <2>17, <2>18, <2>19, <2>20 DEF HandlerStep
<1>3. ASSUME NEW t \in Tasks, OutputStep(t) PROVE OutputInv'
  BY <1>3 DEF OutputStep, Verdict, VerdictTold, OutputStops, Publish
<1>4. ASSUME NEW p \in Pods, PodReady(p) PROVE OutputInv'
  BY <1>4 DEF PodReady
<1>5. CASE Tick
  BY <1>5 DEF Tick, Expiring
<1>6. CASE UNCHANGED vars
  BY <1>6 DEF vars
<1> QED  BY <1>1, <1>2, <1>3, <1>4, <1>5, <1>6 DEF Next, Done

\* A step of a handler that publishes a status that may follow.
LEMMA ReportMaps ==
    ASSUME NEW t \in Tasks, TypeOK, pc[t] \notin {"idle", "done"}, pc'[t] # "idle",
           \A u \in Tasks \ {t} : pc'[u] = pc[u] /\ raised'[u] = raised[u], mode' = mode,
           raised'[t] = raised[t] \/ raised'[t] # "never",
           NEW s \in Lifecycle!Follow[status[t]] \cup Lifecycle!Correction(t),
           status' = [status EXCEPT ![t] = s], pc'[t] = "done" => s = "error"
    PROVE  Lifecycle!Report(t)
<1>1. t \in Begun \ Over /\ Begun' = Begun /\ Relayed' = Relayed
  BY DEF Begun, Over, Relayed, OnLoop
<1>2. Over' \in {Over, Over \cup (IF s = "error" THEN {t} ELSE {})}
  BY DEF Over
<1>3. Failed' \in {Failed, Failed \cup {t}}
  BY DEF Failed
<1> QED  BY <1>1, <1>2, <1>3 DEF Lifecycle!Report, Lifecycle!Publish

\* A step of a handler that publishes nothing.
LEMMA SilentMaps ==
    ASSUME NEW t \in Tasks, TypeOK, pc[t] \notin {"idle", "done"}, pc'[t] # "idle",
           \A u \in Tasks \ {t} : pc'[u] = pc[u] /\ raised'[u] = raised[u], mode' = mode,
           raised'[t] = raised[t] \/ raised'[t] # "never",
           UNCHANGED status,
           pc'[t] = "done" =>
               /\ status[t] \in Lifecycle!Final \/ raised[t] # "never"
               /\ raised[t] = "never" => raised'[t] = "never"
    PROVE  Lifecycle!Step(t) \/ UNCHANGED Lifecycle!vars
<1>1. t \in Begun \ Over /\ Begun' = Begun /\ Relayed' = Relayed
  BY DEF Begun, Over, Relayed, OnLoop
<1>2. CASE pc'[t] = "done"
  <2>1. Over' = Over \cup {t} /\ Failed' = Failed
    BY <1>2 DEF Over, Failed
  <2>2. t \in Failed \/ status[t] \in Lifecycle!Final
    BY <1>2 DEF Failed
  <2> QED  BY <1>1, <2>1, <2>2 DEF Lifecycle!Step, Lifecycle!End
<1>3. CASE pc'[t] # "done"
  <2>1. Over' = Over
    BY <1>3 DEF Over
  <2>2. Failed' = Failed \/ Failed' = Failed \cup {t}
    BY DEF Failed
  <2> QED  BY <1>1, <2>1, <2>2 DEF Lifecycle!Step, Lifecycle!Fail, Lifecycle!vars
<1> QED  BY <1>2, <1>3

\* The first step of a task begins it.
LEMMA BeginMaps ==
    ASSUME LifeInv, NEW t \in Tasks, Start(t)
    PROVE  Lifecycle!Begin(t)
<1> USE DEF LifeInv, TypeInv, StatusInv, TypeOK, PCs
<1>1. /\ pc[t] = "idle" /\ status[t] = "none" /\ raised[t] = "never" /\ ~OnLoop(t)
      /\ \A u \in Tasks \ {t} : pc'[u] = pc[u] /\ mode'[u] = mode[u]
      /\ pc'[t] \in {"list", "final", "done", "report"}
  BY DEF Start, Goto
<1>2. t \notin Begun /\ Begun' = Begun \cup {t}
  BY <1>1 DEF Begun
<1>3. Relayed' \in {Relayed, Relayed \cup {t}}
  BY <1>1 DEF Relayed, OnLoop
<1>4. ASSUME NEW s \in Lifecycle!Follow[status[t]], status' = [status EXCEPT ![t] = s],
             pc'[t] = "done" => s = "error",
             raised' = raised \/ \E how \in {"caught", "escapes"} : Raise(t, how)
      PROVE  Lifecycle!Begin(t)
  <2>1. Over' \in {Over, Over \cup (IF s = "error" THEN {t} ELSE {})}
    BY <1>1, <1>4 DEF Over
  <2>2. Failed' \in {Failed, Failed \cup {t}}
    BY <1>4 DEF Failed, Raise
  <2> QED  BY <1>2, <1>3, <1>4, <2>1, <2>2 DEF Lifecycle!Begin, Lifecycle!Publish
<1>5. ASSUME UNCHANGED status, pc'[t] # "done", NEW how \in {"caught", "escapes"}, Raise(t, how)
      PROVE  Lifecycle!Begin(t)
  <2>1. Over' = Over
    BY <1>1, <1>5 DEF Over
  <2>2. Failed' = Failed \cup {t}
    BY <1>5 DEF Failed, Raise
  <2> QED  BY <1>2, <1>3, <1>5, <2>1, <2>2 DEF Lifecycle!Begin
<1>6. "provisioning" \in Lifecycle!Follow[status[t]] /\ "error" \in Lifecycle!Follow[status[t]]
  BY <1>1 DEF Lifecycle!Follow
<1>7. CASE Goto(t, "list") /\ Publish(t, "provisioning") /\ UNCHANGED raised
  <2>1. pc'[t] # "done"
    BY <1>7 DEF Goto
  <2> QED  BY <1>4, <1>6, <1>7, <2>1 DEF Publish
<1>8. CASE Goto(t, "done") /\ Publish(t, "error") /\ UNCHANGED raised
  BY <1>4, <1>6, <1>8 DEF Publish
<1>9. CASE Goto(t, "final") /\ PublishRaises(t, "provisioning", "caught")
  <2>1. pc'[t] # "done"
    BY <1>9 DEF Goto
  <2> QED  BY <1>4, <1>5, <1>6, <1>9, <2>1 DEF PublishRaises, Publish
<1>10. CASE Goto(t, "report") /\ PublishRaises(t, "error", "escapes")
  <2>1. pc'[t] # "done"
    BY <1>10 DEF Goto
  <2> QED  BY <1>4, <1>5, <1>6, <1>10, <2>1 DEF PublishRaises, Publish
<1> QED  BY <1>7, <1>8, <1>9, <1>10 DEF Start

\* Every step of a handler that has begun is a report, a failure, an end or a stuttering
\* step of its task.
LEMMA LifecycleStep ==
    ASSUME LifeInv, NEW t \in Tasks, HandlerStep(t)
    PROVE  Lifecycle!Step(t) \/ UNCHANGED Lifecycle!vars
<1> USE PodPoolAssumption DEF LifeInv, TypeInv, OwnInv, StatusInv, ResultInv, TypeOK, PCs
\* What the step publishes, and how its handler stands afterwards.
<1> DEFINE Told(s) ==
             /\ s \in Lifecycle!Follow[status[t]] \cup Lifecycle!Correction(t)
             /\ status' = [status EXCEPT ![t] = s] /\ (pc'[t] = "done" => s = "error")
           Quiet ==
             /\ UNCHANGED status
             /\ pc'[t] = "done" =>
                    /\ status[t] \in Lifecycle!Final \/ raised[t] # "never"
                    /\ raised[t] = "never" => raised'[t] = "never"
           Own ==
             /\ pc[t] \notin {"idle", "done"} /\ pc'[t] # "idle" /\ mode' = mode
             /\ \A u \in Tasks \ {t} : pc'[u] = pc[u] /\ raised'[u] = raised[u]
             /\ raised'[t] = raised[t] \/ raised'[t] # "never"
<1>1. SUFFICES Own /\ (Quiet \/ \E s \in {"executing", "completed", "error"} : Told(s))
  <2>1. CASE Own /\ Quiet
    BY <2>1, SilentMaps
  <2>2. ASSUME Own, NEW s \in {"executing", "completed", "error"}, Told(s) PROVE Lifecycle!Report(t)
    BY <2>2, ReportMaps
  <2> QED  BY <2>1, <2>2 DEF Lifecycle!Step
\* "error" may be published at any time by a task that has begun and not completed.
<1>2. ASSUME status[t] # "completed" \/ raised[t] # "never" \/ OnLoop(t),
             pc'[t] = "done" => raised[t] # "never" \/ raised' = raised,
             status' = [status EXCEPT ![t] = "error"]
      PROVE  Quiet \/ Told("error")
  <2>1. CASE status[t] = "error" /\ pc'[t] # "done"
    BY <1>2, <2>1
  <2>2. CASE status[t] = "completed"
    BY <1>2, <2>2 DEF Lifecycle!Correction, Failed, Relayed
  <2>3. CASE status[t] \in {"none", "provisioning", "executing"}
    BY <1>2, <2>3 DEF Lifecycle!Follow, Lifecycle!Final
  <2>4. CASE status[t] = "error" /\ pc'[t] = "done"
    BY <1>2, <2>4 DEF Lifecycle!Final
  <2> QED  BY <2>1, <2>2, <2>3, <2>4
<1>3. CASE \/ ListPods(t) \/ LeaseListed(t) \/ SkipListed(t) \/ NextRound(t) \/ CreatePod(t)
            \/ CreatedPodReady(t) \/ CreatedPodTimeout(t) \/ CreatedPodLost(t)
  <2>1. CASE ListPods(t) \/ LeaseListed(t) \/ SkipListed(t) \/ NextRound(t)
    BY <2>1 DEF ListPods, LeaseListed, SkipListed, NextRound, At, Goto, toldVars
  <2>2. CASE CreatePod(t) \/ CreatedPodReady(t) \/ CreatedPodTimeout(t) \/ CreatedPodLost(t)
    BY <2>2 DEF CreatePod, CreatedPodReady, CreatedPodTimeout, CreatedPodLost, At, Goto, toldVars
  <2> QED  BY <1>3, <2>1, <2>2
<1>4. CASE RunEnds(t) \/ ServiceCleanup(t) \/ ServiceRelease(t) \/ WorkerCleanup(t)
  <2>1. CASE RunEnds(t)
    BY <2>1 DEF RunEnds, At, Goto, toldVars
  <2>2. CASE ServiceCleanup(t)
    <3>1. /\ pc[t] = "svcDelete" /\ Goto(t, "svcRelease")
          /\ mode' = mode /\ raised' = raised /\ status' = status
      BY <2>2 DEF ServiceCleanup, At, toldVars
    <3> QED  BY <3>1 DEF Goto
  <2>3. CASE ServiceRelease(t)
    BY <2>3 DEF ServiceRelease, At, Goto, toldVars
  <2>4. CASE WorkerCleanup(t)
    <3>1. /\ pc[t] = "wrkDelete" /\ Goto(t, "wrkRelease")
          /\ mode' = mode /\ raised' = raised /\ status' = status
      BY <2>4 DEF WorkerCleanup, At, toldVars
    <3> QED  BY <3>1 DEF Goto
  <2> QED  BY <1>4, <2>1, <2>2, <2>3, <2>4
\* The place of the handler, and what a call that may raise does to its flag.
<1>5. ASSUME NEW here \in PCs \ {"idle", "done"}, pc[t] = here,
             pc' = pc \/ \E there \in PCs \ {"idle"} : Goto(t, there),
             mode' = mode, raised' = raised \/ \E how \in {"caught", "escapes"} : Raise(t, how)
      PROVE  Own
  BY <1>5 DEF Goto, Raise
<1>6. CASE PublishExecuting(t) \/ PostToPod(t)
  <2>1. /\ pc[t] \in {"leased", "ip"} /\ mode' = mode
        /\ \E there \in {"ip", "running", "final"} : Goto(t, there)
        /\ raised' = raised \/ \E how \in {"caught", "escapes"} : Raise(t, how)
        /\ UNCHANGED status \/ (pc[t] = "leased" /\ Publish(t, "executing"))
    <3>1. CASE PublishExecuting(t)
      BY <3>1 DEF PublishExecuting, At, PublishRaises
    <3>2. CASE PostToPod(t)
      BY <3>2 DEF PostToPod, At, PublishRaises, toldVars
    <3> QED  BY <1>6, <3>1, <3>2
  <2>2. Own /\ pc'[t] # "done"
    <3>1. pc'[t] # "done"
      BY <2>1 DEF Goto
    <3> QED  BY <1>5, <2>1, <3>1
  <2>3. CASE UNCHANGED status
    BY <2>2, <2>3
  <2>4. CASE pc[t] = "leased" /\ Publish(t, "executing")
    BY <2>2, <2>4 DEF Publish, Lifecycle!Follow
  <2> QED  BY <2>1, <2>2, <2>3, <2>4
<1>7. CASE NoAnswer(t) \/ RelayTimeout(t) \/ RelayReturns(t)
  <2>1. /\ pc[t] \in {"leased", "ip", "running", "overdue"} /\ mode' = mode
        /\ \E there \in {"svcDelete", "final", "wrkDelete", "overdue"} : Goto(t, there)
        /\ raised' = raised \/ \E how \in {"caught", "escapes"} : Raise(t, how)
        /\ UNCHANGED status \/ (OnLoop(t) /\ Publish(t, "error"))
    <3>1. CASE NoAnswer(t)
      BY <3>1 DEF NoAnswer, At, PublishRaises
    <3>2. CASE RelayTimeout(t)
      BY <3>2 DEF RelayTimeout, At, PublishRaises
    <3>3. CASE RelayReturns(t)
      BY <3>3 DEF RelayReturns, At
    <3> QED  BY <1>7, <3>1, <3>2, <3>3
  <2>2. Own /\ pc'[t] # "done"
    <3>1. pc'[t] # "done"
      BY <2>1 DEF Goto
    <3> QED  BY <1>5, <2>1, <3>1
  <2>3. CASE UNCHANGED status
    BY <2>2, <2>3
  <2>4. CASE OnLoop(t) /\ Publish(t, "error")
    BY <1>2, <2>2, <2>4 DEF Publish
  <2> QED  BY <2>1, <2>2, <2>3, <2>4
<1>8. CASE PublishFinal(t)
  <2>1. /\ pc[t] = "final" /\ mode' = mode
        /\ raised' = raised \/ \E how \in {"caught", "escapes"} : Raise(t, how)
        /\ \/ good[t] /\ Publish(t, "completed") /\ Goto(t, "wrkDelete")
           \/ ~good[t] /\ Publish(t, "error") /\ \E there \in {"done", "wrkDelete", "report"} : Goto(t, there)
           \/ UNCHANGED <<pc, status>>
           \/ good[t] /\ Publish(t, "completed") /\ UNCHANGED pc
           \/ UNCHANGED status /\ \E there \in {"wrkDelete", "report"} : Goto(t, there)
    <3>1. good[t] => cur[t] # NoPod
      OBVIOUS
    <3> QED  BY <1>8, <3>1 DEF PublishFinal, At, PublishRaises
  <2>2. Own
    BY <1>5, <2>1
  <2>3. CASE good[t] /\ Publish(t, "completed") /\ (Goto(t, "wrkDelete") \/ UNCHANGED pc)
    <3>1. pc'[t] # "done"
      BY <2>1, <2>3 DEF Goto
    <3>2. "completed" \in Lifecycle!Follow[status[t]]
      BY <2>1, <2>3 DEF Lifecycle!Follow, Lifecycle!Final
    <3> QED  BY <2>2, <2>3, <3>1, <3>2 DEF Publish
  <2>4. CASE ~good[t] /\ Publish(t, "error")
    <3>1. pc'[t] = "done" => raised' = raised
      BY <1>8, <2>1 DEF PublishFinal, At, Goto
    <3> QED  BY <1>2, <2>1, <2>2, <2>4, <3>1 DEF Publish
  <2>5. CASE UNCHANGED status /\ (UNCHANGED pc \/ \E there \in {"wrkDelete", "report"} : Goto(t, there))
    <3>1. pc'[t] # "done"
      BY <2>1, <2>5 DEF Goto
    <3> QED  BY <2>2, <2>5, <3>1
  <2> QED  BY <2>1, <2>3, <2>4, <2>5
<1>9. CASE WorkerRelease(t)
  <2>1. /\ pc[t] = "wrkRelease" /\ mode' = mode /\ raised' = raised /\ UNCHANGED status
        /\ \E there \in {"done", "report"} : Goto(t, there)
    BY <1>9 DEF WorkerRelease, At, toldVars
  <2>2. Own
    BY <1>5, <2>1
  <2> QED  BY <2>1, <2>2 DEF Lifecycle!Final
<1>10. CASE ReportEscaped(t)
  <2>1. /\ pc[t] = "report" /\ mode' = mode /\ Goto(t, "done")
        /\ raised' = raised \/ \E how \in {"caught", "escapes"} : Raise(t, how)
        /\ UNCHANGED status \/ Publish(t, "error")
    BY <1>10 DEF ReportEscaped, At, PublishRaises
  <2>2. Own /\ raised[t] # "never"
    <3>1. Own
      BY <1>5, <2>1
    <3> QED  BY <2>1, <3>1
  <2>3. CASE UNCHANGED status
    BY <2>2, <2>3
  <2>4. CASE Publish(t, "error")
    BY <1>2, <2>2, <2>4 DEF Publish
  <2> QED  BY <2>1, <2>3, <2>4
<1> QED
  BY <1>3, <1>4, <1>6, <1>7, <1>8, <1>9, <1>10 DEF HandlerStep

\* output_task publishes a final status when its program has run, and corrects one only as
\* JobLifecycle lets an interactive task.
LEMMA OutputMaps ==
    ASSUME LifeInv, NEW t \in Tasks, OutputStep(t)
    PROVE  Lifecycle!Step(t) \/ UNCHANGED Lifecycle!vars
<1> USE DEF LifeInv, TypeInv, OutputInv, TypeOK, PCs
<1>1. /\ out[t] # "off" /\ UNCHANGED <<handlerVars, raised>>
      /\ UNCHANGED status \/ \E s \in {"completed", "error"} : Publish(t, s)
  BY DEF OutputStep, Verdict, VerdictTold, OutputStops
<1>2. Begun' = Begun /\ Over' = Over /\ Relayed' = Relayed /\ Failed' = Failed
  BY <1>1 DEF Begun, Over, Relayed, Failed, OnLoop, handlerVars
<1>3. t \in Begun \cap Relayed /\ (t \in Over => t \in Failed)
  BY <1>1 DEF Begun, Over, Relayed, Failed
<1>4. ASSUME NEW s \in {"completed", "error"}, Publish(t, s)
      PROVE  UNCHANGED status \/ s \in Lifecycle!Follow[status[t]] \cup Lifecycle!Correction(t)
  <2>1. status[t] \in {"executing", "completed", "error"}
    BY <1>1
  <2>2. CASE status[t] = s
    BY <1>4, <2>2 DEF Publish
  <2>3. CASE status[t] = "executing"
    BY <1>4, <2>3 DEF Lifecycle!Follow, Lifecycle!Final
  <2>4. CASE status[t] # s /\ status[t] # "executing"
    BY <1>3, <1>4, <2>1, <2>4 DEF Lifecycle!Correction
  <2> QED  BY <2>2, <2>3, <2>4
<1>5. CASE UNCHANGED status
  BY <1>2, <1>5 DEF Lifecycle!vars
<1>6. ASSUME NEW s \in Lifecycle!Follow[status[t]] \cup Lifecycle!Correction(t), Publish(t, s)
      PROVE  Lifecycle!Report(t)
  BY <1>2, <1>3, <1>6 DEF Publish, Lifecycle!Report, Lifecycle!Publish
<1> QED  BY <1>1, <1>4, <1>5, <1>6 DEF Lifecycle!Step

\* For any number of tasks and pods, whatever fails and however long leases live, what a
\* task publishes is what JobLifecycle allows: provisioning, executing, then a final status,
\* the last one for a batch task whose Redis commands succeed; a handler ends without one
\* only if a command raised.
THEOREM StatusesFollow ==
    Spec => Lifecycle!Init /\ [][Lifecycle!Next]_(Lifecycle!vars)
<1>1. Init => LifeInv
  <2>1. Init => TypeInv
    BY TypeInit
  <2> QED  BY <2>1 DEF Init, LifeInv, StatusInv, ResultInv, OutputInv, OnLoop
<1>2. LifeInv /\ [Next]_vars => LifeInv'
  BY TypeStep, StatusStep, ResultStep, OutputTaskStep DEF LifeInv
<1>3. Init => Lifecycle!Init
  BY DEF Init, Lifecycle!Init, Begun, Over, Relayed, Failed, OnLoop
<1>4. LifeInv /\ [Next]_vars => [Lifecycle!Next]_(Lifecycle!vars)
  <2> SUFFICES ASSUME LifeInv, [Next]_vars PROVE [Lifecycle!Next]_(Lifecycle!vars)
    OBVIOUS
  <2>1. CASE \E t \in Tasks : Start(t)
    BY <2>1, BeginMaps DEF Lifecycle!Next, Lifecycle!Step
  <2>2. CASE \E t \in Tasks : HandlerStep(t)
    BY <2>2, LifecycleStep DEF Lifecycle!Next
  <2>3. CASE \E t \in Tasks : OutputStep(t)
    BY <2>3, OutputMaps DEF Lifecycle!Next
  <2>4. CASE (\E p \in Pods : PodReady(p)) \/ Tick \/ UNCHANGED vars
    BY <2>4, QuietStep DEF handlerVars, toldVars, Lifecycle!vars, Begun, Over, Relayed, Failed, OnLoop
  <2> QED  BY <2>1, <2>2, <2>3, <2>4 DEF Next, Done
<1> QED  BY <1>1, <1>2, <1>3, <1>4, PTL DEF Spec

-----------------------------------------------------------------------------
(* Who touches a pod                                                       *)

\* Only PostToPod puts code into a pod.
LEMMA OnlyPostRuns ==
    ASSUME [Next]_vars
    PROVE  ran' = ran \/ \E t \in Tasks : PostToPod(t)
<1>1. ASSUME NEW t \in Tasks, HandlerStep(t), ~PostToPod(t) PROVE ran' = ran
  BY <1>1 DEF HandlerStep, ListPods, LeaseListed, SkipListed, NextRound, CreatePod,
     CreatedPodReady, CreatedPodTimeout, CreatedPodLost, PublishExecuting, NoAnswer, RunEnds,
     ServiceCleanup, ServiceRelease, RelayTimeout, RelayReturns, PublishFinal, WorkerCleanup,
     WorkerRelease, ReportEscaped
<1>2. ASSUME NEW t \in Tasks, Start(t) \/ OutputStep(t) PROVE ran' = ran
  BY <1>2 DEF Start, OutputStep, Verdict, VerdictTold, OutputStops
<1>3. ASSUME (\E p \in Pods : PodReady(p)) \/ Tick \/ Done \/ UNCHANGED vars PROVE ran' = ran
  BY <1>3 DEF PodReady, Tick, Done, vars
<1> QED  BY <1>1, <1>2, <1>3 DEF Next

\* Only these steps change the state of a pod.
LEMMA PodChanges ==
    ASSUME [Next]_vars
    PROVE  \/ pod' = pod
           \/ \E p \in Pods : PodReady(p)
           \/ \E t \in Tasks : \/ CreatePod(t) \/ CreatedPodTimeout(t)
                               \/ ServiceCleanup(t) \/ WorkerCleanup(t)
<1>1. ASSUME NEW t \in Tasks, HandlerStep(t), ~ServiceCleanup(t), ~WorkerCleanup(t),
             ~CreatedPodTimeout(t), ~CreatePod(t)
      PROVE  pod' = pod
  BY <1>1 DEF HandlerStep, ListPods, LeaseListed, SkipListed, NextRound, CreatedPodReady,
     CreatedPodLost, PublishExecuting, PostToPod, NoAnswer, RunEnds, ServiceRelease,
     RelayTimeout, RelayReturns, PublishFinal, WorkerRelease, ReportEscaped, clusterVars
<1>2. ASSUME NEW t \in Tasks, Start(t) \/ OutputStep(t) PROVE pod' = pod
  BY <1>2 DEF Start, OutputStep, Verdict, VerdictTold, OutputStops, clusterVars
<1>3. ASSUME Tick \/ Done \/ UNCHANGED vars PROVE pod' = pod
  BY <1>3 DEF Tick, Done, vars, clusterVars
<1> QED  BY <1>1, <1>2, <1>3 DEF Next

-----------------------------------------------------------------------------
(* Pods a handler creates itself                                           *)

\* Code in a created pod is its creator's.
PrivateInv == \A t, u \in Tasks : t \in ran[u] => t = u

\* Whatever leases, deletes and DEBUG_MODE do, with no exception: a pod that a handler creates only
\* ever receives the code of that handler's task, and no step of another handler, the
\* cluster or the clock takes it away while the code runs.
THEOREM CreatedPodsArePrivate ==
    Spec => /\ []PrivateInv
            /\ [][\A t \in Tasks : pc[t] \in {"running", "overdue"} /\ cur[t] = t /\ pod[t] = "ready"
                     => pod'[t] = "ready"]_vars
<1> DEFINE Kept == \A t \in Tasks :
              pc[t] \in {"running", "overdue"} /\ cur[t] = t /\ pod[t] = "ready"
                  => pod'[t] = "ready"
<1>1. Init => TypeInv /\ PrivateInv
  BY TypeInit DEF Init, PrivateInv, Pods
<1>2. ASSUME TypeInv, PrivateInv, [Next]_vars PROVE PrivateInv'
  <2>1. ASSUME NEW t \in Tasks, PostToPod(t) PROVE PrivateInv'
    <3>1. cur[t] \in Pods /\ (cur[t] \in Tasks => cur[t] = t)
      BY <1>2, <2>1 DEF PostToPod, At, TypeInv, OwnInv
    <3>2. /\ ran \in [Pods -> SUBSET Tasks]
          /\ ran' = [ran EXCEPT ![cur[t]] = @ \cup {t}]
      BY <1>2, <2>1 DEF PostToPod, TypeInv, TypeOK
    <3>3. QED
      BY <1>2, <3>1, <3>2 DEF PrivateInv, Pods
  <2>2. ASSUME ran' = ran PROVE PrivateInv'
    BY <1>2, <2>2 DEF PrivateInv
  <2>3. QED
    BY <1>2, <2>1, <2>2, OnlyPostRuns
<1>3. ASSUME TypeInv, Next PROVE Kept
  <2> SUFFICES ASSUME NEW t \in Tasks, pc[t] \in {"running", "overdue"}, cur[t] = t, pod[t] = "ready"
               PROVE  pod'[t] = "ready"
    OBVIOUS
  <2> USE PodPoolAssumption, <1>3 DEF TypeInv, OwnInv, TypeOK, Pods
  <2>1. ASSUME NEW u \in Tasks, ServiceCleanup(u) \/ WorkerCleanup(u) PROVE pod'[t] = "ready"
    <3>1. pc[u] \in {"svcDelete", "wrkDelete"}
      BY <2>1 DEF ServiceCleanup, WorkerCleanup, At
    <3>2. cur[u] # t
      BY <3>1
    <3>3. QED
      BY <2>1, <3>2 DEF ServiceCleanup, WorkerCleanup, CleanupPod, DeletePod
  <2>2. ASSUME NEW u \in Tasks, CreatedPodTimeout(u) \/ CreatePod(u) PROVE pod'[t] = "ready"
    <3>1. /\ pc[u] \in {"create", "waiting"}
          /\ pod' = pod \/ \E state \in {"starting", "gone"} : pod' = [pod EXCEPT ![u] = state]
      <4>1. CASE CreatedPodTimeout(u)
        BY <4>1 DEF CreatedPodTimeout, At, DeletePod
      <4>2. CASE CreatePod(u)
        BY <4>2 DEF CreatePod, At, clusterVars
      <4> QED  BY <2>2, <4>1, <4>2
    <3>2. u # t
      BY <3>1
    <3>3. QED
      BY <3>1, <3>2
  <2>3. ASSUME pod' = pod PROVE pod'[t] = "ready"
    BY <2>3
  <2>4. ASSUME NEW p \in Pods, PodReady(p) PROVE pod'[t] = "ready"
    BY <2>4 DEF PodReady
  <2>5. QED
    BY <2>1, <2>2, <2>3, <2>4, PodChanges
<1>4. TypeInv /\ PrivateInv /\ [Next]_vars => (TypeInv /\ PrivateInv)'
  BY <1>2, TypeStep
<1>5. TypeInv /\ [Next]_vars => [Kept]_vars
  BY <1>3
<1>6. QED
  BY <1>1, <1>4, <1>5, PTL DEF Spec

-----------------------------------------------------------------------------
(* How long a handler can be                                                 *)

\* An upper bound on the steps a handler has left: each round of list-and-lease may list
\* every pre-warmed pod and try each, and every later call is made once.
Stage == [create |-> 12, waiting |-> 11, leased |-> 10, ip |-> 9, running |-> 8,
          overdue |-> 7, svcDelete |-> 7, svcRelease |-> 6, wrkDelete |-> 3, wrkRelease |-> 2,
          report |-> 1, done |-> 0]
Warm == Cardinality(WarmPods)
Rounds(n) == n * (Warm + 2)
RankOf(p, ok, round, listed) ==
    CASE p = "idle"  -> 15 + Warm + Rounds(ListAttempts)
      [] p = "list"  -> 14 + Warm + Rounds(ListAttempts - round)
      [] p = "lease" -> 13 + listed + Rounds(ListAttempts - round)
      [] p = "final" -> IF ok THEN 5 ELSE 4
      [] OTHER -> Stage[p]
TaskStep(t) == Start(t) \/ HandlerStep(t)
Rank(t) == RankOf(pc[t], good[t], tries[t], Cardinality(seen[t]))

LEMMA RoundFacts ==
    ASSUME IsFiniteSet(WarmPods)
    PROVE  /\ Warm \in Nat
           /\ \A n \in Nat : Rounds(n) \in Nat /\ Rounds(n + 1) = Rounds(n) + Warm + 2
           /\ \A m, n \in Nat : m <= n => Rounds(m) <= Rounds(n)
<1>1. Warm \in Nat
  BY FS_CardinalityType DEF Warm
<1>2. \A w \in Nat : \A n \in Nat : n * (w + 2) \in Nat /\ (n + 1) * (w + 2) = n * (w + 2) + w + 2
  OBVIOUS
<1>3. \A w, m, n \in Nat : m <= n => m * (w + 2) <= n * (w + 2)
  OBVIOUS
<1>4. QED
  BY <1>1, <1>2, <1>3 DEF Rounds

\* The pods of a listing are some of the pre-warmed ones.
LEMMA ListingFacts ==
    ASSUME IsFiniteSet(WarmPods), NEW S \in SUBSET WarmPods
    PROVE  /\ Cardinality(S) \in 0 .. Warm
           /\ \A p \in S : Cardinality(S \ {p}) = Cardinality(S) - 1
<1>1. IsFiniteSet(S) /\ Cardinality(S) <= Warm /\ Cardinality(S) \in Nat /\ Warm \in Nat
  BY FS_Subset, FS_CardinalityType DEF Warm
<1>2. QED
  BY <1>1, FS_RemoveElement

\* The rank after provision(), where nothing is counted, and before.
LEMMA LateRank ==
    ASSUME NEW p \in PCs \ {"idle", "list", "lease"}, NEW g \in BOOLEAN, NEW k, NEW n
    PROVE  /\ RankOf(p, g, k, n) = IF p = "final" THEN IF g THEN 5 ELSE 4 ELSE Stage[p]
           /\ RankOf(p, g, k, n) \in 0 .. 12
BY DEF RankOf, PCs, Stage

LEMMA EarlyRank ==
    ASSUME IsFiniteSet(WarmPods), NEW p \in {"idle", "list", "lease"}, NEW g,
           NEW k \in 0 .. ListAttempts, NEW n \in 0 .. Warm
    PROVE  RankOf(p, g, k, n) \in Nat /\ RankOf(p, g, k, n) > 12
<1>1. ListAttempts \in Nat /\ ListAttempts - k \in Nat
  BY PodPoolAssumption
<1>2. Warm \in Nat /\ Rounds(ListAttempts) \in Nat /\ Rounds(ListAttempts - k) \in Nat
  BY <1>1, RoundFacts
<1>3. QED
  BY <1>2 DEF RankOf

LEMMA RankArguments ==
    ASSUME IsFiniteSet(WarmPods), TypeOK, NEW t \in Tasks
    PROVE  /\ pc[t] \in PCs /\ good[t] \in BOOLEAN
           /\ tries[t] \in 0 .. ListAttempts /\ Cardinality(seen[t]) \in 0 .. Warm
BY ListingFacts DEF TypeOK

LEMMA RankType ==
    ASSUME IsFiniteSet(WarmPods), TypeOK, NEW t \in Tasks
    PROVE  Rank(t) \in Nat
<1>1. CASE pc[t] \in {"idle", "list", "lease"}
  BY <1>1, RankArguments, EarlyRank DEF Rank
<1>2. CASE pc[t] \notin {"idle", "list", "lease"}
  BY <1>2, RankArguments, LateRank DEF Rank
<1>3. QED
  BY <1>1, <1>2

\* Steps of one handler, of an output_task, of the cluster and of the clock change nothing
\* of another's.
LEMMA OthersKeepRank ==
    ASSUME TypeOK, NEW u \in Tasks,
           \/ \E t \in Tasks \ {u} : TaskStep(t)
           \/ (\E t \in Tasks : OutputStep(t)) \/ (\E p \in Pods : PodReady(p)) \/ Tick \/ UNCHANGED vars
    PROVE  Rank(u)' = Rank(u)
<1> USE DEF TypeOK, Goto
<1>1. ASSUME NEW t \in Tasks \ {u}, TaskStep(t)
      PROVE  pc'[u] = pc[u] /\ good'[u] = good[u] /\ tries'[u] = tries[u] /\ seen'[u] = seen[u]
  <2>1. CASE Start(t)
    BY <1>1, <2>1 DEF Start
  <2>2. CASE \/ ListPods(t) \/ LeaseListed(t) \/ SkipListed(t) \/ NextRound(t) \/ CreatePod(t)
             \/ CreatedPodReady(t) \/ CreatedPodTimeout(t) \/ CreatedPodLost(t)
    BY <1>1, <2>2 DEF ListPods, LeaseListed, SkipListed, NextRound, CreatePod, CreatedPodReady,
       CreatedPodTimeout, CreatedPodLost
  <2>3. CASE PublishExecuting(t) \/ PostToPod(t) \/ NoAnswer(t) \/ RunEnds(t)
    BY <1>1, <2>3 DEF PublishExecuting, PostToPod, NoAnswer, RunEnds
  <2>4. CASE ServiceCleanup(t) \/ ServiceRelease(t) \/ RelayTimeout(t) \/ RelayReturns(t)
    BY <1>1, <2>4 DEF ServiceCleanup, ServiceRelease, RelayTimeout, RelayReturns
  <2>5. CASE PublishFinal(t) \/ WorkerCleanup(t) \/ WorkerRelease(t) \/ ReportEscaped(t)
    BY <1>1, <2>5 DEF PublishFinal, WorkerCleanup, WorkerRelease, ReportEscaped
  <2> QED  BY <1>1, <2>1, <2>2, <2>3, <2>4, <2>5 DEF TaskStep, HandlerStep
<1>2. CASE (\E t \in Tasks : OutputStep(t)) \/ (\E p \in Pods : PodReady(p)) \/ Tick \/ UNCHANGED vars
  BY <1>2 DEF OutputStep, Verdict, VerdictTold, OutputStops, PodReady, Tick, vars, handlerVars, Rank
<1>3. QED
  BY <1>1, <1>2 DEF Rank

\* Every step of a handler takes it closer to its end.
LEMMA RankStep ==
    ASSUME IsFiniteSet(WarmPods), TypeInv, TypeOK', NEW t \in Tasks, TaskStep(t)
    PROVE  Rank(t)' < Rank(t)
<1> DEFINE Left == Rounds(ListAttempts - tries[t])
<1>1. /\ pc[t] \in PCs /\ good[t] \in BOOLEAN /\ tries[t] \in 0 .. ListAttempts
      /\ pc'[t] \in PCs /\ good'[t] \in BOOLEAN /\ tries'[t] \in 0 .. ListAttempts
      /\ seen[t] \in SUBSET WarmPods /\ seen'[t] \in SUBSET WarmPods
      /\ pc \in [Tasks -> PCs] /\ good \in [Tasks -> BOOLEAN]
      /\ tries \in [Tasks -> 0 .. ListAttempts] /\ seen \in [Tasks -> SUBSET WarmPods]
  BY DEF TypeInv, TypeOK
<1>2. /\ Cardinality(seen[t]) \in 0 .. Warm /\ Cardinality(seen'[t]) \in 0 .. Warm
      /\ Warm \in Nat /\ ListAttempts \in Nat /\ ListAttempts - tries[t] \in Nat
      /\ Left \in Nat /\ Rounds(ListAttempts) \in Nat
  <2>1. ListAttempts \in Nat /\ ListAttempts - tries[t] \in Nat
    BY <1>1, PodPoolAssumption
  <2>2. QED
    BY <1>1, <2>1, ListingFacts, RoundFacts
<1>3. Rank(t)' = RankOf(pc'[t], good'[t], tries'[t], Cardinality(seen'[t]))
  BY DEF Rank, RankOf, Rounds, Warm
<1>4. ASSUME pc[t] \in {"idle", "list", "lease"}, pc'[t] \notin {"idle", "list", "lease"}
      PROVE  Rank(t)' < Rank(t)
  <2>1. Rank(t) \in Nat /\ Rank(t) > 12
    BY <1>1, <1>2, <1>4, EarlyRank DEF Rank
  <2>2. Rank(t)' \in 0 .. 12
    BY <1>1, <1>3, <1>4, LateRank
  <2>3. QED
    BY <2>1, <2>2
<1>5. ASSUME pc[t] \notin {"idle", "list", "lease"}, pc'[t] \notin {"idle", "list", "lease"},
             \/ Stage[pc'[t]] < Stage[pc[t]] /\ pc[t] # "final" /\ pc'[t] # "final"
             \/ pc'[t] = "final" /\ pc[t] \notin {"final", "wrkDelete", "wrkRelease", "report", "done"}
             \/ pc[t] = "final" /\ pc'[t] \in {"wrkDelete", "report", "done"}
             \/ pc[t] = "final" /\ pc'[t] = "final" /\ good[t] /\ ~good'[t]
      PROVE  Rank(t)' < Rank(t)
  <2>1. /\ Rank(t) = IF pc[t] = "final" THEN IF good[t] THEN 5 ELSE 4 ELSE Stage[pc[t]]
        /\ Rank(t)' = IF pc'[t] = "final" THEN IF good'[t] THEN 5 ELSE 4 ELSE Stage[pc'[t]]
    BY <1>1, <1>3, <1>5, LateRank DEF Rank
  <2>2. QED
    BY <1>1, <1>5, <2>1 DEF PCs, Stage
<1>6. CASE Start(t)
  <2>1. pc[t] = "idle" /\ pc'[t] \in {"list", "final", "done", "report"} /\ tries' = tries
    BY <1>1, <1>6 DEF Start, Goto
  <2>2. CASE pc'[t] = "list"
    <3>1. Left <= Rounds(ListAttempts)
      <4>1. ListAttempts - tries[t] <= ListAttempts
        BY <1>1, <1>2
      <4>2. QED
        BY <1>2, <4>1, RoundFacts
    <3>2. Rank(t)' = 14 + Warm + Left /\ Rank(t) = 15 + Warm + Rounds(ListAttempts)
      BY <1>3, <2>1, <2>2 DEF Rank, RankOf
    <3>3. QED
      BY <1>2, <3>1, <3>2
  <2>3. QED
    BY <1>4, <2>1, <2>2
<1>7. CASE ListPods(t)
  <2>1. pc[t] = "list" /\ pc'[t] \in {"lease", "final"} /\ tries' = tries
    BY <1>1, <1>7 DEF ListPods, At, Goto
  <2>2. CASE pc'[t] = "lease"
    <3>1. Rank(t) = 14 + Warm + Left /\ Rank(t)' = 13 + Cardinality(seen'[t]) + Left
      BY <1>3, <2>1, <2>2 DEF Rank, RankOf
    <3>2. QED
      BY <1>2, <3>1
  <2>3. QED
    BY <1>4, <2>1, <2>2
<1>8. CASE SkipListed(t)
  <2>1. PICK p \in seen[t] : seen'[t] = seen[t] \ {p}
    BY <1>1, <1>8 DEF SkipListed
  <2>2. pc[t] = "lease" /\ pc'[t] = "lease" /\ tries' = tries
    BY <1>8 DEF SkipListed, At
  <2>3. Cardinality(seen'[t]) = Cardinality(seen[t]) - 1
    BY <1>1, <2>1, ListingFacts
  <2>4. Rank(t) = 13 + Cardinality(seen[t]) + Left /\ Rank(t)' = 13 + Cardinality(seen'[t]) + Left
    BY <1>3, <2>2 DEF Rank, RankOf
  <2>5. QED
    BY <1>2, <2>3, <2>4
<1>9. CASE NextRound(t)
  <2>1. /\ pc[t] = "lease" /\ pc'[t] \in {"list", "create"}
        /\ tries'[t] = tries[t] + 1
    BY <1>1, <1>9 DEF NextRound, At, Goto
  <2>2. CASE pc'[t] = "list"
    <3>1. ListAttempts - tries'[t] \in Nat /\ ListAttempts - tries[t] = (ListAttempts - tries'[t]) + 1
      BY <1>1, <1>2, <2>1
    <3>2. Rounds(ListAttempts - tries'[t]) \in Nat /\ Left = Rounds(ListAttempts - tries'[t]) + Warm + 2
      BY <3>1, RoundFacts
    <3>3. /\ Rank(t) = 13 + Cardinality(seen[t]) + Left
          /\ Rank(t)' = 14 + Warm + Rounds(ListAttempts - tries'[t])
      BY <1>3, <2>1, <2>2 DEF Rank, RankOf
    <3>4. QED
      BY <1>2, <3>2, <3>3
  <2>3. QED
    BY <1>4, <2>1, <2>2
<1>10. CASE LeaseListed(t)
  BY <1>1, <1>4, <1>10 DEF LeaseListed, At, Goto
<1>11. CASE CreatePod(t) \/ CreatedPodReady(t) \/ CreatedPodTimeout(t) \/ CreatedPodLost(t)
  <2>1. /\ pc[t] \in {"create", "waiting"} /\ pc'[t] \in {"waiting", "leased", "final"}
        /\ pc[t] = "waiting" => pc'[t] # "waiting"
    BY <1>1, <1>11 DEF CreatePod, CreatedPodReady, CreatedPodTimeout, CreatedPodLost, At, Goto
  <2>2. QED
    BY <1>5, <2>1 DEF Stage
<1>12. CASE PublishExecuting(t) \/ PostToPod(t) \/ NoAnswer(t)
  <2>1. \/ pc[t] = "leased" /\ pc'[t] \in {"ip", "running", "wrkDelete", "final"}
        \/ pc[t] = "ip" /\ pc'[t] \in {"running", "svcDelete"}
    <3>1. CASE PublishExecuting(t)
      BY <1>1, <3>1 DEF PublishExecuting, At, Goto
    <3>2. CASE PostToPod(t)
      BY <1>1, <3>2 DEF PostToPod, At, Goto
    <3>3. CASE NoAnswer(t)
      BY <1>1, <3>3 DEF NoAnswer, At, Goto
    <3> QED  BY <1>12, <3>1, <3>2, <3>3
  <2>2. QED
    BY <1>5, <2>1 DEF Stage
<1>13. CASE RunEnds(t) \/ ServiceCleanup(t) \/ ServiceRelease(t) \/ RelayTimeout(t) \/ RelayReturns(t)
  <2>1. \/ pc[t] = "running" /\ pc'[t] \in {"svcDelete", "overdue", "wrkDelete", "final"}
        \/ pc[t] = "overdue" /\ pc'[t] \in {"wrkDelete", "final"}
        \/ pc[t] = "svcDelete" /\ pc'[t] = "svcRelease"
        \/ pc[t] = "svcRelease" /\ pc'[t] = "final"
    <3>1. CASE RunEnds(t)
      BY <1>1, <3>1 DEF RunEnds, At, Goto
    <3>2. CASE ServiceCleanup(t)
      BY <1>1, <3>2 DEF ServiceCleanup, At, Goto
    <3>3. CASE ServiceRelease(t)
      BY <1>1, <3>3 DEF ServiceRelease, At, Goto
    <3>4. CASE RelayTimeout(t) \/ RelayReturns(t)
      BY <1>1, <3>4 DEF RelayTimeout, RelayReturns, At, Goto
    <3> QED  BY <1>13, <3>1, <3>2, <3>3, <3>4
  <2>2. QED
    BY <1>5, <2>1 DEF Stage
<1>14. CASE PublishFinal(t)
  <2>1. /\ pc[t] = "final"
        /\ \/ pc'[t] \in {"wrkDelete", "report", "done"}
           \/ pc'[t] = "final" /\ good[t] /\ ~good'[t]
    BY <1>1, <1>14 DEF PublishFinal, At, Goto
  <2>2. QED
    BY <1>5, <2>1
<1>15. CASE WorkerCleanup(t) \/ WorkerRelease(t) \/ ReportEscaped(t)
  <2>1. \/ pc[t] = "wrkDelete" /\ pc'[t] = "wrkRelease"
        \/ pc[t] = "wrkRelease" /\ pc'[t] \in {"report", "done"}
        \/ pc[t] = "report" /\ pc'[t] = "done"
    BY <1>1, <1>15 DEF WorkerCleanup, WorkerRelease, ReportEscaped, At, Goto
  <2>2. QED
    BY <1>5, <2>1 DEF Stage
<1>16. QED
  BY <1>6, <1>7, <1>8, <1>9, <1>10, <1>11, <1>12, <1>13, <1>14, <1>15 DEF TaskStep, HandlerStep

\* A handler has an end in sight whatever fails: over a finite pool its rank, a number, goes
\* down with each of its steps and is moved by nothing else, output_task included, so
\* it makes at most as many steps as its rank at the start; it cannot list, lease or report for ever.
THEOREM HandlersAreBounded ==
    ASSUME IsFiniteSet(WarmPods)
    PROVE  Spec => /\ [](\A t \in Tasks : Rank(t) \in Nat)
                   /\ [][\A t \in Tasks : IF TaskStep(t) THEN Rank(t)' < Rank(t)
                                                         ELSE Rank(t)' = Rank(t)]_vars
<1> DEFINE Nearer == \A t \in Tasks : IF TaskStep(t) THEN Rank(t)' < Rank(t)
                                                     ELSE Rank(t)' = Rank(t)
<1>1. TypeInv => \A t \in Tasks : Rank(t) \in Nat
  BY RankType DEF TypeInv
<1>2. TypeInv /\ [Next]_vars => [Nearer]_vars
  <2>1. SUFFICES ASSUME TypeInv, [Next]_vars, NEW t \in Tasks
                 PROVE  IF TaskStep(t) THEN Rank(t)' < Rank(t) ELSE Rank(t)' = Rank(t)
    OBVIOUS
  <2>2. CASE TaskStep(t)
    <3>1. TypeOK'
      BY <2>1, TypeOKStep
    <3>2. QED
      BY <2>1, <2>2, <3>1, RankStep
  <2>3. CASE ~TaskStep(t)
    <3>1. \/ \E u \in Tasks \ {t} : TaskStep(u)
          \/ (\E u \in Tasks : OutputStep(u)) \/ (\E p \in Pods : PodReady(p)) \/ Tick \/ UNCHANGED vars
      BY <2>1, <2>3 DEF Next, Done, TaskStep
    <3>2. QED
      BY <2>1, <2>3, <3>1, OthersKeepRank DEF TypeInv
  <2>4. QED
    BY <2>2, <2>3
<1>3. QED
  BY <1>1, <1>2, TypeInit, TypeStep, PTL DEF Spec

-----------------------------------------------------------------------------
(* Isolation                                                               *)

LEMMA IsolationInit == Init => IInv
BY TypeInit, PodPoolAssumption DEF Init, IInv, LeaseInv, GoneInv, CreatedInv, RanInv, SingleUse,
    Holding, HoldingPCs, Pods

\* A pod that has been overrun or gone astray stays so in the histories.
LEMMA ExceptionsGrow ==
    ASSUME [Next]_vars
    PROVE  overrun \subseteq overrun' /\ astray \subseteq astray'
<1> USE DEF leaseVars, clusterVars
<1>1. ASSUME NEW t \in Tasks, HandlerStep(t) PROVE overrun' = overrun
  BY <1>1 DEF HandlerStep, ListPods, LeaseListed, SkipListed, NextRound, CreatePod,
     CreatedPodReady, CreatedPodTimeout, CreatedPodLost, PublishExecuting, PostToPod, NoAnswer,
     RunEnds, ServiceCleanup, ServiceRelease, RelayTimeout, RelayReturns, PublishFinal,
     WorkerCleanup, WorkerRelease, ReportEscaped, AcquireLock, ReleaseLock
<1>2. ASSUME NEW t \in Tasks, HandlerStep(t) PROVE astray \subseteq astray'
  <2>1. CASE \/ CreatePod(t) \/ CreatedPodTimeout(t) \/ CreatedPodLost(t)
    BY <2>1 DEF CreatePod, CreatedPodTimeout, CreatedPodLost, DeletePod
  <2>2. CASE ServiceCleanup(t) \/ WorkerCleanup(t)
    BY <2>2 DEF ServiceCleanup, WorkerCleanup, CleanupPod, DeletePod
  <2>3. CASE ~CreatePod(t) /\ ~CreatedPodTimeout(t) /\ ~CreatedPodLost(t)
               /\ ~ServiceCleanup(t) /\ ~WorkerCleanup(t)
    BY <1>2, <2>3 DEF HandlerStep, ListPods, LeaseListed, SkipListed, NextRound, CreatedPodReady,
       PublishExecuting, PostToPod, NoAnswer, RunEnds, ServiceRelease, RelayTimeout,
       RelayReturns, PublishFinal, WorkerRelease, ReportEscaped
  <2> QED  BY <2>1, <2>2, <2>3
<1>3. ASSUME NEW t \in Tasks, Start(t) \/ OutputStep(t) PROVE overrun' = overrun /\ astray' = astray
  BY <1>3 DEF Start, OutputStep, Verdict, VerdictTold, OutputStops
<1>4. ASSUME (\E p \in Pods : PodReady(p)) \/ Tick \/ Done \/ UNCHANGED vars
      PROVE  overrun \subseteq overrun' /\ astray' = astray
  BY <1>4 DEF PodReady, Tick, Done, vars
<1> QED  BY <1>1, <1>2, <1>3, <1>4 DEF Next

\* No step takes the lease of a live pod away from its holder, but the lease's end.
LEMMA LeaseStep ==
    ASSUME IInv, [Next]_vars
    PROVE  LeaseInv'
<1> USE PodPoolAssumption DEF IInv, TypeInv, OwnInv, TypeOK, Pods,
       handlerVars, toldVars, leaseVars, clusterVars, LeaseInv, GoneInv, Holding, HoldingPCs
<1>1. ASSUME NEW t \in Tasks, Start(t) PROVE LeaseInv'
  BY <1>1 DEF Start, Publish, PublishRaises, Raise, Goto
<1>2. ASSUME NEW t \in Tasks, HandlerStep(t) PROVE LeaseInv'
  <2>1. CASE ListPods(t)
    BY <2>1 DEF ListPods, At, Goto
  <2>2. CASE LeaseListed(t)
    BY <2>2 DEF LeaseListed, At, Goto, AcquireLock, SetLease
  <2>3. CASE SkipListed(t)
    BY <2>3 DEF SkipListed, At, AcquireLock, SetLease
  <2>4. CASE NextRound(t)
    BY <2>4 DEF NextRound, At, Goto
  <2>5. CASE CreatePod(t)
    BY <2>5 DEF CreatePod, At, Goto
  <2>6. CASE CreatedPodReady(t)
    BY <2>6 DEF CreatedPodReady, At, Goto, AcquireLock, SetLease
  <2>7. CASE CreatedPodTimeout(t)
    BY <2>7 DEF CreatedPodTimeout, At, Goto, DeletePod
  <2>8. CASE CreatedPodLost(t)
    BY <2>8 DEF CreatedPodLost, At, Goto
  <2>9. CASE PublishExecuting(t)
    BY <2>9 DEF PublishExecuting, At, Goto, Publish, PublishRaises, Raise
  <2>10. CASE PostToPod(t)
    BY <2>10 DEF PostToPod, At, Goto, Publish, PublishRaises, Raise
  <2>11. CASE NoAnswer(t)
    BY <2>11 DEF NoAnswer, At, Goto, Publish, PublishRaises, Raise
  <2>12. CASE RunEnds(t)
    BY <2>12 DEF RunEnds, At, Goto
  <2>13. CASE ServiceCleanup(t)
    BY <2>13 DEF ServiceCleanup, At, Goto, CleanupPod, DeletePod
  <2>14. CASE ServiceRelease(t)
    BY <2>14 DEF ServiceRelease, At, Goto, ReleaseLock, SetLease
  <2>15. CASE RelayTimeout(t)
    BY <2>15 DEF RelayTimeout, At, Goto, Publish, PublishRaises, Raise
  <2>16. CASE RelayReturns(t)
    BY <2>16 DEF RelayReturns, At, Goto, Raise
  <2>17. CASE PublishFinal(t)
    BY <2>17 DEF PublishFinal, At, Goto, Publish, PublishRaises, Raise
  <2>18. CASE WorkerCleanup(t)
    BY <2>18 DEF WorkerCleanup, At, Goto, CleanupPod, DeletePod
  <2>19. CASE WorkerRelease(t)
    BY <2>19 DEF WorkerRelease, At, Goto, ReleaseLock, SetLease
  <2>20. CASE ReportEscaped(t)
    BY <2>20 DEF ReportEscaped, At, Goto, Publish, PublishRaises, Raise
  <2> QED
    BY <1>2, <2>1, <2>2, <2>3, <2>4, <2>5, <2>6, <2>7, <2>8, <2>9, <2>10,
       <2>11, <2>12, <2>13, <2>14, <2>15, <2>16, <2>17, <2>18, <2>19, <2>20 DEF HandlerStep
<1>3. ASSUME NEW t \in Tasks, OutputStep(t) PROVE LeaseInv'
  BY <1>3 DEF OutputStep, Verdict, VerdictTold, OutputStops, Publish
<1>4. ASSUME NEW p \in Pods, PodReady(p) PROVE LeaseInv'
  BY <1>4 DEF PodReady
<1>5. CASE Tick
  BY <1>5 DEF Tick, Expiring
<1>6. CASE UNCHANGED vars
  BY <1>6 DEF vars
<1> QED  BY <1>1, <1>2, <1>3, <1>4, <1>5, <1>6 DEF Next, Done

\* A handler that has cleaned up leaves a deleted pod, and deleted pods stay deleted.
LEMMA GoneStep ==
    ASSUME IInv, [Next]_vars
    PROVE  GoneInv'
<1> USE PodPoolAssumption DEF IInv, TypeInv, OwnInv, TypeOK, Pods,
       handlerVars, toldVars, leaseVars, clusterVars, GoneInv
<1>1. ASSUME NEW t \in Tasks, Start(t) PROVE GoneInv'
  BY <1>1 DEF Start, Publish, PublishRaises, Raise, Goto
<1>2. ASSUME NEW t \in Tasks, HandlerStep(t) PROVE GoneInv'
  <2>1. CASE ListPods(t)
    BY <2>1 DEF ListPods, At, Goto
  <2>2. CASE LeaseListed(t)
    BY <2>2 DEF LeaseListed, At, Goto, AcquireLock, SetLease
  <2>3. CASE SkipListed(t)
    BY <2>3 DEF SkipListed, At, AcquireLock, SetLease
  <2>4. CASE NextRound(t)
    BY <2>4 DEF NextRound, At, Goto
  <2>5. CASE CreatePod(t)
    BY <2>5 DEF CreatePod, At, Goto
  <2>6. CASE CreatedPodReady(t)
    BY <2>6 DEF CreatedPodReady, At, Goto, AcquireLock, SetLease
  <2>7. CASE CreatedPodTimeout(t)
    BY <2>7 DEF CreatedPodTimeout, At, Goto, DeletePod
  <2>8. CASE CreatedPodLost(t)
    BY <2>8 DEF CreatedPodLost, At, Goto
  <2>9. CASE PublishExecuting(t)
    BY <2>9 DEF PublishExecuting, At, Goto, Publish, PublishRaises, Raise
  <2>10. CASE PostToPod(t)
    BY <2>10 DEF PostToPod, At, Goto, Publish, PublishRaises, Raise
  <2>11. CASE NoAnswer(t)
    BY <2>11 DEF NoAnswer, At, Goto, Publish, PublishRaises, Raise
  <2>12. CASE RunEnds(t)
    BY <2>12 DEF RunEnds, At, Goto
  <2>13. CASE ServiceCleanup(t)
    BY <2>13 DEF ServiceCleanup, At, Goto, CleanupPod, DeletePod
  <2>14. CASE ServiceRelease(t)
    BY <2>14 DEF ServiceRelease, At, Goto, ReleaseLock, SetLease
  <2>15. CASE RelayTimeout(t)
    BY <2>15 DEF RelayTimeout, At, Goto, Publish, PublishRaises, Raise
  <2>16. CASE RelayReturns(t)
    BY <2>16 DEF RelayReturns, At, Goto, Raise
  <2>17. CASE PublishFinal(t)
    BY <2>17 DEF PublishFinal, At, Goto, Publish, PublishRaises, Raise
  <2>18. CASE WorkerCleanup(t)
    BY <2>18 DEF WorkerCleanup, At, Goto, CleanupPod, DeletePod
  <2>19. CASE WorkerRelease(t)
    BY <2>19 DEF WorkerRelease, At, Goto, ReleaseLock, SetLease
  <2>20. CASE ReportEscaped(t)
    BY <2>20 DEF ReportEscaped, At, Goto, Publish, PublishRaises, Raise
  <2> QED
    BY <1>2, <2>1, <2>2, <2>3, <2>4, <2>5, <2>6, <2>7, <2>8, <2>9, <2>10,
       <2>11, <2>12, <2>13, <2>14, <2>15, <2>16, <2>17, <2>18, <2>19, <2>20 DEF HandlerStep
<1>3. ASSUME NEW t \in Tasks, OutputStep(t) PROVE GoneInv'
  BY <1>3 DEF OutputStep, Verdict, VerdictTold, OutputStops, Publish
<1>4. ASSUME NEW p \in Pods, PodReady(p) PROVE GoneInv'
  BY <1>4 DEF PodReady
<1>5. CASE Tick
  BY <1>5 DEF Tick, Expiring
<1>6. CASE UNCHANGED vars
  BY <1>6 DEF vars
<1> QED  BY <1>1, <1>2, <1>3, <1>4, <1>5, <1>6 DEF Next, Done

\* A created pod is waited for, owned, gone or astray.
LEMMA CreatedStep ==
    ASSUME IInv, [Next]_vars
    PROVE  CreatedInv'
<1> USE PodPoolAssumption DEF IInv, TypeInv, OwnInv, TypeOK, Pods,
       handlerVars, toldVars, leaseVars, clusterVars, CreatedInv, GoneInv
<1>1. ASSUME NEW t \in Tasks, Start(t) PROVE CreatedInv'
  BY <1>1 DEF Start, Publish, PublishRaises, Raise, Goto
<1>2. ASSUME NEW t \in Tasks, HandlerStep(t) PROVE CreatedInv'
  <2>1. CASE ListPods(t)
    BY <2>1 DEF ListPods, At, Goto
  <2>2. CASE LeaseListed(t)
    BY <2>2 DEF LeaseListed, At, Goto, AcquireLock, SetLease
  <2>3. CASE SkipListed(t)
    BY <2>3 DEF SkipListed, At, AcquireLock, SetLease
  <2>4. CASE NextRound(t)
    BY <2>4 DEF NextRound, At, Goto
  <2>5. CASE CreatePod(t)
    BY <2>5 DEF CreatePod, At, Goto
  <2>6. CASE CreatedPodReady(t)
    BY <2>6 DEF CreatedPodReady, At, Goto, AcquireLock, SetLease
  <2>7. CASE CreatedPodTimeout(t)
    BY <2>7 DEF CreatedPodTimeout, At, Goto, DeletePod
  <2>8. CASE CreatedPodLost(t)
    BY <2>8 DEF CreatedPodLost, At, Goto
  <2>9. CASE PublishExecuting(t)
    BY <2>9 DEF PublishExecuting, At, Goto, Publish, PublishRaises, Raise
  <2>10. CASE PostToPod(t)
    BY <2>10 DEF PostToPod, At, Goto, Publish, PublishRaises, Raise
  <2>11. CASE NoAnswer(t)
    BY <2>11 DEF NoAnswer, At, Goto, Publish, PublishRaises, Raise
  <2>12. CASE RunEnds(t)
    BY <2>12 DEF RunEnds, At, Goto
  <2>13. CASE ServiceCleanup(t)
    BY <2>13 DEF ServiceCleanup, At, Goto, CleanupPod, DeletePod
  <2>14. CASE ServiceRelease(t)
    BY <2>14 DEF ServiceRelease, At, Goto, ReleaseLock, SetLease
  <2>15. CASE RelayTimeout(t)
    BY <2>15 DEF RelayTimeout, At, Goto, Publish, PublishRaises, Raise
  <2>16. CASE RelayReturns(t)
    BY <2>16 DEF RelayReturns, At, Goto, Raise
  <2>17. CASE PublishFinal(t)
    BY <2>17 DEF PublishFinal, At, Goto, Publish, PublishRaises, Raise
  <2>18. CASE WorkerCleanup(t)
    BY <2>18 DEF WorkerCleanup, At, Goto, CleanupPod, DeletePod
  <2>19. CASE WorkerRelease(t)
    BY <2>19 DEF WorkerRelease, At, Goto, ReleaseLock, SetLease
  <2>20. CASE ReportEscaped(t)
    BY <2>20 DEF ReportEscaped, At, Goto, Publish, PublishRaises, Raise
  <2> QED
    BY <1>2, <2>1, <2>2, <2>3, <2>4, <2>5, <2>6, <2>7, <2>8, <2>9, <2>10,
       <2>11, <2>12, <2>13, <2>14, <2>15, <2>16, <2>17, <2>18, <2>19, <2>20 DEF HandlerStep
<1>3. ASSUME NEW t \in Tasks, OutputStep(t) PROVE CreatedInv'
  BY <1>3 DEF OutputStep, Verdict, VerdictTold, OutputStops, Publish
<1>4. ASSUME NEW p \in Pods, PodReady(p) PROVE CreatedInv'
  BY <1>4 DEF PodReady
<1>5. CASE Tick
  BY <1>5 DEF Tick, Expiring
<1>6. CASE UNCHANGED vars
  BY <1>6 DEF vars
<1> QED  BY <1>1, <1>2, <1>3, <1>4, <1>5, <1>6 DEF Next, Done

\* Code is only ever posted to the pod the handler names.
LEMMA RanStep ==
    ASSUME IInv, [Next]_vars
    PROVE  RanInv'
<1> USE PodPoolAssumption DEF IInv, TypeInv, OwnInv, TypeOK, Pods,
       handlerVars, toldVars, leaseVars, clusterVars, RanInv
<1>1. ASSUME NEW t \in Tasks, Start(t) PROVE RanInv'
  BY <1>1 DEF Start, Publish, PublishRaises, Raise, Goto
<1>2. ASSUME NEW t \in Tasks, HandlerStep(t) PROVE RanInv'
  <2>1. CASE ListPods(t)
    BY <2>1 DEF ListPods, At, Goto
  <2>2. CASE LeaseListed(t)
    BY <2>2 DEF LeaseListed, At, Goto, AcquireLock, SetLease
  <2>3. CASE SkipListed(t)
    BY <2>3 DEF SkipListed, At, AcquireLock, SetLease
  <2>4. CASE NextRound(t)
    BY <2>4 DEF NextRound, At, Goto
  <2>5. CASE CreatePod(t)
    BY <2>5 DEF CreatePod, At, Goto
  <2>6. CASE CreatedPodReady(t)
    BY <2>6 DEF CreatedPodReady, At, Goto, AcquireLock, SetLease
  <2>7. CASE CreatedPodTimeout(t)
    BY <2>7 DEF CreatedPodTimeout, At, Goto, DeletePod
  <2>8. CASE CreatedPodLost(t)
    BY <2>8 DEF CreatedPodLost, At, Goto
  <2>9. CASE PublishExecuting(t)
    <3>1. /\ ran' = ran /\ cur' = cur /\ pc[t] = "leased"
          /\ \A u \in Tasks \ {t} : pc'[u] = pc[u]
      BY <2>9 DEF PublishExecuting, At, Goto
    <3> QED  BY <3>1
  <2>10. CASE PostToPod(t)
    BY <2>10 DEF PostToPod, At, Goto, Publish, PublishRaises, Raise
  <2>11. CASE NoAnswer(t)
    <3>1. /\ ran' = ran /\ cur' = cur /\ pc[t] \in {"ip", "leased"}
          /\ \A u \in Tasks \ {t} : pc'[u] = pc[u]
      BY <2>11 DEF NoAnswer, At, Goto
    <3> QED  BY <3>1
  <2>12. CASE RunEnds(t)
    BY <2>12 DEF RunEnds, At, Goto
  <2>13. CASE ServiceCleanup(t)
    BY <2>13 DEF ServiceCleanup, At, Goto, CleanupPod, DeletePod
  <2>14. CASE ServiceRelease(t)
    BY <2>14 DEF ServiceRelease, At, Goto, ReleaseLock, SetLease
  <2>15. CASE RelayTimeout(t)
    <3>1. ran' = ran /\ cur' = cur
      BY <2>15 DEF RelayTimeout
    <3>2. pc'[t] \in {"overdue", "final"} /\ \A u \in Tasks \ {t} : pc'[u] = pc[u]
      BY <2>15 DEF RelayTimeout, Goto
    <3>3. ASSUME NEW p \in Pods, NEW u \in ran[p]
          PROVE  pc'[u] = pc[u] \/ pc'[u] \in {"overdue", "final"}
      BY <3>2, <3>3
    <3> QED  BY <3>1, <3>3
  <2>16. CASE RelayReturns(t)
    BY <2>16 DEF RelayReturns, At, Goto, Raise
  <2>17. CASE PublishFinal(t)
    BY <2>17 DEF PublishFinal, At, Goto, Publish, PublishRaises, Raise
  <2>18. CASE WorkerCleanup(t)
    BY <2>18 DEF WorkerCleanup, At, Goto, CleanupPod, DeletePod
  <2>19. CASE WorkerRelease(t)
    BY <2>19 DEF WorkerRelease, At, Goto, ReleaseLock, SetLease
  <2>20. CASE ReportEscaped(t)
    BY <2>20 DEF ReportEscaped, At, Goto, Publish, PublishRaises, Raise
  <2> QED
    BY <1>2, <2>1, <2>2, <2>3, <2>4, <2>5, <2>6, <2>7, <2>8, <2>9, <2>10,
       <2>11, <2>12, <2>13, <2>14, <2>15, <2>16, <2>17, <2>18, <2>19, <2>20 DEF HandlerStep
<1>3. ASSUME NEW t \in Tasks, OutputStep(t) PROVE RanInv'
  BY <1>3 DEF OutputStep, Verdict, VerdictTold, OutputStops, Publish
<1>4. ASSUME NEW p \in Pods, PodReady(p) PROVE RanInv'
  BY <1>4 DEF PodReady
<1>5. CASE Tick
  BY <1>5 DEF Tick, Expiring
<1>6. CASE UNCHANGED vars
  BY <1>6 DEF vars
<1> QED  BY <1>1, <1>2, <1>3, <1>4, <1>5, <1>6 DEF Next, Done

\* Two tasks with code in one live pod, neither overrun nor astray, would both hold its lease.
LEMMA SingleUseStep ==
    ASSUME IInv, [Next]_vars
    PROVE  SingleUse'
<1> USE PodPoolAssumption DEF IInv, TypeInv, OwnInv, TypeOK, Pods
<1>1. overrun \subseteq overrun' /\ astray \subseteq astray'
  BY ExceptionsGrow
<1>2. ASSUME NEW t \in Tasks, PostToPod(t) PROVE SingleUse'
  <2> DEFINE p == cur[t]
  <2>1. p \in Pods /\ pod[p] = "ready" /\ pc[t] \in {"ip", "leased"}
    BY <1>2 DEF PostToPod, At
  <2>2. ASSUME NEW u \in ran[p], u # t, p \notin overrun \cup astray PROVE FALSE
    <3>1. u \in Tasks /\ cur[u] = p  BY <2>1, <2>2 DEF RanInv
    <3>2. Holding(u)
      BY <2>1, <2>2, <3>1 DEF Holding, HoldingPCs, GoneInv, RanInv
    <3>3. Holding(t)  BY <2>1 DEF Holding, HoldingPCs
    <3>4. CASE p \in WarmPods
      BY <2>1, <2>2, <3>1, <3>2, <3>3, <3>4 DEF LeaseInv
    <3>5. CASE p \in Tasks
      BY <2>2, <3>1, <3>5
    <3> QED  BY <2>1, <3>4, <3>5
  <2>3. ran' = [ran EXCEPT ![p] = @ \cup {t}]  BY <1>2 DEF PostToPod
  <2> QED  BY <1>1, <2>1, <2>2, <2>3 DEF SingleUse
<1>3. ASSUME ran' = ran PROVE SingleUse'
  BY <1>1, <1>3 DEF SingleUse
<1> QED  BY <1>2, <1>3, OnlyPostRuns

LEMMA IsolationStep == IInv /\ [Next]_vars => IInv'
BY TypeStep, LeaseStep, GoneStep, CreatedStep, RanStep, SingleUseStep DEF IInv

LEMMA IsolationInvariant == Spec => []IInv
<1>1. Init => IInv  BY IsolationInit
<1>2. IInv /\ [Next]_vars => IInv'  BY IsolationStep
<1> QED  BY <1>1, <1>2, PTL DEF Spec

\* For any number of tasks and pods, whatever fails and however short leases are: a pod
\* receives the code of two tasks only if its lease ran out while a handler held it, or if
\* a delete of it was refused or withheld for debugging.
THEOREM PodsAreSingleUse == Spec => []SingleUse
<1>1. IInv => SingleUse  BY DEF IInv
<1> QED  BY <1>1, IsolationInvariant, PTL

\* A handler that has ended left no pod running that it created or ran code in, on every
\* error path, but those that Kubernetes refused to delete or that a call that raised in
\* provision() left to nobody.
THEOREM HandlersLeaveNoPod == Spec => []NoPodLeft
<1>1. IInv => NoPodLeft
  BY PodPoolAssumption DEF IInv, NoPodLeft, CreatedInv, RanInv, GoneInv, TypeInv, OwnInv,
     TypeOK, Pods
<1> QED  BY <1>1, IsolationInvariant, PTL

\* No handler deletes a pod in which another handler's task is running, with the same two
\* exceptions as PodsAreSingleUse.
THEOREM DeletesAreOwn == Spec => OnlyUserDeletes
<1> DEFINE Kept == \A t \in Tasks : \A p \in Pods \ (overrun \cup astray) :
              (pc[t] \in {"running", "overdue"} /\ cur[t] = p /\ pod[p] = "ready")
                  => pod'[p] = "ready"
<1>1. ASSUME IInv, Next PROVE Kept
  <2> SUFFICES ASSUME NEW t \in Tasks, NEW p \in Pods \ (overrun \cup astray),
                      pc[t] \in {"running", "overdue"}, cur[t] = p, pod[p] = "ready"
               PROVE  pod'[p] = "ready"
    OBVIOUS
  <2> USE PodPoolAssumption, <1>1 DEF IInv, TypeInv, OwnInv, TypeOK, Pods
  <2>1. Holding(t)  BY DEF Holding, HoldingPCs
  <2>2. ASSUME NEW u \in Tasks, Holding(u), cur[u] = p PROVE u = t
    BY <2>1, <2>2 DEF LeaseInv
  <2>3. ASSUME NEW u \in Tasks, ServiceCleanup(u) \/ WorkerCleanup(u) PROVE pod'[p] = "ready"
    <3>1. pc[u] \in {"svcDelete", "wrkDelete"}
      BY <2>3 DEF ServiceCleanup, WorkerCleanup, At
    <3>2. Holding(u)  BY <3>1 DEF Holding, HoldingPCs
    <3>3. cur[u] # p  BY <2>2, <3>1, <3>2
    <3> QED  BY <2>3, <3>3 DEF ServiceCleanup, WorkerCleanup, CleanupPod, DeletePod
  <2>4. ASSUME NEW u \in Tasks, CreatedPodTimeout(u) PROVE pod'[p] = "ready"
    <3>1. u # p  BY <2>4 DEF CreatedPodTimeout, At
    <3> QED  BY <2>4, <3>1 DEF CreatedPodTimeout, DeletePod
  <2>5. ASSUME NEW u \in Tasks, CreatePod(u) PROVE pod'[p] = "ready"
    <3>1. u # p  BY <2>5 DEF CreatePod, At
    <3> QED  BY <2>5, <3>1 DEF CreatePod, clusterVars
  <2>6. ASSUME NEW q \in Pods, PodReady(q) PROVE pod'[p] = "ready"
    BY <2>6 DEF PodReady
  <2>7. ASSUME pod' = pod PROVE pod'[p] = "ready"
    BY <2>7
  <2> QED  BY <2>3, <2>4, <2>5, <2>6, <2>7, PodChanges
<1>2. IInv /\ [Next]_vars => [Kept]_vars  BY <1>1
<1> QED  BY <1>2, IsolationInvariant, PTL DEF Spec, OnlyUserDeletes

-----------------------------------------------------------------------------
(* The worker's loop: WorkerQueue, whose tasks are those of the handlers.  *)

\* A list of the worker holds tasks of one place, each once.
Lists(at, list, here) ==
    /\ \A i \in DOMAIN list : at[list[i]] = here
    /\ \A i, j \in DOMAIN list : list[i] = list[j] => i = j

ListInv ==
    /\ Lists(place, queue, "queued")
    /\ Lists(place, waiting, "waiting")
    /\ Lists(place, executor, "submitted")

\* A dead worker has nothing in its hands, so a restart may set all slots free.
Holders == {t \in Tasks : place[t] \in HoldsSlot}
SlotInv ==
    /\ IsFiniteSet(Holders)
    /\ up => free + Cardinality(Holders) = Slots
    /\ ~up => \A t \in Tasks : place[t] \notin InWorker

\* A task is given to its handler exactly when it passes the semaphore.
StartInv == \A t \in Tasks :
    /\ starts[t] <= 1
    /\ place[t] \in {"new", "refused", "queued", "waiting"} => starts[t] = 0
    /\ place[t] \in HoldsSlot \cup {"done"} => starts[t] = 1

\* The tasks at the semaphore are the ones popped last, in the order they were popped;
\* every one before them was started or lost.
Ahead == Len(order) - Len(waiting)
OrderInv ==
    /\ Len(waiting) <= Len(order)
    /\ \A k \in 1 .. Len(waiting) : waiting[k] = order[Ahead + k]
    /\ \A i \in 1 .. Ahead : starts[order[i]] = 1 \/ place[order[i]] = "lost"

LoopInv == QueueTypeOK /\ ListInv /\ SlotInv /\ StartInv /\ OrderInv

\* What Head, Tail and Append do, element by element.
LEMMA TailElements ==
    ASSUME NEW S, NEW list \in Seq(S), list # <<>>
    PROVE  /\ Len(list) \in Nat \ {0} /\ DOMAIN list = 1 .. Len(list)
           /\ Head(list) = list[1] /\ Head(list) \in S
           /\ Tail(list) \in Seq(S) /\ Len(Tail(list)) = Len(list) - 1
           /\ DOMAIN Tail(list) = 1 .. Len(list) - 1
           /\ \A i \in 1 .. Len(list) - 1 : Tail(list)[i] = list[i + 1]
OBVIOUS

LEMMA AppendElements ==
    ASSUME NEW S, NEW list \in Seq(S), NEW e \in S
    PROVE  /\ Len(list) \in Nat /\ DOMAIN list = 1 .. Len(list)
           /\ Append(list, e) \in Seq(S) /\ Len(Append(list, e)) = Len(list) + 1
           /\ DOMAIN Append(list, e) = 1 .. Len(list) + 1
           /\ \A i \in 1 .. Len(list) : Append(list, e)[i] = list[i]
           /\ Append(list, e)[Len(list) + 1] = e
OBVIOUS

\* A list stays one when tasks elsewhere move, ...
LEMMA KeepList ==
    ASSUME NEW at, NEW after, NEW list \in Seq(Tasks), NEW here, Lists(at, list, here),
           \A u \in Tasks : at[u] = here => after[u] = here
    PROVE  Lists(after, list, here)
<1>1. \A i \in DOMAIN list : list[i] \in Tasks
  OBVIOUS
<1>2. QED
  BY <1>1 DEF Lists

\* ... when its first task leaves, ...
LEMMA LeaveList ==
    ASSUME NEW at, NEW after, NEW list \in Seq(Tasks), NEW here, list # <<>>,
           Lists(at, list, here), \A u \in Tasks \ {Head(list)} : after[u] = at[u]
    PROVE  at[Head(list)] = here /\ Lists(after, Tail(list), here)
<1> USE TailElements
<1>1. \A i \in 1 .. Len(list) - 1 : i + 1 \in DOMAIN list /\ i + 1 # 1
  OBVIOUS
<1>2. \A i \in DOMAIN list : list[i] \in Tasks
  OBVIOUS
<1>3. \A i \in DOMAIN Tail(list) : Tail(list)[i] \in Tasks \ {Head(list)} /\ at[Tail(list)[i]] = here
  BY <1>1, <1>2 DEF Lists
<1>4. \A i, j \in DOMAIN Tail(list) : Tail(list)[i] = Tail(list)[j] => i = j
  BY <1>1 DEF Lists
<1>5. at[Head(list)] = here
  BY DEF Lists
<1>6. QED
  BY <1>3, <1>4, <1>5 DEF Lists

\* ... and when a task from elsewhere joins its end.
LEMMA JoinList ==
    ASSUME NEW at, NEW after, NEW list \in Seq(Tasks), NEW here, NEW t \in Tasks,
           Lists(at, list, here), at[t] # here, after[t] = here,
           \A u \in Tasks \ {t} : after[u] = at[u]
    PROVE  Lists(after, Append(list, t), here)
<1> USE AppendElements
<1>1. \A i \in DOMAIN list : list[i] \in Tasks \ {t} /\ at[list[i]] = here
  BY DEF Lists
<1>2. \A i \in DOMAIN Append(list, t) : i \in DOMAIN list \/ i = Len(list) + 1
  OBVIOUS
<1>3. \A i \in DOMAIN Append(list, t) : after[Append(list, t)[i]] = here
  BY <1>1, <1>2
<1>4. \A i, j \in DOMAIN Append(list, t) : Append(list, t)[i] = Append(list, t)[j] => i = j
  BY <1>1, <1>2 DEF Lists
<1>5. QED
  BY <1>3, <1>4 DEF Lists

\* One task moves.
LEMMA MoveOne ==
    ASSUME QueueTypeOK, NEW t \in Tasks, NEW there \in Places, Move(t, there)
    PROVE  /\ place' \in [Tasks -> Places] /\ place'[t] = there
           /\ \A u \in Tasks \ {t} : place'[u] = place[u]
BY DEF QueueTypeOK, Move

\* Every action keeps every variable in its type.
LEMMA LoopTypeStep ==
    ASSUME LoopInv, [QueueNext]_queueVars
    PROVE  QueueTypeOK'
<1>0. /\ QueueTypeOK
      /\ place \in [Tasks -> Places]
      /\ queue \in Seq(Tasks) /\ waiting \in Seq(Tasks) /\ executor \in Seq(Tasks)
      /\ free \in Nat /\ up \in BOOLEAN /\ crashes \in Nat
      /\ starts \in [Tasks -> Nat] /\ order \in Seq(Tasks)
      /\ Slots \in Nat
  BY WorkerAssumption DEF LoopInv, QueueTypeOK
<1>1. ASSUME NEW t \in Tasks, Push(t) PROVE QueueTypeOK'
  <2>1. place' \in [Tasks -> Places]
    BY <1>0, <1>1, MoveOne DEF Push, Places
  <2>2. Append(queue, t) \in Seq(Tasks)
    BY <1>0, AppendElements
  <2>3. queue' \in Seq(Tasks)
    BY <1>0, <1>1, <2>2 DEF Push
  <2>4. QED
    BY <1>0, <1>1, <2>1, <2>3 DEF Push, QueueTypeOK, KeepProcess, KeepRecords
<1>2. CASE Pop
  <2>1. Head(queue) \in Tasks /\ queue' \in Seq(Tasks)
    BY <1>0, <1>2, TailElements DEF Pop
  <2>2. place' \in [Tasks -> Places]
    BY <1>0, <1>2, <2>1, MoveOne DEF Pop, Places
  <2>3. waiting' \in Seq(Tasks) /\ order' \in Seq(Tasks)
    BY <1>0, <1>2, <2>1, AppendElements DEF Pop
  <2>4. QED
    BY <1>0, <1>2, <2>1, <2>2, <2>3 DEF Pop, QueueTypeOK, KeepProcess
<1>3. CASE PopLost
  <2>1. Head(queue) \in Tasks /\ queue' \in Seq(Tasks)
    BY <1>0, <1>3, TailElements DEF PopLost
  <2>2. place' \in [Tasks -> Places]
    BY <1>0, <1>3, <2>1, MoveOne DEF PopLost, Places
  <2>3. QED
    BY <1>0, <1>3, <2>1, <2>2 DEF PopLost, QueueTypeOK, KeepProcess, KeepRecords
<1>4. CASE Acquire
  <2>1. Head(waiting) \in Tasks /\ waiting' \in Seq(Tasks)
    BY <1>0, <1>4, TailElements DEF Acquire
  <2>2. place' \in [Tasks -> Places]
    BY <1>0, <1>4, <2>1, MoveOne DEF Acquire, Places
  <2>3. executor' \in Seq(Tasks)
    <3>1. Append(executor, Head(waiting)) \in Seq(Tasks)
      BY <1>0, <2>1, AppendElements
    <3>2. QED
      BY <1>0, <1>4, <3>1 DEF Acquire
  <2>4. free' \in Nat
    BY <1>0, <1>4 DEF Acquire
  <2>5. starts' \in [Tasks -> Nat]
    BY <1>0, <1>4, <2>1 DEF Acquire
  <2>6. QED
    BY <1>0, <1>4, <2>1, <2>2, <2>3, <2>4, <2>5 DEF Acquire, QueueTypeOK, KeepProcess
<1>5. CASE StartBatch
  <2>1. Head(executor) \in Tasks /\ executor' \in Seq(Tasks)
    BY <1>0, <1>5, TailElements DEF StartBatch
  <2>2. place' \in [Tasks -> Places]
    BY <1>0, <1>5, <2>1, MoveOne DEF StartBatch, Places
  <2>3. QED
    BY <1>0, <1>5, <2>1, <2>2 DEF StartBatch, QueueTypeOK, KeepProcess, KeepRecords
<1>6. ASSUME NEW t \in Tasks,
             BatchEnds(t) \/ Provisioned(t) \/ ProvisionFails(t) \/ RelayEnds(t) \/ Leave(t)
      PROVE  QueueTypeOK'
  <2>1. place' \in [Tasks -> Places]
    BY <1>0, <1>6, MoveOne
       DEF BatchEnds, Provisioned, ProvisionFails, RelayEnds, Leave, Places
  <2>2. free' \in Nat /\ UNCHANGED <<queue, waiting, executor, up, crashes, starts, order>>
    BY <1>0, <1>6 DEF BatchEnds, Provisioned, ProvisionFails, RelayEnds, Leave,
       KeepProcess, KeepRecords
  <2>3. QED
    BY <1>0, <2>1, <2>2 DEF QueueTypeOK
<1>7. CASE Crash
  <2>1. place' \in [Tasks -> Places]
    BY <1>0, <1>7 DEF Crash, Places
  <2>2. waiting' \in Seq(Tasks) /\ executor' \in Seq(Tasks)
    BY <1>7, EmptySeq DEF Crash
  <2>3. queue' = queue /\ free' = free /\ crashes' \in Nat /\ starts' = starts /\ order' = order
    BY <1>0, <1>7 DEF Crash, KeepRecords
  <2>4. up' \in BOOLEAN
    BY <1>7 DEF Crash
  <2>5. QED
    BY <1>0, <2>1, <2>2, <2>3, <2>4 DEF QueueTypeOK
<1>8. CASE Restart
  BY <1>0, <1>8 DEF Restart, QueueTypeOK, KeepRecords
<1>9. CASE UNCHANGED queueVars
  BY <1>0, <1>9 DEF queueVars, QueueTypeOK
<1>10. QED
  BY <1>1, <1>2, <1>3, <1>4, <1>5, <1>6, <1>7, <1>8, <1>9 DEF QueueNext, Work

\* Every action keeps each list in step with the places of its tasks.
LEMMA ListStep ==
    ASSUME LoopInv, [QueueNext]_queueVars
    PROVE  ListInv'
<1> USE DEF LoopInv, ListInv
<1>0. /\ queue \in Seq(Tasks) /\ waiting \in Seq(Tasks) /\ executor \in Seq(Tasks)
      /\ place \in [Tasks -> Places]
  BY DEF QueueTypeOK
<1>1. ASSUME UNCHANGED <<queue, waiting, executor>>,
             \A u \in Tasks : place[u] \in {"queued", "waiting", "submitted"} => place'[u] = place[u]
      PROVE  ListInv'
  BY <1>0, <1>1, KeepList
<1>2. ASSUME NEW t \in Tasks, Push(t) PROVE ListInv'
  <2>1. CASE Move(t, "queued") /\ queue' = Append(queue, t)
    <3>1. place'[t] = "queued" /\ \A u \in Tasks \ {t} : place'[u] = place[u]
      BY <2>1, MoveOne DEF Places
    <3>2. place[t] = "new" /\ UNCHANGED <<waiting, executor>>
      BY <1>2 DEF Push
    <3>3. Lists(place', queue', "queued")
      BY <1>0, <2>1, <3>1, <3>2, JoinList
    <3>4. QED
      BY <1>0, <3>1, <3>2, <3>3, KeepList
  <2>2. CASE Move(t, "refused") /\ UNCHANGED queue
    BY <1>0, <1>1, <1>2, <2>2 DEF Push, Move
  <2>3. QED
    BY <1>2, <2>1, <2>2 DEF Push
<1>3. CASE Pop \/ PopLost
  <2> DEFINE t == Head(queue)
  <2>1. queue # <<>> /\ t \in Tasks /\ queue' = Tail(queue) /\ UNCHANGED executor
    BY <1>0, <1>3, TailElements DEF Pop, PopLost
  <2>2. /\ place'[t] \in {"waiting", "lost"}
        /\ \A u \in Tasks \ {t} : place'[u] = place[u]
    BY <1>3, <2>1, MoveOne DEF Pop, PopLost, Places
  <2>3. place[t] = "queued" /\ Lists(place', queue', "queued")
    BY <1>0, <2>1, <2>2, LeaveList
  <2>4. Lists(place', executor', "submitted")
    BY <1>0, <2>1, <2>2, <2>3, KeepList
  <2>5. Lists(place', waiting', "waiting")
    <3>1. CASE Pop
      <4>1. place'[t] = "waiting" /\ waiting' = Append(waiting, t)
        BY <2>1, <3>1, MoveOne DEF Pop, Places
      <4>2. QED
        BY <1>0, <2>1, <2>2, <2>3, <4>1, JoinList
    <3>2. CASE PopLost
      BY <1>0, <2>1, <2>2, <2>3, <3>2, KeepList DEF PopLost
    <3>3. QED
      BY <1>3, <3>1, <3>2
  <2>6. QED
    BY <2>3, <2>4, <2>5
<1>4. CASE Acquire
  <2> DEFINE t == Head(waiting)
  <2>1. waiting # <<>> /\ t \in Tasks /\ waiting' = Tail(waiting) /\ UNCHANGED queue
    BY <1>0, <1>4, TailElements DEF Acquire
  <2>2. /\ \/ place'[t] = "provisioning" /\ executor' = executor
           \/ place'[t] = "submitted" /\ executor' = Append(executor, t)
        /\ \A u \in Tasks \ {t} : place'[u] = place[u]
    BY <1>4, <2>1, MoveOne DEF Acquire, Places
  <2>3. place[t] = "waiting" /\ Lists(place', waiting', "waiting")
    BY <1>0, <2>1, <2>2, LeaveList
  <2>4. Lists(place', queue', "queued")
    BY <1>0, <2>1, <2>2, <2>3, KeepList
  <2>5. Lists(place', executor', "submitted")
    <3>1. CASE place'[t] = "provisioning" /\ executor' = executor
      BY <1>0, <2>1, <2>2, <2>3, <3>1, KeepList
    <3>2. CASE place'[t] = "submitted" /\ executor' = Append(executor, t)
      BY <1>0, <2>1, <2>2, <2>3, <3>2, JoinList
    <3>3. QED
      BY <2>2, <3>1, <3>2
  <2>6. QED
    BY <2>3, <2>4, <2>5
<1>5. CASE StartBatch
  <2> DEFINE t == Head(executor)
  <2>1. executor # <<>> /\ t \in Tasks /\ executor' = Tail(executor) /\ UNCHANGED <<queue, waiting>>
    BY <1>0, <1>5, TailElements DEF StartBatch
  <2>2. place'[t] = "running" /\ \A u \in Tasks \ {t} : place'[u] = place[u]
    BY <1>5, <2>1, MoveOne DEF StartBatch, Places
  <2>3. place[t] = "submitted" /\ Lists(place', executor', "submitted")
    BY <1>0, <2>1, <2>2, LeaveList
  <2>4. QED
    BY <1>0, <2>1, <2>2, <2>3, KeepList
<1>6. ASSUME NEW t \in Tasks,
             BatchEnds(t) \/ Provisioned(t) \/ ProvisionFails(t) \/ RelayEnds(t) \/ Leave(t)
      PROVE  ListInv'
  BY <1>0, <1>1, <1>6
     DEF BatchEnds, Provisioned, ProvisionFails, RelayEnds, Leave, Move
<1>7. CASE Crash
  <2>1. \A u \in Tasks : place[u] = "queued" => place'[u] = "queued"
    BY <1>7 DEF Crash, InWorker, HoldsSlot
  <2>2. waiting' = <<>> /\ executor' = <<>> /\ queue' = queue
    BY <1>7 DEF Crash
  <2>3. Lists(place', queue', "queued")
    BY <1>0, <2>1, <2>2, KeepList
  <2>4. QED
    BY <2>2, <2>3 DEF Lists
<1>8. CASE Restart
  BY <1>1, <1>8 DEF Restart, KeepRecords
<1>9. CASE UNCHANGED queueVars
  BY <1>1, <1>9 DEF queueVars
<1>10. QED
  BY <1>2, <1>3, <1>4, <1>5, <1>6, <1>7, <1>8, <1>9 DEF QueueNext, Work

\* Every action keeps the slots that are free and the ones that are held together.
LEMMA SlotStep ==
    ASSUME LoopInv, [QueueNext]_queueVars
    PROVE  SlotInv'
<1> USE DEF LoopInv, SlotInv
<1>0. /\ queue \in Seq(Tasks) /\ waiting \in Seq(Tasks) /\ executor \in Seq(Tasks)
      /\ place \in [Tasks -> Places] /\ free \in Nat /\ up \in BOOLEAN
      /\ IsFiniteSet(Holders) /\ Cardinality(Holders) \in Nat /\ Slots \in Nat
  BY FS_CardinalityType, WorkerAssumption DEF QueueTypeOK
<1>1. ASSUME \A u \in Tasks : place'[u] \in HoldsSlot <=> place[u] \in HoldsSlot,
             free' = free, up' = up,
             ~up => \A u \in Tasks : place'[u] \in InWorker => place[u] \in InWorker
      PROVE  SlotInv'
  <2>1. Holders' = Holders
    BY <1>1 DEF Holders
  <2>2. QED
    BY <1>0, <1>1, <2>1
<1>2. ASSUME NEW t \in Tasks, Push(t) PROVE SlotInv'
  <2>1. /\ place[t] = "new" /\ place'[t] \in {"queued", "refused"}
        /\ \A u \in Tasks \ {t} : place'[u] = place[u]
    BY <1>0, <1>2 DEF Push, Move
  <2>2. QED
    BY <1>1, <1>2, <2>1 DEF Push, KeepProcess, HoldsSlot, InWorker
<1>3. CASE Pop \/ PopLost
  <2> DEFINE t == Head(queue)
  <2>1. up /\ up' = up /\ free' = free /\ t \in Tasks /\ place[t] = "queued"
    BY <1>0, <1>3, TailElements DEF Pop, PopLost, LoopRuns, KeepProcess, ListInv, Lists
  <2>2. place'[t] \in {"waiting", "lost"} /\ \A u \in Tasks \ {t} : place'[u] = place[u]
    BY <1>0, <1>3, <2>1 DEF Pop, PopLost, Move
  <2>3. QED
    BY <1>1, <2>1, <2>2 DEF HoldsSlot
<1>4. CASE Acquire
  <2> DEFINE t == Head(waiting)
  <2>1. /\ up /\ up' = up /\ free > 0 /\ free' = free - 1
        /\ t \in Tasks /\ place[t] = "waiting"
    BY <1>0, <1>4, TailElements DEF Acquire, LoopRuns, KeepProcess, ListInv, Lists
  <2>2. /\ place'[t] \in {"provisioning", "submitted"}
        /\ \A u \in Tasks \ {t} : place'[u] = place[u]
    BY <1>0, <1>4, <2>1 DEF Acquire, Move
  <2>3. Holders' = Holders \cup {t} /\ t \notin Holders
    BY <2>1, <2>2 DEF Holders, HoldsSlot
  <2>4. IsFiniteSet(Holders') /\ Cardinality(Holders') = Cardinality(Holders) + 1
    BY <1>0, <2>3, FS_AddElement
  <2>5. QED
    BY <1>0, <2>1, <2>4
<1>5. CASE StartBatch
  <2> DEFINE t == Head(executor)
  <2>1. up /\ up' = up /\ free' = free /\ t \in Tasks /\ place[t] = "submitted"
    BY <1>0, <1>5, TailElements DEF StartBatch, KeepProcess, ListInv, Lists
  <2>2. place'[t] = "running" /\ \A u \in Tasks \ {t} : place'[u] = place[u]
    BY <1>0, <1>5, <2>1 DEF StartBatch, Move
  <2>3. QED
    BY <1>1, <2>1, <2>2 DEF HoldsSlot
<1>6. ASSUME NEW t \in Tasks,
             BatchEnds(t) \/ Provisioned(t) \/ ProvisionFails(t) \/ RelayEnds(t)
      PROVE  SlotInv'
  <2>1. up /\ up' = up /\ free' = free
    BY <1>6 DEF BatchEnds, Provisioned, ProvisionFails, RelayEnds, LoopRuns, KeepProcess
  <2>2. /\ place[t] \in HoldsSlot /\ place'[t] \in HoldsSlot
        /\ \A u \in Tasks \ {t} : place'[u] = place[u]
    BY <1>0, <1>6 DEF BatchEnds, Provisioned, ProvisionFails, RelayEnds, Move, HoldsSlot
  <2>3. QED
    BY <1>1, <2>1, <2>2
<1>7. ASSUME NEW t \in Tasks, Leave(t) PROVE SlotInv'
  <2>1. /\ up /\ up' = up /\ free' = free + 1
        /\ place[t] = "returned" /\ place'[t] = "done"
        /\ \A u \in Tasks \ {t} : place'[u] = place[u]
    BY <1>0, <1>7 DEF Leave, LoopRuns, KeepProcess, Move
  <2>2. Holders' = Holders \ {t} /\ t \in Holders
    BY <2>1 DEF Holders, HoldsSlot
  <2>3. IsFiniteSet(Holders') /\ Cardinality(Holders') = Cardinality(Holders) - 1
    BY <1>0, <2>2, FS_RemoveElement
  <2>4. QED
    BY <1>0, <2>1, <2>3
<1>8. CASE Crash
  <2>1. ~up' /\ \A u \in Tasks : place'[u] \notin InWorker
    BY <1>8 DEF Crash, InWorker, HoldsSlot
  <2>2. Holders' = {}
    BY <2>1 DEF Holders, InWorker
  <2>3. QED
    BY <2>1, <2>2, FS_EmptySet
<1>9. CASE Restart
  <2>1. ~up /\ up' /\ free' = Slots /\ place' = place
    BY <1>9 DEF Restart
  <2>2. Holders = {} /\ Holders' = {}
    BY <2>1 DEF Holders, InWorker
  <2>3. QED
    BY <1>0, <2>1, <2>2, FS_EmptySet
<1>10. CASE UNCHANGED queueVars
  BY <1>1, <1>10 DEF queueVars
<1>11. QED
  BY <1>2, <1>3, <1>4, <1>5, <1>6, <1>7, <1>8, <1>9, <1>10 DEF QueueNext, Work

\* Every action gives a task to its handler when it leaves the semaphore, and only then.
LEMMA StartStep ==
    ASSUME LoopInv, [QueueNext]_queueVars
    PROVE  StartInv'
<1> USE DEF LoopInv, StartInv
<1>0. /\ queue \in Seq(Tasks) /\ waiting \in Seq(Tasks) /\ executor \in Seq(Tasks)
      /\ place \in [Tasks -> Places] /\ starts \in [Tasks -> Nat]
  BY DEF QueueTypeOK
<1>1. ASSUME starts' = starts,
             \A u \in Tasks : \/ place'[u] = place[u] \/ place'[u] = "lost"
                              \/ place[u] = "new" /\ place'[u] \in {"queued", "refused"}
                              \/ place[u] = "queued" /\ place'[u] = "waiting"
                              \/ place[u] \in HoldsSlot /\ place'[u] \in HoldsSlot \cup {"done"}
      PROVE  StartInv'
  <2>1. SUFFICES ASSUME NEW u \in Tasks
                 PROVE  /\ starts'[u] <= 1
                        /\ place'[u] \in {"new", "refused", "queued", "waiting"} => starts'[u] = 0
                        /\ place'[u] \in HoldsSlot \cup {"done"} => starts'[u] = 1
    OBVIOUS
  <2>2. QED
    BY <1>1, <2>1 DEF HoldsSlot
<1>2. ASSUME NEW t \in Tasks, Push(t) PROVE StartInv'
  BY <1>0, <1>1, <1>2 DEF Push, Move, KeepRecords
<1>3. CASE Pop \/ PopLost
  <2> DEFINE t == Head(queue)
  <2>1. t \in Tasks /\ place[t] = "queued"
    BY <1>0, <1>3, TailElements DEF Pop, PopLost, ListInv, Lists
  <2>2. /\ place'[t] \in {"waiting", "lost"} /\ \A u \in Tasks \ {t} : place'[u] = place[u]
        /\ starts' = starts
    BY <1>0, <1>3, <2>1 DEF Pop, PopLost, Move, KeepRecords
  <2>3. QED
    BY <1>1, <2>1, <2>2
<1>4. CASE Acquire
  <2> DEFINE t == Head(waiting)
  <2>1. t \in Tasks /\ place[t] = "waiting"
    BY <1>0, <1>4, TailElements DEF Acquire, ListInv, Lists
  <2>2. /\ place'[t] \in {"provisioning", "submitted"}
        /\ starts'[t] = starts[t] + 1
        /\ \A u \in Tasks \ {t} : place'[u] = place[u] /\ starts'[u] = starts[u]
    BY <1>0, <1>4, <2>1 DEF Acquire, Move
  <2>3. starts'[t] = 1
    BY <1>0, <2>1, <2>2
  <2>4. QED
    BY <1>0, <2>2, <2>3 DEF HoldsSlot
<1>5. CASE StartBatch
  <2> DEFINE t == Head(executor)
  <2>1. t \in Tasks /\ place[t] = "submitted"
    BY <1>0, <1>5, TailElements DEF StartBatch, ListInv, Lists
  <2>2. place'[t] = "running" /\ \A u \in Tasks \ {t} : place'[u] = place[u]
    BY <1>0, <1>5, <2>1 DEF StartBatch, Move
  <2>3. QED
    BY <1>1, <1>5, <2>1, <2>2 DEF StartBatch, KeepRecords, HoldsSlot
<1>6. ASSUME NEW t \in Tasks,
             BatchEnds(t) \/ Provisioned(t) \/ ProvisionFails(t) \/ RelayEnds(t) \/ Leave(t)
      PROVE  StartInv'
  <2>1. /\ place[t] \in HoldsSlot /\ place'[t] \in HoldsSlot \cup {"done"}
        /\ \A u \in Tasks \ {t} : place'[u] = place[u]
        /\ starts' = starts
    BY <1>0, <1>6 DEF BatchEnds, Provisioned, ProvisionFails, RelayEnds, Leave, Move,
       HoldsSlot, KeepRecords
  <2>2. QED
    BY <1>1, <2>1
<1>7. CASE Crash
  <2>1. \A u \in Tasks : place'[u] \in {place[u], "lost"}
    BY <1>7 DEF Crash
  <2>2. QED
    BY <1>1, <1>7, <2>1 DEF Crash, KeepRecords
<1>8. CASE Restart
  BY <1>1, <1>8 DEF Restart, KeepRecords
<1>9. CASE UNCHANGED queueVars
  BY <1>1, <1>9 DEF queueVars
<1>10. QED
  BY <1>2, <1>3, <1>4, <1>5, <1>6, <1>7, <1>8, <1>9 DEF QueueNext, Work

\* Every action keeps the waiting tasks behind the started ones.
LEMMA OrderStep ==
    ASSUME LoopInv, [QueueNext]_queueVars
    PROVE  OrderInv'
<1> USE DEF LoopInv, OrderInv, Ahead
<1>0. /\ queue \in Seq(Tasks) /\ waiting \in Seq(Tasks) /\ executor \in Seq(Tasks)
      /\ order \in Seq(Tasks) /\ Len(order) \in Nat /\ Len(waiting) \in Nat
      /\ \A i \in 1 .. Len(order) : order[i] \in Tasks
      /\ place \in [Tasks -> Places] /\ starts \in [Tasks -> Nat]
  BY DEF QueueTypeOK
<1>1. ASSUME order' = order, waiting' = waiting, starts' = starts,
             \A u \in Tasks : place[u] = "lost" => place'[u] = "lost"
      PROVE  OrderInv'
  <2>1. \A i \in 1 .. Ahead : order[i] \in Tasks
    BY <1>0
  <2>2. QED
    BY <1>1, <2>1
<1>2. ASSUME NEW t \in Tasks, Push(t) PROVE OrderInv'
  BY <1>0, <1>1, <1>2 DEF Push, Move, KeepRecords
<1>3. CASE Pop
  <2> DEFINE t == Head(queue)
  <2>1. /\ t \in Tasks /\ place[t] = "queued"
        /\ waiting' = Append(waiting, t) /\ order' = Append(order, t) /\ starts' = starts
    BY <1>0, <1>3, TailElements DEF Pop, ListInv, Lists
  <2>2. \A u \in Tasks \ {t} : place'[u] = place[u]
    BY <1>0, <1>3, <2>1 DEF Pop, Move
  <2>3. Len(waiting') = Len(waiting) + 1 /\ Len(order') = Len(order) + 1 /\ Ahead' = Ahead
    BY <1>0, <2>1, AppendElements
  <2>4. ASSUME NEW k \in 1 .. Len(waiting') PROVE waiting'[k] = order'[Ahead' + k]
    <3>1. CASE k = Len(waiting')
      BY <1>0, <2>1, <2>3, <3>1, AppendElements
    <3>2. CASE k # Len(waiting')
      <4>1. k \in 1 .. Len(waiting) /\ Ahead + k \in 1 .. Len(order)
        BY <1>0, <2>3, <3>2
      <4>2. waiting'[k] = waiting[k] /\ order'[Ahead + k] = order[Ahead + k]
        BY <1>0, <2>1, <4>1, AppendElements
      <4>3. QED
        BY <2>3, <4>1, <4>2
    <3>3. QED
      BY <3>1, <3>2
  <2>5. ASSUME NEW i \in 1 .. Ahead' PROVE starts'[order'[i]] = 1 \/ place'[order'[i]] = "lost"
    <3>1. i \in 1 .. Ahead /\ i \in 1 .. Len(order)
      BY <1>0, <2>3
    <3>2. order'[i] = order[i] /\ order[i] \in Tasks
      BY <1>0, <2>1, <3>1, AppendElements
    <3>3. QED
      BY <2>1, <2>2, <3>1, <3>2
  <2>6. Len(waiting') <= Len(order')
    BY <1>0, <2>3
  <2>7. QED
    BY <2>4, <2>5, <2>6
<1>4. CASE PopLost
  <2> DEFINE t == Head(queue)
  <2>1. t \in Tasks
    BY <1>0, <1>4, TailElements DEF PopLost
  <2>2. \A u \in Tasks : place[u] = "lost" => place'[u] = "lost"
    BY <1>0, <1>4, <2>1 DEF PopLost, Move
  <2>3. QED
    BY <1>1, <1>4, <2>2 DEF PopLost, KeepRecords
<1>5. CASE Acquire
  <2> DEFINE t == Head(waiting)
  <2>1. /\ t \in Tasks /\ t = waiting[1] /\ place[t] = "waiting" /\ starts[t] = 0
        /\ Len(waiting) > 0 /\ waiting' = Tail(waiting) /\ order' = order
    BY <1>0, <1>5, TailElements DEF Acquire, ListInv, Lists, StartInv
  <2>2. /\ \A u \in Tasks \ {t} : place'[u] = place[u] /\ starts'[u] = starts[u]
        /\ starts'[t] = 1
    BY <1>0, <1>5, <2>1 DEF Acquire, Move
  <2>3. Len(waiting') = Len(waiting) - 1 /\ Len(order') = Len(order) /\ Ahead' = Ahead + 1
    BY <1>0, <1>5, <2>1, TailElements DEF Acquire
  <2>4. ASSUME NEW k \in 1 .. Len(waiting') PROVE waiting'[k] = order'[Ahead' + k]
    <3>1. k + 1 \in 1 .. Len(waiting) /\ Len(waiting') \in Nat
      BY <1>0, <2>3
    <3>2. Ahead' + k = Ahead + (k + 1)
      BY <1>0, <2>3, <3>1
    <3>3. waiting'[k] = waiting[k + 1]
      BY <1>0, <2>1, <2>3, TailElements
    <3>4. QED
      BY <2>1, <3>1, <3>2, <3>3
  <2>5. ASSUME NEW i \in 1 .. Ahead + 1
        PROVE  starts'[order'[i]] = 1 \/ place'[order'[i]] = "lost"
    <3>1. CASE i = Ahead + 1
      <4>1. 1 \in 1 .. Len(waiting) /\ order[i] = t
        BY <1>0, <2>1, <3>1
      <4>2. QED
        BY <2>1, <2>2, <4>1
    <3>2. CASE i # Ahead + 1
      <4>1. \A a \in Int : \A n \in 1 .. a + 1 : n # a + 1 => n \in 1 .. a
        OBVIOUS
      <4>2. i \in 1 .. Ahead
        BY <1>0, <3>2, <4>1, Ahead \in Int
      <4>3. order[i] \in Tasks
        BY <1>0, <4>2
      <4>4. QED
        BY <2>1, <2>2, <4>2, <4>3
    <3>3. QED
      BY <3>1, <3>2
  <2>6. Len(waiting') <= Len(order')
    BY <1>0, <2>3
  <2>7. QED
    BY <2>3, <2>4, <2>5, <2>6
<1>6. CASE StartBatch
  <2> DEFINE t == Head(executor)
  <2>1. t \in Tasks /\ place[t] = "submitted"
    BY <1>0, <1>6, TailElements DEF StartBatch, ListInv, Lists
  <2>2. \A u \in Tasks : place[u] = "lost" => place'[u] = "lost"
    BY <1>0, <1>6, <2>1 DEF StartBatch, Move
  <2>3. QED
    BY <1>1, <1>6, <2>2 DEF StartBatch, KeepRecords
<1>7. ASSUME NEW t \in Tasks,
             BatchEnds(t) \/ Provisioned(t) \/ ProvisionFails(t) \/ RelayEnds(t) \/ Leave(t)
      PROVE  OrderInv'
  <2>1. \A u \in Tasks : place[u] = "lost" => place'[u] = "lost"
    BY <1>0, <1>7
       DEF BatchEnds, Provisioned, ProvisionFails, RelayEnds, Leave, Move
  <2>2. QED
    BY <1>1, <1>7, <2>1
       DEF BatchEnds, Provisioned, ProvisionFails, RelayEnds, Leave, KeepRecords
<1>8. CASE Crash
  <2>1. /\ waiting' = <<>> /\ Len(waiting') = 0 /\ order' = order /\ starts' = starts
        /\ \A u \in Tasks : place[u] = "lost" => place'[u] = "lost"
        /\ \A u \in Tasks : place[u] = "waiting" => place'[u] = "lost"
    BY <1>8 DEF Crash, KeepRecords, InWorker
  <2>2. ASSUME NEW i \in 1 .. Len(order)
        PROVE  starts'[order'[i]] = 1 \/ place'[order'[i]] = "lost"
    <3>1. CASE i <= Ahead
      <4>1. i \in 1 .. Ahead /\ order[i] \in Tasks
        BY <1>0, <3>1
      <4>2. QED
        BY <2>1, <4>1
    <3>2. CASE ~(i <= Ahead)
      <4>1. i - Ahead \in 1 .. Len(waiting) /\ i = Ahead + (i - Ahead)
        BY <1>0, <3>2
      <4>2. order[i] = waiting[i - Ahead] /\ order[i] \in Tasks
        BY <1>0, <4>1
      <4>3. place[order[i]] = "waiting"
        BY <1>0, <4>1, <4>2 DEF ListInv, Lists
      <4>4. QED
        BY <2>1, <4>2, <4>3
    <3>3. QED
      BY <3>1, <3>2
  <2>3. QED
    BY <1>0, <2>1, <2>2
<1>9. CASE Restart
  BY <1>1, <1>9 DEF Restart, KeepRecords
<1>10. CASE UNCHANGED queueVars
  BY <1>1, <1>10 DEF queueVars
<1>11. QED
  BY <1>2, <1>3, <1>4, <1>5, <1>6, <1>7, <1>8, <1>9, <1>10 DEF QueueNext, Work

LEMMA LoopInit ==
    ASSUME QueueInit
    PROVE  LoopInv
<1>1. /\ place = [t \in Tasks |-> "new"] /\ starts = [t \in Tasks |-> 0]
      /\ queue = <<>> /\ waiting = <<>> /\ executor = <<>> /\ order = <<>>
      /\ free = Slots /\ up = TRUE /\ crashes = 0 /\ Slots \in Nat
  BY WorkerAssumption DEF QueueInit
<1>2. /\ Len(waiting) = 0 /\ Len(order) = 0
      /\ queue \in Seq(Tasks) /\ waiting \in Seq(Tasks) /\ executor \in Seq(Tasks)
      /\ order \in Seq(Tasks)
  BY <1>1, EmptySeq
<1>3. QueueTypeOK
  BY <1>1, <1>2 DEF QueueTypeOK, Places
<1>4. ListInv
  BY <1>1 DEF ListInv, Lists
<1>5. Holders = {}
  BY <1>1 DEF Holders, HoldsSlot
<1>6. SlotInv
  BY <1>1, <1>5, FS_EmptySet DEF SlotInv
<1>7. StartInv
  <2> SUFFICES ASSUME NEW t \in Tasks
               PROVE  /\ starts[t] <= 1
                      /\ place[t] \in {"new", "refused", "queued", "waiting"} => starts[t] = 0
                      /\ place[t] \in HoldsSlot \cup {"done"} => starts[t] = 1
    BY DEF StartInv
  <2>1. place[t] = "new" /\ starts[t] = 0
    BY <1>1
  <2>2. QED
    BY <2>1 DEF HoldsSlot
<1>8. OrderInv
  BY <1>2 DEF OrderInv, Ahead
<1>9. QED
  BY <1>3, <1>4, <1>6, <1>7, <1>8 DEF LoopInv

LEMMA LoopInvariant ==
    QueueSpec => []LoopInv
<1>1. QueueInit => LoopInv
  BY LoopInit
<1>2. LoopInv /\ [QueueNext]_queueVars => LoopInv'
  BY LoopTypeStep, ListStep, SlotStep, StartStep, OrderStep DEF LoopInv
<1>3. QED
  BY <1>1, <1>2, PTL DEF QueueSpec

\* The semaphore loses no slot and gains none, through any number of failing handlers,
\* crashes and restarts; so no more handlers are at work than there are slots.
THEOREM SlotsAreKept ==
    QueueSpec => [](SlotsKept /\ Cardinality(Holders) <= Slots)
<1>1. LoopInv => SlotsKept
  BY DEF LoopInv, SlotInv, Holders, SlotsKept
<1>2. LoopInv => Cardinality(Holders) <= Slots
  <2> SUFFICES ASSUME LoopInv PROVE Cardinality(Holders) <= Slots
    OBVIOUS
  <2>1. free \in Nat /\ Slots \in Nat /\ Cardinality(Holders) \in Nat
    BY FS_CardinalityType, WorkerAssumption DEF LoopInv, SlotInv, QueueTypeOK
  <2>2. CASE up
    BY <2>1, <2>2 DEF LoopInv, SlotInv
  <2>3. CASE ~up
    <3>1. Holders = {}
      BY <2>3 DEF LoopInv, SlotInv, Holders, InWorker
    <3>2. QED
      BY <2>1, <3>1, FS_EmptySet
  <2>4. QED
    BY <2>2, <2>3
<1>3. QED
  BY <1>1, <1>2, LoopInvariant, PTL

\* Whatever fails, no task reaches its handler twice, and of two tasks in one worker the
\* one popped first is started first or lost with the worker.
THEOREM TasksInOrder ==
    QueueSpec => []HandledOnceInOrder
<1>1. LoopInv => HandledOnceInOrder
  <2> SUFFICES ASSUME LoopInv PROVE HandledOnceInOrder
    OBVIOUS
  <2>1. /\ order \in Seq(Tasks) /\ waiting \in Seq(Tasks)
        /\ Len(order) \in Nat /\ Len(waiting) \in Nat /\ DOMAIN order = 1 .. Len(order)
        /\ DOMAIN waiting = 1 .. Len(waiting)
    BY DEF LoopInv, QueueTypeOK
  <2>2. \A t \in Tasks : starts[t] <= 1
    BY DEF LoopInv, StartInv
  <2>3. ASSUME NEW i \in DOMAIN order, NEW j \in DOMAIN order, i < j, starts[order[j]] = 1
        PROVE  starts[order[i]] = 1 \/ place[order[i]] = "lost"
    <3>1. ASSUME j > Ahead PROVE FALSE
      <4>1. j - Ahead \in DOMAIN waiting /\ j = Ahead + (j - Ahead)
        BY <2>1, <3>1 DEF Ahead
      <4>2. order[j] = waiting[j - Ahead] /\ order[j] \in Tasks
        BY <2>1, <4>1 DEF LoopInv, OrderInv
      <4>3. place[order[j]] = "waiting"
        BY <4>1, <4>2 DEF LoopInv, ListInv, Lists
      <4>4. QED
        BY <2>3, <4>2, <4>3 DEF LoopInv, StartInv
    <3>2. i \in 1 .. Ahead
      BY <2>1, <2>3, <3>1 DEF Ahead
    <3>3. QED
      BY <3>2 DEF LoopInv, OrderInv
  <2>4. QED
    BY <2>2, <2>3 DEF HandledOnceInOrder
<1>2. QED
  BY <1>1, LoopInvariant, PTL

\* What is left of a task's way at each place.
Way == [new |-> 9, queued |-> 8, waiting |-> 7, submitted |-> 6, provisioning |-> 6,
        running |-> 5, relaying |-> 5, returned |-> 4, refused |-> 0, done |-> 0, lost |-> 0]

\* A task that stays in a list is behind no more of the others than before.
KeepsPlace(list, later, here) == \A i \in DOMAIN list :
    place'[list[i]] = here => \E j \in DOMAIN later : j <= i /\ later[j] = list[i]

Overtakes(t) ==
    \/ place'[t] # place[t] /\ Way[place'[t]] >= Way[place[t]]
    \/ ~KeepsPlace(queue, queue', "queued")
    \/ ~KeepsPlace(waiting, waiting', "waiting")
    \/ ~KeepsPlace(executor, executor', "submitted")

LEMMA KeptPlaces ==
    ASSUME NEW list \in Seq(Tasks), NEW later, NEW here,
           \/ later = list
           \/ \E e \in Tasks : later = Append(list, e)
           \/ list # <<>> /\ later = Tail(list) /\ place'[Head(list)] # here
           \/ \A i \in DOMAIN list : place'[list[i]] # here
    PROVE  KeepsPlace(list, later, here)
<1> SUFFICES ASSUME NEW i \in DOMAIN list, place'[list[i]] = here
             PROVE  \E j \in DOMAIN later : j <= i /\ later[j] = list[i]
  BY DEF KeepsPlace
<1>1. i \in 1 .. Len(list) /\ Len(list) \in Nat
  OBVIOUS
<1>2. CASE later = list
  BY <1>1, <1>2
<1>3. CASE \E e \in Tasks : later = Append(list, e)
  BY <1>1, <1>3, AppendElements
<1>4. CASE list # <<>> /\ later = Tail(list) /\ place'[Head(list)] # here
  <2>1. i # 1
    BY <1>4, TailElements
  <2>2. i - 1 \in 1 .. Len(list) - 1 /\ i - 1 <= i /\ (i - 1) + 1 = i
    BY <1>1, <2>1
  <2>3. i - 1 \in DOMAIN later /\ later[i - 1] = list[i]
    BY <1>4, <2>2, TailElements
  <2>4. QED
    BY <2>2, <2>3
<1>5. QED
  BY <1>2, <1>3, <1>4

LEMMA OvertakeStep ==
    ASSUME LoopInv, [QueueNext]_queueVars, NEW t \in Tasks
    PROVE  ~Overtakes(t)
<1> DEFINE Forward == \A u \in Tasks : place'[u] = place[u] \/ Way[place'[u]] < Way[place[u]]
<1>0. /\ queue \in Seq(Tasks) /\ waiting \in Seq(Tasks) /\ executor \in Seq(Tasks)
      /\ place \in [Tasks -> Places] /\ \A u \in Tasks : place[u] \in Places
  BY DEF LoopInv, QueueTypeOK
<1>1. SUFFICES /\ Forward
               /\ KeepsPlace(queue, queue', "queued")
               /\ KeepsPlace(waiting, waiting', "waiting")
               /\ KeepsPlace(executor, executor', "submitted")
  <2>1. ASSUME Forward, place'[t] # place[t] PROVE ~(Way[place'[t]] >= Way[place[t]])
    <3>1. Way[place'[t]] < Way[place[t]] /\ place[t] \in Places /\ place'[t] \in Places
      BY <1>0, <2>1, LoopTypeStep DEF QueueTypeOK
    <3>2. \A p \in Places : Way[p] \in Nat
      BY DEF Places, Way
    <3>3. QED
      BY <3>1, <3>2
  <2>2. QED
    BY <1>1, <2>1 DEF Overtakes
<1>2. ASSUME NEW u \in Tasks, Push(u)
      PROVE  Forward /\ (queue' = queue \/ queue' = Append(queue, u))
             /\ waiting' = waiting /\ executor' = executor
  BY <1>0, <1>2 DEF Push, Move, Way
<1>3. CASE Pop \/ PopLost
  <2>1. /\ queue # <<>> /\ queue' = Tail(queue) /\ Head(queue) \in Tasks
        /\ place[Head(queue)] = "queued" /\ executor' = executor
        /\ waiting' = waiting \/ waiting' = Append(waiting, Head(queue))
    BY <1>0, <1>3, TailElements DEF Pop, PopLost, LoopInv, ListInv, Lists
  <2>2. /\ place'[Head(queue)] \in {"waiting", "lost"}
        /\ \A u \in Tasks \ {Head(queue)} : place'[u] = place[u]
    BY <1>0, <1>3, <2>1 DEF Pop, PopLost, Move
  <2>3. Forward
    BY <2>1, <2>2 DEF Way
  <2>4. QED
    BY <1>0, <1>1, <2>1, <2>2, <2>3, KeptPlaces
<1>4. CASE Acquire
  <2>1. /\ waiting # <<>> /\ waiting' = Tail(waiting) /\ Head(waiting) \in Tasks
        /\ place[Head(waiting)] = "waiting" /\ queue' = queue
        /\ executor' = executor \/ executor' = Append(executor, Head(waiting))
    BY <1>0, <1>4, TailElements DEF Acquire, LoopInv, ListInv, Lists
  <2>2. /\ place'[Head(waiting)] \in {"provisioning", "submitted"}
        /\ \A u \in Tasks \ {Head(waiting)} : place'[u] = place[u]
    BY <1>0, <1>4, <2>1 DEF Acquire, Move
  <2>3. Forward
    BY <2>1, <2>2 DEF Way
  <2>4. QED
    BY <1>0, <1>1, <2>1, <2>2, <2>3, KeptPlaces
<1>5. CASE StartBatch
  <2>1. /\ executor # <<>> /\ executor' = Tail(executor) /\ Head(executor) \in Tasks
        /\ place[Head(executor)] = "submitted" /\ queue' = queue /\ waiting' = waiting
    BY <1>0, <1>5, TailElements DEF StartBatch, LoopInv, ListInv, Lists
  <2>2. /\ place'[Head(executor)] = "running"
        /\ \A u \in Tasks \ {Head(executor)} : place'[u] = place[u]
    BY <1>0, <1>5, <2>1 DEF StartBatch, Move
  <2>3. Forward
    BY <2>1, <2>2 DEF Way
  <2>4. QED
    BY <1>0, <1>1, <2>1, <2>2, <2>3, KeptPlaces
<1>6. ASSUME NEW u \in Tasks,
             BatchEnds(u) \/ Provisioned(u) \/ ProvisionFails(u) \/ RelayEnds(u) \/ Leave(u)
      PROVE  Forward /\ UNCHANGED <<queue, waiting, executor>>
  BY <1>0, <1>6 DEF BatchEnds, Provisioned, ProvisionFails, RelayEnds, Leave, Move, Way
<1>7. CASE Crash
  <2>1. Forward
    BY <1>0, <1>7 DEF Crash, InWorker, HoldsSlot, Way
  <2>2. /\ \A i \in DOMAIN waiting : place'[waiting[i]] = "lost"
        /\ \A i \in DOMAIN executor : place'[executor[i]] = "lost"
    BY <1>0, <1>7 DEF Crash, InWorker, HoldsSlot, LoopInv, ListInv, Lists
  <2>3. QED
    BY <1>0, <1>1, <1>7, <2>1, <2>2, KeptPlaces DEF Crash
<1>8. CASE Restart \/ UNCHANGED queueVars
  BY <1>0, <1>1, <1>8, KeptPlaces DEF Restart, queueVars
<1>9. QED
  BY <1>0, <1>1, <1>2, <1>3, <1>4, <1>5, <1>6, <1>7, <1>8, KeptPlaces DEF QueueNext, Work

\* No task is overtaken: it only goes forward, and while it stays in a list - in Redis, at
\* the semaphore, before the threads - no step puts another task in front of it.  How long
\* it waits is thus bounded by the tasks that came before, whatever arrives after it.
THEOREM NoTaskIsOvertaken ==
    QueueSpec => [][\A t \in Tasks : ~Overtakes(t)]_queueVars
<1>1. LoopInv /\ [QueueNext]_queueVars => [\A t \in Tasks : ~Overtakes(t)]_queueVars
  BY OvertakeStep
<1>2. QED
  BY <1>1, LoopInvariant, PTL DEF QueueSpec
=============================================================================
