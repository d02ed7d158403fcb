---------------------- MODULE ExecutionRelayProofs ----------------------
(***************************************************************************)
(* Proofs about ExecutionRelay, for any number of typed inputs.            *)
(*                                                                         *)
(* Statuses travel from the engine through two queues to the student, so   *)
(* each argument follows a status along that way: "executing" is under way *)
(* only once the relay listens (HeardInv), "completed" only once the       *)
(* engine has said so (ChargeInv), and the gateway leaves its loop with    *)
(* the first final status it shows (ShownInv).                             *)
(*                                                                         *)
(* A final status is published before the handler or its output coroutine  *)
(* leaves, and a gateway is subscribed until it forwards one: so none is   *)
(* lost (FinalIsNotLost).  Ranks bound what each handler still does        *)
(* (HandlersGoOn).                                                         *)
(***************************************************************************)
EXTENDS ExecutionRelay, TLAPS

Statuses == Final \cup {"queued", "provisioning", "executing", "running"}
Outputs == Final \cup {"running"}
Open == {"admit", "local", "queue", "relay"}
Relaying == {"announce", "relay", "cancel", "timedOut", "await"}
Announced == {"relay", "cancel", "timedOut", "await", "end"}

Has(q, m) == \E i \in DOMAIN q : q[i] = m

\* The types the arguments need.
TypeInv ==
    /\ shown \in Seq(Statuses) /\ statusCh \in Seq(Statuses)
    /\ engineOut \in Seq(Outputs)
    /\ typed \in Seq({"early", "ready", "number"})
    /\ outcome \in Final \cup {"none"}

\* Which handler serves which mode, and what has not begun yet.
ModeInv ==
    /\ gw = "local" => mode = "local"
    /\ gw = "queue" => mode # "local"
    /\ gw \in {"cancel", "bill"} => mode = "interactive"
    /\ wk \in {"subscribe"} \cup Relaying => mode = "interactive"
    /\ wk = "batch" => mode = "batch"
    /\ outT # "off" => mode = "interactive"
    /\ gw \in {"admit", "local", "queue"} => wk = "off"
    /\ wk # "off" => mode # "local"
    /\ wk \in {"off", "queued", "provision"} => engine = "off"

\* The gateway is in its loop until it has shown a final status.
ShownInv ==
    /\ mode = "batch" => ~Has(statusCh, "compile_error") /\ ~Has(statusCh, "timeout")
    /\ gw \in Open => \A s \in Final : ~Has(shown, s)
    /\ OneFinalShown

\* "executing", on its way, shown or answered, means that the relay listens.
HeardInv ==
    /\ wk \in Relaying => listening
    /\ mode = "interactive" =>
          (Has(statusCh, "executing") \/ Has(shown, "executing") \/ Has(typed, "ready")
              => wk \in Announced)
    /\ mode # "interactive" => typed = <<>>
    /\ ReadyInputHeard

\* "completed", on its way or noted, is the engine's own report.
ChargeInv ==
    /\ gw # "end" => charged = 0
    /\ charged \in 0 .. 1
    /\ mode = "interactive" =>
          (Has(engineOut, "completed") \/ Has(statusCh, "completed") \/ last = "completed"
              \/ charged = 1 => outcome = "completed" /\ engine = "closed")

IInv == TypeInv /\ ModeInv /\ ShownInv /\ HeardInv /\ ChargeInv

-----------------------------------------------------------------------------
(* Queues                                                                    *)

LEMMA TailHas ==
    ASSUME NEW S, NEW q \in Seq(S), q # <<>>
    PROVE  /\ Head(q) \in S /\ Tail(q) \in Seq(S) /\ Has(q, Head(q))
           /\ \A m : Has(Tail(q), m) => Has(q, m)
<1>1. \A i \in DOMAIN Tail(q) : i + 1 \in DOMAIN q /\ Tail(q)[i] = q[i + 1]
  OBVIOUS
<1>2. 1 \in DOMAIN q /\ Head(q) = q[1]
  OBVIOUS
<1>3. QED
  BY <1>1, <1>2 DEF Has

LEMMA AppendHas ==
    ASSUME NEW S, NEW q \in Seq(S), NEW m \in S
    PROVE  /\ Append(q, m) \in Seq(S)
           /\ \A x : Has(Append(q, m), x) => Has(q, x) \/ x = m
           /\ \A i \in DOMAIN Append(q, m) : i = Len(Append(q, m)) \/ Has(q, Append(q, m)[i])
<1>1. \A i \in DOMAIN Append(q, m) :
        \/ i = Len(Append(q, m)) /\ Append(q, m)[i] = m
        \/ i \in DOMAIN q /\ Append(q, m)[i] = q[i]
  OBVIOUS
<1>2. QED
  BY <1>1 DEF Has

LEMMA PushHas ==
    ASSUME NEW S, NEW q \in Seq(S), NEW m \in S
    PROVE  /\ Push(q, m) \in Seq(S)
           /\ \A x : Has(Push(q, m), x) => Has(q, x) \/ x = m
           /\ \A i \in DOMAIN Push(q, m) : i = Len(Push(q, m)) \/ Has(q, Push(q, m)[i])
<1>1. CASE Push(q, m) = q
  BY <1>1 DEF Has
<1>2. CASE Push(q, m) = Append(q, m)
  BY <1>2, AppendHas
<1>3. QED
  BY <1>1, <1>2 DEF Push

LEMMA EmptyHas == \A m : ~Has(<<>>, m)
BY DEF Has

\* What a publication, or a message shown, adds.
LEMMA PublishHas ==
    ASSUME TypeInv, NEW s \in Statuses, PublishStatus(s)
    PROVE  /\ statusCh' \in Seq(Statuses)
           /\ \A x : Has(statusCh', x) => Has(statusCh, x) \/ x = s
BY PushHas DEF TypeInv, PublishStatus

LEMMA ShowHas ==
    ASSUME TypeInv, NEW s \in Statuses, Show(s)
    PROVE  /\ shown' \in Seq(Statuses)
           /\ \A x : Has(shown', x) => Has(shown, x) \/ x = s
           /\ (\A f \in Final : ~Has(shown, f)) => OneFinalShown'
<1>1. shown' \in Seq(Statuses) /\ \A x : Has(shown', x) => Has(shown, x) \/ x = s
  BY PushHas DEF TypeInv, Show
<1>2. ASSUME \A f \in Final : ~Has(shown, f) PROVE OneFinalShown'
  <2>1. \A i \in DOMAIN shown' : i = Len(shown') \/ Has(shown, shown'[i])
    BY PushHas DEF TypeInv, Show
  <2>2. QED
    BY <1>2, <2>1 DEF OneFinalShown
<1>3. QED
  BY <1>1, <1>2

LEMMA SameShown ==
    ASSUME shown' = shown
    PROVE  /\ OneFinalShown => OneFinalShown'
           /\ \A x : Has(shown', x) = Has(shown, x)
BY DEF OneFinalShown, Has

-----------------------------------------------------------------------------
(* The steps that change a variable.  Every other step leaves it alone.      *)

LEMMA WhoChanges ==
    ASSUME [Next]_vars
    PROVE  /\ mode' = mode
           /\ typed' = typed \/ ForwardInput \/ Type
           /\ shown' = shown \/ Reject \/ Subscribe \/ RunLocally \/ ForwardStatus \/ ForwardBatch
           /\ \/ statusCh' = statusCh \/ statusCh' = <<>>
              \/ statusCh # <<>> /\ statusCh' = Tail(statusCh)
              \/ TakeTask \/ PrepareFails \/ BatchExecuting \/ BatchEnds \/ Announce
              \/ ForwardOutput \/ OutputLost \/ RelayTimeout
           /\ engineOut' = engineOut \/ ForwardOutput \/ EngineOutput \/ EngineVerdict
           /\ last' = last \/ ForwardStatus
           /\ charged' = charged \/ RunLocally \/ Bill \/ ForwardBatch
           /\ outcome' = outcome \/ RunLocally \/ PrepareFails \/ BatchEnds \/ EngineVerdict \/ EngineLost
           /\ engine' = engine \/ BatchExecuting \/ BatchEnds \/ Connect \/ EngineVerdict \/ EngineLost
           /\ lost' = lost \/ ForwardInput \/ PublishCancel
BY DEF vars, Next, GatewayStep, Reject, Subscribe, RunLocally, Queue, ForwardStatus, CancelInput, Bill,
       ForwardBatch, InputStep, ForwardInput, PublishCancel, WorkerStep, TakeTask, PrepareFails,
       BatchExecuting, BatchEnds, Connect, ListenStdin, Announce, RelayDone, RelayTimeout,
       CancelStdin, AwaitOutput, OutputStep, ForwardOutput, OutputLost, SetCompleted, ForwardStdin,
       EngineOutput, EngineVerdict, EngineLost, Type, Leave, userVars, gwVars, wkVars, runVars

-----------------------------------------------------------------------------
(* What each step does to the queues, in one place.  The messages that enter *)
(* a queue, by the step that puts them there.                                *)

\* A status that is published comes from the worker's state or from the engine.
LEMMA StatusChange ==
    ASSUME TypeInv, [Next]_vars
    PROVE  /\ statusCh' \in Seq(Statuses)
           /\ \A x : Has(statusCh', x) =>
                \/ Has(statusCh, x)
                \/ TakeTask /\ x = "provisioning"
                \/ PrepareFails /\ x = "error"
                \/ BatchExecuting /\ x = "executing"
                \/ BatchEnds /\ x \in {"completed", "error"}
                \/ Announce /\ x = "executing"
                \/ ForwardOutput /\ Has(engineOut, x) /\ x # "executing"
                \/ (OutputLost \/ RelayTimeout) /\ x = "error"
<1>1. CASE statusCh' = statusCh
  BY <1>1 DEF TypeInv
<1>2. CASE statusCh' = <<>>
  BY <1>2, EmptyHas
<1>3. CASE statusCh # <<>> /\ statusCh' = Tail(statusCh)
  BY <1>3, TailHas DEF TypeInv
<1>4. CASE TakeTask
  BY <1>4, PublishHas DEF TakeTask, Statuses
<1>5. CASE PrepareFails
  BY <1>5, PublishHas DEF PrepareFails, Statuses, Final
<1>6. CASE BatchExecuting
  BY <1>6, PublishHas DEF BatchExecuting, Statuses
<1>7. CASE BatchEnds
  <2>1. PICK s \in {"completed", "error"} : PublishStatus(s)
    BY <1>7 DEF BatchEnds
  <2>2. QED
    BY <1>7, <2>1, PublishHas DEF Statuses, Final
<1>8. CASE Announce
  BY <1>8, PublishHas DEF Announce, Statuses
<1>9. CASE ForwardOutput
  <2>1. PublishStatus(Head(engineOut)) /\ engineOut # <<>>
    BY <1>9 DEF ForwardOutput
  <2>2. Head(engineOut) \in Outputs /\ Has(engineOut, Head(engineOut))
    BY <2>1, TailHas DEF TypeInv
  <2>3. Head(engineOut) \in Statuses /\ Head(engineOut) # "executing"
    BY <2>2 DEF Outputs, Statuses, Final
  <2>4. QED
    BY <1>9, <2>1, <2>2, <2>3, PublishHas
<1>10. CASE OutputLost \/ RelayTimeout
  <2>1. PublishStatus("error")
    BY <1>10 DEF OutputLost, RelayTimeout
  <2>2. QED
    BY <1>10, <2>1, PublishHas DEF Statuses, Final
<1>11. QED
  BY <1>1, <1>2, <1>3, <1>4, <1>5, <1>6, <1>7, <1>8, <1>9, <1>10, WhoChanges

\* What the student is shown is what the gateway says itself or takes from its
\* subscription.
LEMMA ShownChange ==
    ASSUME TypeInv, [Next]_vars
    PROVE  /\ shown' \in Seq(Statuses)
           /\ \A x : Has(shown', x) =>
                \/ Has(shown, x)
                \/ Reject /\ x = "error"
                \/ Subscribe /\ x = "queued"
                \/ RunLocally /\ x \in {"completed", "error"}
                \/ (ForwardStatus \/ ForwardBatch) /\ x = Head(statusCh) /\ Has(statusCh, x)
           /\ (\A f \in Final : ~Has(shown, f)) /\ OneFinalShown => OneFinalShown'
           /\ shown' = shown \/ gw \in Open
<1>1. CASE shown' = shown
  BY <1>1, SameShown DEF TypeInv
<1>2. CASE Reject
  BY <1>2, <1>1, ShowHas DEF Reject, Open, Statuses, Final
<1>3. CASE Subscribe
  BY <1>3, <1>1, ShowHas DEF Subscribe, Open, Statuses
<1>4. CASE RunLocally
  <2>1. outcome' \in {"completed", "error"} /\ gw \in Open
    BY <1>4 DEF RunLocally, Open
  <2>2. QED
    BY <1>4, <1>1, <2>1, ShowHas DEF RunLocally, Statuses, Final
<1>5. CASE ForwardStatus
  <2>1. Head(statusCh) \in Statuses /\ Has(statusCh, Head(statusCh))
    BY <1>5, TailHas DEF ForwardStatus, TypeInv
  <2>2. QED
    BY <1>5, <1>1, <2>1, ShowHas DEF ForwardStatus, Open
<1>6. CASE ForwardBatch
  <2>1. Head(statusCh) \in Statuses /\ Has(statusCh, Head(statusCh))
    BY <1>6, TailHas DEF ForwardBatch, TypeInv
  <2>2. QED
    BY <1>6, <1>1, <2>1, ShowHas DEF ForwardBatch, Open
<1>7. QED
  BY <1>1, <1>2, <1>3, <1>4, <1>5, <1>6, WhoChanges

-----------------------------------------------------------------------------
(* The invariant                                                             *)

LEMMA InitHolds == Init => IInv
<1>1. ASSUME Init PROVE TypeInv /\ ModeInv
  BY <1>1 DEF Init, TypeInv, ModeInv, Relaying
<1>2. ASSUME Init PROVE ShownInv /\ HeardInv /\ ChargeInv
  BY <1>2, EmptyHas DEF Init, ShownInv, HeardInv, ChargeInv, OneFinalShown, ReadyInputHeard, Relaying
<1>3. QED
  BY <1>1, <1>2 DEF IInv

LEMMA TypeStep ==
    ASSUME TypeInv, [Next]_vars
    PROVE  TypeInv'
<1>1. statusCh' \in Seq(Statuses) /\ shown' \in Seq(Statuses)
  BY StatusChange, ShownChange
<1>2. engineOut' \in Seq(Outputs)
  <2>1. CASE engineOut' = engineOut
    BY <2>1 DEF TypeInv
  <2>2. CASE ForwardOutput
    BY <2>2, TailHas DEF ForwardOutput, TypeInv
  <2>3. CASE EngineOutput
    BY <2>3, PushHas DEF EngineOutput, TypeInv, Outputs
  <2>4. CASE EngineVerdict
    <3>1. PICK v \in Final : engineOut' = Append(engineOut, v)
      BY <2>4 DEF EngineVerdict
    <3>2. QED
      BY <3>1, AppendHas DEF TypeInv, Outputs
  <2>5. QED
    BY <2>1, <2>2, <2>3, <2>4, WhoChanges
<1>3. typed' \in Seq({"early", "ready", "number"})
  <2>1. CASE typed' = typed
    BY <2>1 DEF TypeInv
  <2>2. CASE ForwardInput
    BY <2>2, TailHas DEF ForwardInput, TypeInv
  <2>3. CASE Type
    <3>1. PICK m \in {"early", "ready", "number"} : typed' = Append(typed, m)
      BY <2>3 DEF Type
    <3>2. QED
      BY <3>1, AppendHas DEF TypeInv
  <2>4. QED
    BY <2>1, <2>2, <2>3, WhoChanges
<1>4. outcome' \in Final \cup {"none"}
  BY WhoChanges DEF TypeInv, Final, RunLocally, PrepareFails, BatchEnds, EngineVerdict, EngineLost
<1>5. QED
  BY <1>1, <1>2, <1>3, <1>4 DEF TypeInv

LEMMA ModeStep ==
    ASSUME ModeInv, [Next]_vars
    PROVE  ModeInv'
<1> USE DEF ModeInv, Relaying, userVars, gwVars, wkVars, runVars
<1>1. CASE UNCHANGED vars \/ Reject \/ Subscribe \/ RunLocally \/ Queue
  BY <1>1 DEF vars, Reject, Subscribe, RunLocally, Queue
<1>2. CASE ForwardStatus \/ CancelInput \/ Bill \/ ForwardBatch
  BY <1>2 DEF ForwardStatus, CancelInput, Bill, ForwardBatch
<1>3. CASE InputStep
  BY <1>3 DEF InputStep, ForwardInput, PublishCancel
<1>4. CASE TakeTask \/ PrepareFails \/ BatchExecuting \/ BatchEnds \/ Connect
  BY <1>4 DEF TakeTask, PrepareFails, BatchExecuting, BatchEnds, Connect
<1>5. CASE ListenStdin \/ Announce \/ RelayDone \/ RelayTimeout \/ CancelStdin \/ AwaitOutput
  BY <1>5 DEF ListenStdin, Announce, RelayDone, RelayTimeout, CancelStdin, AwaitOutput
<1>6. CASE OutputStep \/ ForwardStdin
  BY <1>6 DEF OutputStep, ForwardOutput, OutputLost, SetCompleted, ForwardStdin
<1>7. CASE EngineOutput \/ EngineVerdict \/ EngineLost \/ Type \/ Leave
  BY <1>7 DEF EngineOutput, EngineVerdict, EngineLost, Type, Leave
<1>8. QED
  BY <1>1, <1>2, <1>3, <1>4, <1>5, <1>6, <1>7 DEF Next, GatewayStep, WorkerStep

\* The gateway leaves its loop with the first final status.
LEMMA ShownStep ==
    ASSUME TypeInv, ModeInv, ShownInv, [Next]_vars
    PROVE  ShownInv'
<1>1. mode' = mode
  BY WhoChanges
<1>2. mode = "batch" => ~Has(statusCh', "compile_error") /\ ~Has(statusCh', "timeout")
  <2>1. mode = "batch" => ~ForwardOutput
    BY DEF ForwardOutput, ModeInv
  <2>2. QED
    BY <2>1, StatusChange DEF ShownInv
<1>3. gw' \in Open => gw \in Open
  BY DEF Open, vars, Next, GatewayStep, Reject, Subscribe, RunLocally, Queue, ForwardStatus,
         CancelInput, Bill, ForwardBatch, InputStep, ForwardInput, PublishCancel, WorkerStep, TakeTask,
         PrepareFails, BatchExecuting, BatchEnds, Connect, ListenStdin, Announce, RelayDone,
         RelayTimeout, CancelStdin, AwaitOutput, OutputStep, ForwardOutput, OutputLost, SetCompleted,
         ForwardStdin, EngineOutput, EngineVerdict, EngineLost, Type, Leave, gwVars
<1>4. OneFinalShown'
  <2>1. CASE gw \in Open
    BY <2>1, ShownChange DEF ShownInv
  <2>2. CASE gw \notin Open
    BY <2>2, ShownChange, SameShown DEF ShownInv
  <2>3. QED
    BY <2>1, <2>2
<1>5. ASSUME gw' \in Open, NEW s \in Final, Has(shown', s) PROVE FALSE
  <2>1. ~Has(shown, s)
    BY <1>3, <1>5 DEF ShownInv
  <2>2. ~Reject /\ ~RunLocally
    BY <1>5 DEF Reject, RunLocally, Open
  <2>3. s # "queued"
    BY DEF Final
  <2>4. (ForwardStatus \/ ForwardBatch) /\ s = Head(statusCh) /\ Has(statusCh, s)
    BY <1>5, <2>1, <2>2, <2>3, ShownChange
  <2>5. ~ForwardStatus
    BY <1>5, <2>4 DEF ForwardStatus, Open
  <2>6. ForwardBatch /\ mode = "batch"
    BY <2>4, <2>5 DEF ForwardBatch
  <2>7. s \in {"completed", "error"}
    BY <2>4, <2>6 DEF ShownInv, Final
  <2>8. QED
    BY <1>5, <2>4, <2>6, <2>7 DEF ForwardBatch, Open
<1>6. QED
  BY <1>1, <1>2, <1>4, <1>5 DEF ShownInv

\* The worker announces the relay only once it listens, and stops listening only
\* when it ends.
LEMMA HeardStep ==
    ASSUME TypeInv, ModeInv, HeardInv, [Next]_vars
    PROVE  HeardInv'
<1>1. mode' = mode /\ (mode # "interactive" => typed' = <<>>)
  BY WhoChanges DEF HeardInv, ForwardInput, Type
<1>2. /\ wk' \in Relaying => listening'
      /\ wk \in Announced => wk' \in Announced
      /\ Announce => wk' \in Announced
  BY DEF HeardInv, ModeInv, Relaying, Announced, vars, Next, GatewayStep, Reject, Subscribe, RunLocally,
         Queue, ForwardStatus,
         CancelInput, Bill, ForwardBatch, InputStep, ForwardInput, PublishCancel, WorkerStep, TakeTask,
         PrepareFails, BatchExecuting, BatchEnds, Connect, ListenStdin, Announce, RelayDone,
         RelayTimeout, CancelStdin, AwaitOutput, OutputStep, ForwardOutput, OutputLost, SetCompleted,
         ForwardStdin, EngineOutput, EngineVerdict, EngineLost, Type, Leave, wkVars
<1>3. ASSUME mode = "interactive", Has(statusCh', "executing") PROVE wk' \in Announced
  <2>1. ~BatchExecuting
    BY <1>3 DEF BatchExecuting
  <2>2. Has(statusCh, "executing") \/ Announce
    BY <1>3, <2>1, StatusChange
  <2>3. QED
    BY <1>2, <1>3, <2>2 DEF HeardInv
<1>4. ASSUME mode = "interactive", Has(shown', "executing") PROVE wk' \in Announced
  <2>1. Has(shown, "executing") \/ Has(statusCh, "executing")
    BY <1>4, ShownChange
  <2>2. QED
    BY <1>2, <1>4, <2>1 DEF HeardInv
<1>5. ASSUME mode = "interactive", Has(typed', "ready") PROVE wk' \in Announced
  <2>1. Has(typed, "ready") \/ Has(shown, "executing")
    <3>1. CASE typed' = typed
      BY <1>5, <3>1 DEF Has
    <3>2. CASE ForwardInput
      BY <1>5, <3>2, TailHas DEF ForwardInput, TypeInv
    <3>3. CASE Type
      <4>1. CASE Has(shown, "executing")
        BY <4>1
      <4>2. CASE ~Has(shown, "executing")
        <5>1. PICK m \in {"early", "number"} : typed' = Append(typed, m)
          BY <3>3, <4>2 DEF Type, Has
        <5>2. QED
          BY <1>5, <5>1, AppendHas DEF TypeInv
      <4>3. QED
        BY <4>1, <4>2
    <3>4. QED
      BY <3>1, <3>2, <3>3, WhoChanges
  <2>2. QED
    BY <1>2, <1>5, <2>1 DEF HeardInv
<1>6. ReadyInputHeard'
  <2>1. CASE lost' = lost
    BY <2>1 DEF HeardInv, ReadyInputHeard
  <2>2. CASE ForwardInput
    <3>1. CASE Head(typed) = "ready"
      <4>1. typed # <<>> /\ Has(typed, "ready")
        BY <2>2, <3>1, TailHas DEF ForwardInput, TypeInv
      <4>2. mode = "interactive"
        BY <4>1 DEF HeardInv
      <4>3. wk = "end" \/ listening
        BY <4>1, <4>2 DEF HeardInv, Announced, Relaying
      <4>4. QED
        BY <2>2, <3>1, <4>3 DEF ForwardInput, PublishStdin, HeardInv, ReadyInputHeard
    <3>2. CASE Head(typed) # "ready"
      BY <2>2, <3>2 DEF ForwardInput, PublishStdin, HeardInv, ReadyInputHeard
    <3>3. QED
      BY <3>1, <3>2
  <2>3. CASE PublishCancel
    BY <2>3 DEF PublishCancel, PublishStdin, HeardInv, ReadyInputHeard
  <2>4. QED
    BY <2>1, <2>2, <2>3, WhoChanges
<1>7. QED
  BY <1>1, <1>2, <1>3, <1>4, <1>5, <1>6 DEF HeardInv

\* The engine says "completed" once, when it closes; nothing else puts it on the way
\* of an interactive session.
LEMMA ChargeStep ==
    ASSUME TypeInv, ModeInv, ChargeInv, [Next]_vars
    PROVE  ChargeInv'
<1>1. mode' = mode
  BY WhoChanges
<1>2. (gw' # "end" => charged' = 0) /\ charged' \in 0 .. 1
  <2>1. CASE RunLocally \/ Bill \/ ForwardBatch
    BY <2>1 DEF ChargeInv, RunLocally, Bill, ForwardBatch
  <2>2. CASE charged' = charged
    <3>1. gw' # "end" => gw # "end"
      BY DEF vars, Next, GatewayStep, Reject, Subscribe, RunLocally, Queue, ForwardStatus,
             CancelInput, Bill, ForwardBatch, InputStep, ForwardInput, PublishCancel, WorkerStep,
             TakeTask, PrepareFails, BatchExecuting, BatchEnds, Connect, ListenStdin, Announce,
             RelayDone, RelayTimeout, CancelStdin, AwaitOutput, OutputStep, ForwardOutput,
             OutputLost, SetCompleted, ForwardStdin, EngineOutput, EngineVerdict, EngineLost,
             Type, Leave, gwVars
    <3>2. QED
      BY <2>2, <3>1 DEF ChargeInv
  <2>3. QED
    BY <2>1, <2>2, WhoChanges
<1>3. SUFFICES ASSUME mode = "interactive",
                      \/ Has(engineOut', "completed") \/ Has(statusCh', "completed")
                      \/ last' = "completed" \/ charged' = 1
               PROVE  outcome' = "completed" /\ engine' = "closed"
  BY <1>1, <1>2 DEF ChargeInv
<1>4. ~RunLocally /\ ~ForwardBatch /\ ~BatchExecuting /\ ~BatchEnds
  BY <1>3 DEF RunLocally, ForwardBatch, BatchExecuting, BatchEnds, ModeInv
<1> DEFINE Said == \/ Has(engineOut, "completed") \/ Has(statusCh, "completed")
                   \/ last = "completed" \/ charged = 1
<1>5. Said \/ (EngineVerdict /\ Has(engineOut', "completed") /\ ~Has(engineOut, "completed"))
  <2>1. CASE Has(engineOut', "completed")
    <3>1. CASE engineOut' = engineOut
      BY <2>1, <3>1
    <3>2. CASE ForwardOutput
      BY <2>1, <3>2, TailHas DEF ForwardOutput, TypeInv
    <3>3. CASE EngineOutput
      <4>1. engineOut' = Push(engineOut, "running") /\ "running" \in Outputs
        BY <3>3 DEF EngineOutput, Outputs
      <4>2. engineOut \in Seq(Outputs)
        BY DEF TypeInv
      <4>3. QED
        BY <2>1, <4>1, <4>2, PushHas
    <3>4. CASE EngineVerdict
      BY <2>1, <3>4
    <3>5. QED
      BY <3>1, <3>2, <3>3, <3>4, WhoChanges
  <2>2. CASE Has(statusCh', "completed")
    BY <1>4, <2>2, StatusChange
  <2>3. CASE last' = "completed"
    BY <2>3, WhoChanges, TailHas DEF ForwardStatus, TypeInv
  <2>4. CASE charged' = 1
    BY <1>4, <2>4, WhoChanges DEF Bill
  <2>5. QED
    BY <1>3, <2>1, <2>2, <2>3, <2>4
<1>6. CASE Said
  <2>1. outcome = "completed" /\ engine = "closed"
    BY <1>3, <1>6 DEF ChargeInv
  <2>2. ~PrepareFails /\ ~Connect
    BY <2>1 DEF PrepareFails, Connect, ModeInv
  <2>3. ~EngineVerdict /\ ~EngineLost
    BY <2>1 DEF EngineVerdict, EngineLost
  <2>4. QED
    BY <1>4, <2>1, <2>2, <2>3, WhoChanges
<1>7. CASE EngineVerdict /\ Has(engineOut', "completed") /\ ~Has(engineOut, "completed")
  <2>1. PICK v \in Final : engineOut' = Append(engineOut, v) /\ outcome' = v
    BY <1>7 DEF EngineVerdict
  <2>2. v = "completed"
    BY <1>7, <2>1, AppendHas DEF TypeInv, Outputs
  <2>3. QED
    BY <1>7, <2>1, <2>2 DEF EngineVerdict
<1>8. QED
  BY <1>5, <1>6, <1>7

LEMMA Inductive == Spec => []IInv
<1>1. IInv /\ [Next]_vars => IInv'
  BY TypeStep, ModeStep, ShownStep, HeardStep, ChargeStep DEF IInv
<1>2. QED
  BY <1>1, InitHolds, PTL DEF Spec

-----------------------------------------------------------------------------
(* The theorems                                                              *)

\* The student receives at most one final status and nothing after it, though the
\* relay's timeout and the engine's verdict may both be published.
THEOREM OneFinal == Spec => []OneFinalShown
<1>1. IInv => OneFinalShown
  BY DEF IInv, ShownInv
<1>2. QED
  BY <1>1, Inductive, PTL

\* What a student types after "executing" is published to a relay that listens, or
\* after the run's end (relay_session subscribes before it announces itself).
THEOREM InputIsHeard == Spec => []ReadyInputHeard
<1>1. IInv => ReadyInputHeard
  BY DEF IInv, HeardInv
<1>2. QED
  BY <1>1, Inductive, PTL

\* An interactive session is charged at most once, and only for a run the engine
\* itself reported as completed.
THEOREM ChargedOnce == Spec => []InteractiveCharge
<1>1. IInv => InteractiveCharge
  BY DEF IInv, ChargeInv, InteractiveCharge
<1>2. QED
  BY <1>1, Inductive, PTL

LEMMA RestTypeStep ==
    ASSUME TypeOK, TypeInv', ChargeInv', [Next]_vars
    PROVE  TypeOK'
<1> USE DEF TypeOK, userVars, gwVars, wkVars, runVars, PublishStdin
<1>1. charged' \in 0 .. 1 /\ outcome' \in Final \cup {"none"}
  BY DEF TypeInv, ChargeInv
<1>2. CASE GatewayStep
  <2>1. CASE Reject \/ Subscribe \/ RunLocally \/ Queue
    BY <1>1, <2>1 DEF Reject, Subscribe, RunLocally, Queue
  <2>2. CASE ForwardStatus \/ CancelInput \/ Bill
    BY <1>1, <2>2 DEF ForwardStatus, CancelInput, Bill
  <2>3. CASE ForwardBatch
    <3>1. gw' \in {"end", "relay"} /\ subscribed' \in BOOLEAN
      BY <2>3 DEF ForwardBatch
    <3>2. QED
      BY <1>1, <2>3, <3>1 DEF ForwardBatch
  <2>4. QED
    BY <1>2, <2>1, <2>2, <2>3 DEF GatewayStep
<1>3. CASE InputStep \/ ForwardStdin
  BY <1>1, <1>3 DEF InputStep, ForwardInput, PublishCancel, ForwardStdin
<1>4. CASE WorkerStep
  <2>1. CASE TakeTask \/ PrepareFails \/ BatchExecuting \/ BatchEnds \/ Connect \/ ListenStdin
    BY <1>1, <2>1 DEF TakeTask, PrepareFails, BatchExecuting, BatchEnds, Connect, ListenStdin
  <2>2. CASE Announce \/ RelayDone \/ RelayTimeout \/ CancelStdin \/ AwaitOutput
    BY <1>1, <2>2 DEF Announce, RelayDone, RelayTimeout, CancelStdin, AwaitOutput
  <2>3. QED
    BY <1>4, <2>1, <2>2 DEF WorkerStep
<1>5. CASE OutputStep
  BY <1>1, <1>5 DEF OutputStep, ForwardOutput, OutputLost, SetCompleted
<1>6. CASE EngineOutput \/ EngineVerdict \/ EngineLost
  BY <1>1, <1>6 DEF EngineOutput, EngineVerdict, EngineLost
<1>7. CASE Type
  <2>1. typedCount' \in 0 .. MaxTyped
    BY <1>7, RelayAssumption DEF Type
  <2>2. QED
    BY <1>1, <1>7, <2>1 DEF Type
<1>8. CASE Leave
  BY <1>1, <1>8 DEF Leave
<1>9. CASE UNCHANGED vars
  BY <1>1, <1>9 DEF vars
<1>10. QED
  BY <1>2, <1>3, <1>4, <1>5, <1>6, <1>7, <1>8, <1>9 DEF Next

\* Type correctness: every variable keeps its type, charged at most 1 in every mode.
THEOREM Typed == Spec => []TypeOK
<1>1. Init => TypeOK
  <2> SUFFICES ASSUME Init PROVE TypeOK
    OBVIOUS
  <2>1. typedCount \in 0 .. MaxTyped /\ charged \in 0 .. 1
    BY RelayAssumption DEF Init
  <2>2. subscribed \in BOOLEAN /\ listening \in BOOLEAN /\ completed \in BOOLEAN
    BY DEF Init
  <2>3. QED
    BY <2>1, <2>2 DEF Init, TypeOK
<1>2. IInv /\ IInv' /\ TypeOK /\ [Next]_vars => TypeOK'
  BY RestTypeStep DEF IInv
<1>3. QED
  BY <1>1, <1>2, Inductive, PTL DEF Spec

-----------------------------------------------------------------------------
(* The final status is not lost                                              *)

HasFinal(q) == \E s \in Final : Has(q, s)

\* What the student has seen, will see, or did not stay for.
Told ==
    \/ client = "gone"
    \/ HasFinal(shown)
    \/ gw = "relay" /\ HasFinal(statusCh)

\* A final status has been published as soon as the handler or its output coroutine is
\* on its way out.
Concluded == wk \in {"timedOut", "end"} \/ outT \in {"set", "ended"}

\* Whoever has queued a task is subscribed, and leaves only with the student or a final
\* status.
GatewayInv ==
    /\ gw \in {"queue", "relay", "cancel", "bill"} => subscribed
    /\ gw \in {"cancel", "bill"} \/ (gw = "end" /\ wk # "off")
          => client = "gone" \/ HasFinal(shown)

\* The output coroutine lives within the relay, which does not return without it.
OutputInv ==
    /\ wk \in {"off", "queued", "provision", "batch", "subscribe", "announce"} => outT = "off"
    /\ wk = "cancel" \/ completed => outT = "ended"
    /\ wk = "end" => outT \in {"off", "ended"}
    /\ wk = "batch" => engine = "running"

LEMMA PushKeeps ==
    ASSUME NEW S, NEW q \in Seq(S), NEW m \in S
    PROVE  Has(Push(q, m), m) /\ \A x : Has(q, x) => Has(Push(q, m), x)
<1>1. CASE Push(q, m) = q /\ q # <<>> /\ q[Len(q)] = m
  <2>1. Len(q) \in DOMAIN q
    BY <1>1
  <2>2. QED
    BY <1>1, <2>1 DEF Has
<1>2. CASE Push(q, m) = Append(q, m)
  <2>1. \A i \in DOMAIN q : i \in DOMAIN Append(q, m) /\ Append(q, m)[i] = q[i]
    OBVIOUS
  <2>2. Len(q) + 1 \in DOMAIN Append(q, m) /\ Append(q, m)[Len(q) + 1] = m
    OBVIOUS
  <2>3. QED
    BY <1>2, <2>1, <2>2 DEF Has
<1>3. QED
  BY <1>1, <1>2 DEF Push

LEMMA HeadOrTail ==
    ASSUME NEW S, NEW q \in Seq(S), q # <<>>
    PROVE  /\ \A x : Has(q, x) => x = Head(q) \/ Has(Tail(q), x)
           /\ Len(q) \in Nat /\ Len(q) > 0 /\ Len(Tail(q)) = Len(q) - 1
<1>1. \A i \in DOMAIN q : q[i] = Head(q) \/ (i - 1 \in DOMAIN Tail(q) /\ Tail(q)[i - 1] = q[i])
  OBVIOUS
<1>2. \A x : Has(q, x) => x = Head(q) \/ Has(Tail(q), x)
  BY <1>1 DEF Has
<1>3. Len(q) \in Nat /\ Len(q) > 0 /\ Len(Tail(q)) = Len(q) - 1
  OBVIOUS
<1>4. QED
  BY <1>2, <1>3

\* Nothing shown is taken back, and nobody returns.
LEMMA ShownStays ==
    ASSUME TypeInv, [Next]_vars
    PROVE  /\ HasFinal(shown) => HasFinal(shown')
           /\ client = "gone" => client' = "gone"
<1>1. client = "gone" => client' = "gone"
  BY DEF vars, Next, GatewayStep, Reject, Subscribe, RunLocally, Queue, ForwardStatus, CancelInput, Bill,
         ForwardBatch, InputStep, ForwardInput, PublishCancel, WorkerStep, TakeTask, PrepareFails,
         BatchExecuting, BatchEnds, Connect, ListenStdin, Announce, RelayDone, RelayTimeout,
         CancelStdin, AwaitOutput, OutputStep, ForwardOutput, OutputLost, SetCompleted, ForwardStdin,
         EngineOutput, EngineVerdict, EngineLost, Type, Leave, userVars
<1>2. ASSUME NEW s \in Statuses, Show(s) PROVE HasFinal(shown) => HasFinal(shown')
  BY <1>2, PushKeeps DEF Show, TypeInv, HasFinal
<1>3. CASE shown' = shown
  <2>1. \A s : Has(shown', s) = Has(shown, s)
    BY <1>3, SameShown
  <2>2. QED
    BY <1>1, <2>1 DEF HasFinal
<1>4. CASE Reject \/ Subscribe
  BY <1>1, <1>2, <1>3, <1>4 DEF Reject, Subscribe, Statuses, Final
<1>5. CASE RunLocally
  <2>1. outcome' \in Statuses
    BY <1>5 DEF RunLocally, Statuses, Final
  <2>2. QED
    BY <1>1, <1>2, <1>3, <1>5, <2>1 DEF RunLocally
<1>6. CASE ForwardStatus \/ ForwardBatch
  <2>1. Head(statusCh) \in Statuses
    BY <1>6, TailHas DEF ForwardStatus, ForwardBatch, TypeInv
  <2>2. QED
    BY <1>1, <1>2, <1>3, <1>6, <2>1 DEF ForwardStatus, ForwardBatch
<1>7. QED
  BY <1>1, <1>3, <1>4, <1>5, <1>6, WhoChanges

\* The gateway's loop shows the head of its subscription, and goes on only after a status
\* that is not final.
LEMMA ForwardShows ==
    ASSUME TypeInv, TypeOK, ShownInv, ForwardStatus \/ ForwardBatch
    PROVE  /\ gw = "relay" /\ client' = client /\ statusCh' = Tail(statusCh)
           /\ gw' \in {"relay", "cancel", "end"}
           /\ gw' # "relay" => client = "gone" \/ HasFinal(shown')
           /\ Head(statusCh) \in Final => client = "gone" \/ HasFinal(shown')
           /\ wk' = wk /\ (subscribed /\ gw' # "end" => subscribed')
<1>1. /\ statusCh # <<>> /\ statusCh' = Tail(statusCh) /\ gw = "relay" /\ wk' = wk
      /\ client' = client
  BY DEF ForwardStatus, ForwardBatch, userVars, wkVars
<1>2. Head(statusCh) \in Statuses /\ Has(statusCh, Head(statusCh))
  BY <1>1, TailHas DEF TypeInv
<1>3. Head(statusCh) \in Final /\ client = "open" => HasFinal(shown')
  <2>1. client = "open" => Show(Head(statusCh))
    BY DEF ForwardStatus, ForwardBatch
  <2>2. QED
    BY <1>2, <2>1, PushKeeps DEF Show, HasFinal, TypeInv
<1>4. gw' \in {"relay", "cancel", "end"}
  BY DEF ForwardStatus, ForwardBatch
<1>5. QED
  BY <1>1, <1>2, <1>3, <1>4 DEF ForwardStatus, ForwardBatch, ShownInv, Final, TypeOK

LEMMA GatewayStays ==
    ASSUME TypeInv, TypeOK, ModeInv, ShownInv, GatewayInv, [Next]_vars
    PROVE  GatewayInv'
<1>1. (HasFinal(shown) => HasFinal(shown')) /\ (client = "gone" => client' = "gone")
  BY ShownStays
<1>2. CASE ForwardStatus \/ ForwardBatch
  BY <1>2, ForwardShows DEF GatewayInv
<1>3. CASE Reject \/ Subscribe \/ RunLocally \/ Queue
  BY <1>1, <1>3 DEF Reject, Subscribe, RunLocally, Queue, GatewayInv, ModeInv, wkVars
<1>4. CASE CancelInput \/ Bill
  BY <1>1, <1>4 DEF CancelInput, Bill, GatewayInv, wkVars
<1>5. CASE WorkerStep
  <2>1. wk # "off" /\ UNCHANGED <<gw, subscribed>>
    BY <1>5 DEF WorkerStep, TakeTask, PrepareFails, BatchExecuting, BatchEnds, Connect, ListenStdin,
                Announce, RelayDone, RelayTimeout, CancelStdin, AwaitOutput, gwVars
  <2>2. QED
    BY <1>1, <2>1 DEF GatewayInv
<1>6. CASE InputStep \/ OutputStep \/ ForwardStdin
  <2>1. UNCHANGED <<gw, subscribed, wk>>
    BY <1>6 DEF InputStep, ForwardInput, PublishCancel, OutputStep, ForwardOutput, OutputLost,
                SetCompleted, ForwardStdin, gwVars, wkVars
  <2>2. QED
    BY <1>1, <2>1 DEF GatewayInv
<1>7. CASE EngineOutput \/ EngineVerdict \/ EngineLost \/ Type \/ Leave \/ UNCHANGED vars
  <2>1. UNCHANGED <<gw, subscribed, wk>>
    BY <1>7 DEF EngineOutput, EngineVerdict, EngineLost, Type, Leave, vars, gwVars, wkVars
  <2>2. QED
    BY <1>1, <2>1 DEF GatewayInv
<1>8. QED
  BY <1>2, <1>3, <1>4, <1>5, <1>6, <1>7 DEF Next, GatewayStep

LEMMA OutputStays ==
    ASSUME ModeInv, OutputInv, [Next]_vars
    PROVE  OutputInv'
<1>1. CASE GatewayStep
  BY <1>1 DEF GatewayStep, Reject, Subscribe, RunLocally, Queue, ForwardStatus, CancelInput, Bill,
              ForwardBatch, OutputInv, ModeInv, wkVars, runVars
<1>2. CASE WorkerStep
  <2>1. CASE TakeTask \/ PrepareFails \/ BatchExecuting \/ BatchEnds \/ Connect
    BY <2>1 DEF TakeTask, PrepareFails, BatchExecuting, BatchEnds, Connect, OutputInv
  <2>2. CASE ListenStdin \/ Announce \/ RelayDone \/ RelayTimeout
    BY <2>2 DEF ListenStdin, Announce, RelayDone, RelayTimeout, OutputInv
  <2>3. CASE CancelStdin \/ AwaitOutput
    BY <2>3 DEF CancelStdin, AwaitOutput, OutputInv
  <2>4. QED
    BY <1>2, <2>1, <2>2, <2>3 DEF WorkerStep
<1>3. CASE OutputStep
  BY <1>3 DEF OutputStep, ForwardOutput, OutputLost, SetCompleted, OutputInv, runVars, ModeInv
<1>4. CASE InputStep \/ ForwardStdin
  BY <1>4 DEF InputStep, ForwardInput, PublishCancel, ForwardStdin, OutputInv, wkVars, runVars
<1>5. CASE EngineOutput \/ EngineVerdict \/ EngineLost
  BY <1>5 DEF EngineOutput, EngineVerdict, EngineLost, OutputInv, ModeInv, wkVars
<1>6. CASE Type \/ Leave \/ UNCHANGED vars
  BY <1>6 DEF Type, Leave, vars, OutputInv, wkVars, runVars
<1>7. QED
  BY <1>1, <1>2, <1>3, <1>4, <1>5, <1>6 DEF Next

\* A final status published while the worker serves the task reaches the subscription of
\* a gateway that still forwards, or comes after the gateway's end.
LEMMA PublishTells ==
    ASSUME TypeInv, TypeOK, ModeInv, GatewayInv, wk # "off", NEW s \in Final, PublishStatus(s),
           gw' = gw, client' = client, shown' = shown
    PROVE  Told'
<1>1. CASE gw = "relay"
  <2>1. statusCh' = Push(statusCh, s) /\ s \in Statuses
    BY <1>1 DEF GatewayInv, PublishStatus, Statuses
  <2>2. QED
    BY <1>1, <2>1, PushKeeps DEF Told, HasFinal, TypeInv
<1>2. CASE gw # "relay"
  <2>1. gw \in {"cancel", "bill", "end"}
    BY <1>2 DEF ModeInv, TypeOK
  <2>2. client = "gone" \/ HasFinal(shown)
    BY <2>1 DEF GatewayInv
  <2>3. QED
    BY <2>2 DEF Told, HasFinal, Has
<1>3. QED
  BY <1>1, <1>2

\* What is told stays told: a step of the gateway turns what is under way into what is shown,
\* and the others only add to the channel.
LEMMA ToldStays ==
    ASSUME TypeInv, TypeOK, ModeInv, ShownInv, GatewayInv, Told, [Next]_vars
    PROVE  Told'
<1>1. (HasFinal(shown) => HasFinal(shown')) /\ (client = "gone" => client' = "gone")
  BY ShownStays
<1>2. SUFFICES ASSUME gw = "relay", HasFinal(statusCh) PROVE Told'
  BY <1>1 DEF Told
<1>3. PICK f \in Final : Has(statusCh, f)
  BY <1>2 DEF HasFinal
<1>4. CASE ForwardStatus \/ ForwardBatch
  <2>1. statusCh # <<>>
    BY <1>4 DEF ForwardStatus, ForwardBatch
  <2>2. f = Head(statusCh) \/ Has(Tail(statusCh), f)
    BY <1>3, <2>1, HeadOrTail DEF TypeInv
  <2>3. QED
    BY <1>1, <1>4, <2>2, ForwardShows DEF Told, HasFinal
<1>5. CASE ~(ForwardStatus \/ ForwardBatch)
  <2>1. gw' = gw
    BY <1>2, <1>5 DEF vars, Next, GatewayStep, Reject, Subscribe, RunLocally, Queue, CancelInput, Bill,
           InputStep, ForwardInput, PublishCancel, WorkerStep, TakeTask, PrepareFails,
           BatchExecuting, BatchEnds, Connect, ListenStdin, Announce, RelayDone, RelayTimeout,
           CancelStdin, AwaitOutput, OutputStep, ForwardOutput, OutputLost, SetCompleted,
           ForwardStdin, EngineOutput, EngineVerdict, EngineLost, Type, Leave, gwVars
  <2>2. ASSUME NEW s \in Statuses, PublishStatus(s) PROVE Has(statusCh', f)
    BY <1>3, <2>2, PushKeeps DEF PublishStatus, TypeInv
  <2>3. Has(statusCh', f)
    <3>1. CASE statusCh' = statusCh
      BY <1>3, <3>1
    <3>2. CASE TakeTask \/ PrepareFails \/ BatchExecuting \/ Announce \/ OutputLost \/ RelayTimeout
      BY <2>2, <3>2 DEF TakeTask, PrepareFails, BatchExecuting, Announce, OutputLost, RelayTimeout,
                        Statuses, Final
    <3>3. CASE BatchEnds
      BY <2>2, <3>3 DEF BatchEnds, Statuses, Final
    <3>4. CASE ForwardOutput
      <4>1. Head(engineOut) \in Statuses
        BY <3>4, TailHas DEF ForwardOutput, TypeInv, Statuses, Outputs
      <4>2. QED
        BY <2>2, <3>4, <4>1 DEF ForwardOutput
    <3>5. ~CancelInput /\ ~Bill
      BY <1>2 DEF CancelInput, Bill
    <3>6. \/ statusCh' = statusCh \/ TakeTask \/ PrepareFails \/ BatchExecuting \/ BatchEnds
          \/ Announce \/ ForwardOutput \/ OutputLost \/ RelayTimeout
      BY <1>5, <3>5 DEF vars, Next, GatewayStep, Reject, Subscribe, RunLocally, Queue,
             InputStep, ForwardInput, PublishCancel, WorkerStep, Connect, ListenStdin, RelayDone,
             CancelStdin, AwaitOutput, OutputStep, SetCompleted,
             ForwardStdin, EngineOutput, EngineVerdict, EngineLost, Type, Leave
    <3>7. QED
      BY <3>1, <3>2, <3>3, <3>4, <3>6
  <2>4. QED
    BY <1>2, <2>1, <2>3 DEF Told, HasFinal
<1>6. QED
  BY <1>4, <1>5

\* The steps that conclude publish a final status.
LEMMA ConclusionIsTold ==
    ASSUME TypeInv, TypeOK, ModeInv, GatewayInv, OutputInv, ~Concluded, Concluded', [Next]_vars
    PROVE  Told'
<1>1. PrepareFails \/ BatchEnds \/ RelayTimeout \/ OutputLost
      \/ (ForwardOutput /\ Head(engineOut) \in Final)
  <2>1. ~GatewayStep /\ ~UNCHANGED vars
    BY DEF Concluded, vars, GatewayStep, Reject, Subscribe, RunLocally, Queue, ForwardStatus, CancelInput,
           Bill, ForwardBatch, wkVars
  <2>2. ~InputStep /\ ~ForwardStdin /\ ~EngineOutput /\ ~EngineVerdict /\ ~EngineLost /\ ~Type /\ ~Leave
    BY DEF Concluded, InputStep, ForwardInput, PublishCancel, ForwardStdin, EngineOutput, EngineVerdict,
           EngineLost, Type, Leave, wkVars
  <2>3. WorkerStep => PrepareFails \/ BatchEnds \/ RelayTimeout
    BY DEF Concluded, OutputInv, WorkerStep, TakeTask, BatchExecuting, Connect, ListenStdin, Announce,
           RelayDone, CancelStdin, AwaitOutput
  <2>4. OutputStep => OutputLost \/ (ForwardOutput /\ Head(engineOut) \in Final)
    BY DEF Concluded, OutputStep, ForwardOutput, SetCompleted
  <2>5. QED
    BY <2>1, <2>2, <2>3, <2>4 DEF Next
<1>2. wk # "off"
  BY <1>1 DEF PrepareFails, BatchEnds, RelayTimeout, OutputLost, ForwardOutput, OutputInv
<1>3. gw' = gw /\ client' = client /\ shown' = shown
  BY <1>1 DEF PrepareFails, BatchEnds, RelayTimeout, OutputLost, ForwardOutput, gwVars, userVars
<1>4. \E s \in Final : PublishStatus(s)
  BY <1>1 DEF PrepareFails, BatchEnds, RelayTimeout, OutputLost, ForwardOutput, Final
<1>5. QED
  BY <1>2, <1>3, <1>4, PublishTells

ToldInv == GatewayInv /\ OutputInv /\ (Concluded => Told)

LEMMA ToldInvariant == Spec => []ToldInv
<1>1. Init => ToldInv
  BY DEF Init, ToldInv, GatewayInv, OutputInv, Concluded
<1>2. IInv /\ TypeOK /\ ToldInv /\ [Next]_vars => ToldInv'
  BY GatewayStays, OutputStays, ToldStays, ConclusionIsTold DEF ToldInv, IInv
<1>3. QED
  BY <1>1, <1>2, Inductive, Typed, PTL DEF Spec

\* Once the worker has ended, the student has been shown a final status, has left, or has
\* one waiting in the subscription of a handler that still forwards: no path of the
\* worker ends silently, and no publication falls between the subscriptions.
THEOREM FinalIsNotLost == Spec => [](wk = "end" => Told)
<1>1. ToldInv => (wk = "end" => Told)
  BY DEF ToldInv, Concluded
<1>2. QED
  BY <1>1, ToldInvariant, PTL

-----------------------------------------------------------------------------
(* The handlers are bounded                                                  *)

\* The steps left at each place of the worker, of the relay's output coroutine and of the
\* gateway; the two that read a channel also have its messages before them.
WkStage == [off |-> 9, queued |-> 8, provision |-> 7, batch |-> 6, subscribe |-> 6,
            announce |-> 5, relay |-> 4, cancel |-> 3, timedOut |-> 3, await |-> 2, end |-> 0]
OutStage == [off |-> 3, recv |-> 2, set |-> 1, ended |-> 0]
GwStage == [admit |-> 5, local |-> 4, queue |-> 4, relay |-> 3, cancel |-> 2, bill |-> 1,
            end |-> 0]

WkLeft == WkStage[wk]
OutLeft == OutStage[outT] + Len(engineOut)
GwLeft == GwStage[gw] + Len(statusCh)

Over == engine \in {"closed", "lost"}

LEMMA LeftTypes ==
    ASSUME TypeOK, TypeInv
    PROVE  /\ WkLeft \in 0 .. 9 /\ OutLeft \in Nat /\ GwLeft \in Nat
           /\ OutStage[outT] \in Nat /\ GwStage[gw] \in Nat
           /\ Len(engineOut) \in Nat /\ Len(statusCh) \in Nat
<1>1. WkStage[wk] \in 0 .. 9
  BY DEF WkStage, TypeOK
<1>2. OutStage[outT] \in Nat
  BY DEF OutStage, TypeOK
<1>3. GwStage[gw] \in Nat
  BY DEF GwStage, TypeOK
<1>4. Len(engineOut) \in Nat /\ Len(statusCh) \in Nat
  BY DEF TypeInv
<1>5. QED
  BY <1>1, <1>2, <1>3, <1>4 DEF WkLeft, OutLeft, GwLeft

LEMMA WorkerGoesOn ==
    ASSUME ModeInv, [Next]_vars
    PROVE  /\ WorkerStep => WkLeft' < WkLeft
           /\ ~WorkerStep => WkLeft' = WkLeft \/ (wk = "off" /\ wk' = "queued")
<1>1. ASSUME WorkerStep
      PROVE  \/ wk = "queued" /\ wk' \in {"provision", "end"}
             \/ wk = "provision" /\ wk' \in {"batch", "subscribe", "end"}
             \/ wk = "batch" /\ wk' = "end"
             \/ wk = "subscribe" /\ wk' = "announce"
             \/ wk = "announce" /\ wk' = "relay"
             \/ wk = "relay" /\ wk' \in {"cancel", "timedOut"}
             \/ wk \in {"cancel", "timedOut"} /\ wk' = "await"
             \/ wk = "await" /\ wk' = "end"
  BY <1>1 DEF WorkerStep, TakeTask, PrepareFails, BatchExecuting, BatchEnds, Connect, ListenStdin,
              Announce, RelayDone, RelayTimeout, CancelStdin, AwaitOutput
<1>2. WorkerStep => WkLeft' < WkLeft
  BY <1>1 DEF WkLeft, WkStage
<1>3. ASSUME ~WorkerStep PROVE wk' = wk \/ (wk = "off" /\ wk' = "queued")
  BY <1>3 DEF ModeInv, vars, Next, GatewayStep, Reject, Subscribe, RunLocally, Queue, ForwardStatus,
         CancelInput, Bill, ForwardBatch, InputStep, ForwardInput, PublishCancel, OutputStep,
         ForwardOutput, OutputLost, SetCompleted, ForwardStdin, EngineOutput, EngineVerdict,
         EngineLost, Type, Leave, wkVars
<1>4. QED
  BY <1>2, <1>3 DEF WkLeft

\* Once the run is over nothing is added to its messages, and each step of the output
\* coroutine takes one away or goes on.
LEMMA OutputGoesOn ==
    ASSUME TypeOK, TypeInv, ModeInv, OutputInv, Over, [Next]_vars
    PROVE  /\ engine' = engine
           /\ OutputStep => OutLeft' < OutLeft
           /\ ~OutputStep => OutLeft' <= OutLeft
<1>1. engine' = engine
  BY WhoChanges DEF Over, ModeInv, OutputInv, BatchExecuting, BatchEnds, Connect, EngineVerdict, EngineLost
<1>2. CASE ForwardOutput
  <2>1. /\ engineOut # <<>> /\ engineOut' = Tail(engineOut)
        /\ outT = "recv" /\ outT' \in {"set", "recv"}
    BY <1>2 DEF ForwardOutput
  <2>2. OutStage[outT'] <= OutStage[outT] /\ OutStage[outT'] \in Nat
    BY <2>1 DEF OutStage
  <2>3. Len(engineOut) > 0 /\ Len(engineOut') = Len(engineOut) - 1
    BY <2>1, HeadOrTail DEF TypeInv
  <2>4. OutLeft' < OutLeft
    BY <2>2, <2>3, LeftTypes DEF OutLeft
  <2>5. QED
    BY <1>1, <1>2, <2>4 DEF OutputStep
<1>3. CASE OutputLost \/ SetCompleted
  <2>1. /\ engineOut' = engineOut
        /\ (outT = "recv" /\ outT' = "set") \/ (outT = "set" /\ outT' = "ended")
    BY <1>3 DEF OutputLost, SetCompleted, runVars
  <2>2. OutStage[outT'] < OutStage[outT] /\ OutStage[outT'] \in Nat
    BY <2>1 DEF OutStage
  <2>3. OutLeft' < OutLeft
    BY <2>1, <2>2, LeftTypes DEF OutLeft
  <2>4. QED
    BY <1>1, <1>3, <2>3 DEF OutputStep
<1>4. CASE ~OutputStep
  <2>1. engineOut' = engineOut
    BY <1>4, WhoChanges DEF Over, OutputStep, EngineOutput, EngineVerdict
  <2>2. outT' = outT \/ (outT = "off" /\ outT' = "recv")
    BY <1>4 DEF OutputInv, vars, Next, GatewayStep, Reject, Subscribe, RunLocally, Queue, ForwardStatus,
           CancelInput, Bill, ForwardBatch, InputStep, ForwardInput, PublishCancel, WorkerStep,
           TakeTask, PrepareFails, BatchExecuting, BatchEnds, Connect, ListenStdin, Announce,
           RelayDone, RelayTimeout, CancelStdin, AwaitOutput, ForwardStdin, EngineOutput,
           EngineVerdict, EngineLost, Type, Leave, wkVars
  <2>3. OutStage[outT'] <= OutStage[outT] /\ OutStage[outT'] \in Nat
    BY <2>2, LeftTypes DEF OutStage
  <2>4. QED
    BY <1>1, <1>4, <2>1, <2>3, LeftTypes DEF OutLeft
<1>5. QED
  BY <1>2, <1>3, <1>4 DEF OutputStep

\* Once the worker has ended nothing is published, and each step of the gateway takes a
\* status from its subscription or leaves.
LEMMA GatewayGoesOn ==
    ASSUME TypeOK, TypeInv, ModeInv, OutputInv, wk = "end", [Next]_vars
    PROVE  /\ wk' = "end"
           /\ GatewayStep => GwLeft' < GwLeft
           /\ ~GatewayStep => GwLeft' <= GwLeft
<1>1. ~WorkerStep /\ ~ForwardOutput /\ ~OutputLost
  BY DEF WorkerStep, TakeTask, PrepareFails, BatchExecuting, BatchEnds, Connect, ListenStdin, Announce,
         RelayDone, RelayTimeout, CancelStdin, AwaitOutput, ForwardOutput, OutputLost, OutputInv
<1>2. ~Reject /\ ~Subscribe /\ ~RunLocally /\ ~Queue
  BY DEF Reject, Subscribe, RunLocally, Queue, ModeInv
<1>3. CASE ForwardStatus \/ ForwardBatch
  <2>1. /\ statusCh # <<>> /\ statusCh' = Tail(statusCh) /\ wk' = wk
        /\ gw = "relay" /\ gw' \in {"relay", "cancel", "end"}
    BY <1>3 DEF ForwardStatus, ForwardBatch, wkVars
  <2>2. GwStage[gw'] <= GwStage[gw] /\ GwStage[gw'] \in Nat
    BY <2>1 DEF GwStage
  <2>3. Len(statusCh) > 0 /\ Len(statusCh') = Len(statusCh) - 1
    BY <2>1, HeadOrTail DEF TypeInv
  <2>4. GwLeft' < GwLeft
    BY <2>2, <2>3, LeftTypes DEF GwLeft
  <2>5. QED
    BY <1>3, <2>1, <2>4 DEF GatewayStep
<1>4. CASE CancelInput \/ Bill
  <2>1. /\ wk' = wk /\ (statusCh' = statusCh \/ statusCh' = <<>>)
        /\ (gw = "cancel" /\ gw' = "bill") \/ (gw = "bill" /\ gw' = "end")
    BY <1>4 DEF CancelInput, Bill, wkVars
  <2>2. GwStage[gw'] < GwStage[gw] /\ GwStage[gw'] \in Nat
    BY <2>1 DEF GwStage
  <2>3. Len(statusCh') <= Len(statusCh) /\ Len(statusCh') \in Nat
    BY <2>1, LeftTypes
  <2>4. GwLeft' < GwLeft
    BY <2>2, <2>3, LeftTypes DEF GwLeft
  <2>5. QED
    BY <1>4, <2>1, <2>4 DEF GatewayStep
<1>5. CASE ~GatewayStep
  <2>1. UNCHANGED <<gw, statusCh, wk>>
    BY <1>1, <1>5 DEF vars, Next, InputStep, ForwardInput, PublishCancel, OutputStep, SetCompleted,
           ForwardStdin, EngineOutput, EngineVerdict, EngineLost, Type, Leave, wkVars, gwVars
  <2>2. QED
    BY <1>5, <2>1, LeftTypes DEF GwLeft
<1>6. QED
  BY <1>2, <1>3, <1>4, <1>5 DEF GatewayStep

\* The worker makes at most nine steps for a task, and no step of another takes it back.
\* Once the run in the pod is over, however it ended, each step of the output coroutine
\* brings it nearer its end and no other step away from it; once the worker has ended the
\* same holds of the gateway's handler.
THEOREM HandlersGoOn ==
    Spec => /\ [](WkLeft \in 0 .. 9 /\ OutLeft \in Nat /\ GwLeft \in Nat)
            /\ [][/\ IF WorkerStep THEN WkLeft' < WkLeft ELSE WkLeft' <= WkLeft
                  /\ Over => /\ Over'
                             /\ IF OutputStep THEN OutLeft' < OutLeft ELSE OutLeft' <= OutLeft
                  /\ wk = "end" => /\ wk' = "end"
                                   /\ IF GatewayStep THEN GwLeft' < GwLeft
                                                     ELSE GwLeft' <= GwLeft]_vars
<1> DEFINE Bounds == WkLeft \in 0 .. 9 /\ OutLeft \in Nat /\ GwLeft \in Nat
           Nearer == /\ IF WorkerStep THEN WkLeft' < WkLeft ELSE WkLeft' <= WkLeft
                     /\ Over => /\ Over'
                                /\ IF OutputStep THEN OutLeft' < OutLeft ELSE OutLeft' <= OutLeft
                     /\ wk = "end" => /\ wk' = "end"
                                      /\ IF GatewayStep THEN GwLeft' < GwLeft
                                                        ELSE GwLeft' <= GwLeft
           Facts == IInv /\ TypeOK /\ ToldInv
<1>1. Facts => Bounds
  BY LeftTypes DEF IInv
<1>2. ASSUME Facts, [Next]_vars PROVE Nearer
  <2>1. TypeOK /\ TypeInv /\ ModeInv /\ OutputInv
    BY <1>2 DEF IInv, ToldInv
  <2>2. IF WorkerStep THEN WkLeft' < WkLeft ELSE WkLeft' <= WkLeft
    <3>1. wk = "off" /\ wk' = "queued" => WkLeft' <= WkLeft
      BY DEF WkLeft, WkStage
    <3>2. WkLeft' = WkLeft => WkLeft' <= WkLeft
      BY <2>1, LeftTypes
    <3>3. QED
      BY <1>2, <2>1, <3>1, <3>2, WorkerGoesOn
  <2>3. Over => Over' /\ (IF OutputStep THEN OutLeft' < OutLeft ELSE OutLeft' <= OutLeft)
    BY <1>2, <2>1, OutputGoesOn DEF Over
  <2>4. wk = "end" => wk' = "end" /\ (IF GatewayStep THEN GwLeft' < GwLeft ELSE GwLeft' <= GwLeft)
    BY <1>2, <2>1, GatewayGoesOn
  <2>5. QED
    BY <2>2, <2>3, <2>4
<1> HIDE DEF Bounds, Nearer, Facts
<1>3. Spec => []Facts
  BY Inductive, Typed, ToldInvariant, PTL DEF Facts
<1>4. Facts /\ [Next]_vars => [Nearer]_vars
  BY <1>2
<1>5. Spec => []Bounds /\ [][Nearer]_vars
  BY <1>1, <1>3, <1>4, PTL DEF Spec
<1>6. QED
  BY <1>5 DEF Bounds, Nearer
=============================================================================
