---------------------------- MODULE ExecutionRelay ----------------------------
(***************************************************************************)
(* One execution request end to end: the gateway's WebSocket handler       *)
(* (execution_ws.py), the Redis queue and the two Pub/Sub channels of the  *)
(* task, the worker's handler (worker.py) and its WebSocket relay          *)
(* (ws_relay_adapter.py).  The engine is what EngineSession shows: a       *)
(* stream of outputs, then one verdict and a close, or a lost connection.  *)
(*                                                                         *)
(* Pub/Sub delivers only to who is subscribed at the time.  Runs of        *)
(* "running" outputs in a channel are kept as one.                         *)
(***************************************************************************)
EXTENDS Naturals, Sequences

CONSTANT MaxTyped    \* inputs the student types, at most

ASSUME RelayAssumption == MaxTyped \in Nat

Final == {"completed", "compile_error", "timeout", "error"}

VARIABLES
    mode,       \* batch, interactive, or local (run in the gateway)
    client,     \* the student's WebSocket
    typed,      \* inputs sent by the student, not read by the gateway yet
    typedCount, \* how many there have been
    shown,      \* statuses the student has received
    gw,         \* the gateway handler
    gwInput,    \* its forward_stdin_to_worker coroutine
    subscribed, \* is it subscribed to task_status_<id>?
    statusCh,   \* messages waiting in that subscription
    last,       \* last_update
    charged,    \* number of billing transactions
    wk,         \* the worker's handler
    outT, inT,  \* forward_pod_output and forward_user_stdin
    completed,  \* the Event they share
    listening,  \* is the worker subscribed to task_stdin_<id>?
    stdinCh,    \* messages waiting in that subscription
    engine,     \* the run in the pod
    engineOut,  \* its messages the relay has not read
    outcome,    \* how the run itself ended
    lost        \* messages published to task_stdin_<id> with nobody listening

vars == <<mode, client, typed, typedCount, shown, gw, gwInput, subscribed, statusCh, last,
          charged, wk, outT, inT, completed, listening, stdinCh, engine, engineOut, outcome,
          lost>>

gwVars == <<gw, gwInput, subscribed, last, charged, shown>>
wkVars == <<wk, outT, inT, completed, listening>>
runVars == <<engine, engineOut, outcome>>
userVars == <<mode, client, typed, typedCount>>

Init ==
    /\ mode \in {"batch", "interactive", "local"}
    /\ client = "open" /\ typed = <<>> /\ typedCount = 0 /\ shown = <<>>
    /\ gw = "admit" /\ gwInput = "off" /\ subscribed = FALSE /\ statusCh = <<>>
    /\ last = "none" /\ charged = 0
    /\ wk = "off" /\ outT = "off" /\ inT = "off" /\ completed = FALSE
    /\ listening = FALSE /\ stdinCh = <<>>
    /\ engine = "off" /\ engineOut = <<>> /\ outcome = "none" /\ lost = {}

-----------------------------------------------------------------------------
(* Channels                                                                  *)

Push(queue, m) ==
    IF m = "running" /\ queue # <<>> /\ queue[Len(queue)] = "running"
    THEN queue ELSE Append(queue, m)

PublishStatus(s) == statusCh' = IF subscribed THEN Push(statusCh, s) ELSE statusCh

PublishStdin(m) ==
    /\ stdinCh' = IF listening THEN Append(stdinCh, m) ELSE stdinCh
    /\ lost' = IF listening THEN lost ELSE lost \cup {<<m, wk>>}

Show(s) == shown' = Push(shown, s)

-----------------------------------------------------------------------------
(* The gateway                                                               *)

\* Token, role and enrolment are checked before anything is queued.
Reject ==
    /\ gw = "admit" /\ gw' = "end"
    /\ IF client = "open" THEN Show("error") ELSE UNCHANGED shown
    /\ UNCHANGED <<userVars, gwInput, subscribed, statusCh, last, charged, wkVars, stdinCh,
                   runVars, lost>>

\* Subscribe, then tell the student; a student already gone ends the handler.
Subscribe ==
    /\ gw = "admit"
    /\ IF client = "open"
       THEN /\ gw' = IF mode = "local" THEN "local" ELSE "queue"
            /\ subscribed' = TRUE /\ Show("queued")
       ELSE gw' = "end" /\ UNCHANGED <<subscribed, shown>>
    /\ UNCHANGED <<userVars, gwInput, statusCh, last, charged, wkVars, stdinCh, runVars, lost>>

\* execute_local: the charge comes after the result, and after an exception too.
RunLocally ==
    /\ gw = "local" /\ gw' = "end" /\ subscribed' = FALSE
    /\ outcome' \in {"completed", "error"}
    /\ IF client = "open" THEN Show(outcome') /\ charged' = charged + 1
                          ELSE UNCHANGED <<shown, charged>>
    /\ UNCHANGED <<userVars, gwInput, statusCh, last, wkVars, stdinCh, engine, engineOut, lost>>

Queue ==
    /\ gw = "queue" /\ gw' = "relay" /\ wk' = "queued"
    /\ gwInput' = IF mode = "interactive" THEN "on" ELSE "off"
    /\ UNCHANGED <<userVars, shown, subscribed, statusCh, last, charged, outT, inT, completed,
                   listening, stdinCh, runVars, lost>>

\* Mutants: a final status does not end the coroutine; only batch's two do.
ForwardStatusOn ==
    /\ gw = "relay" /\ mode = "interactive" /\ statusCh # <<>>
    /\ last' = Head(statusCh) /\ statusCh' = Tail(statusCh)
    /\ IF client = "open" THEN Show(last') ELSE UNCHANGED shown
    /\ gw' = IF client = "open" THEN "relay" ELSE "cancel"
    /\ UNCHANGED <<userVars, gwInput, subscribed, charged, wkVars, stdinCh, runVars, lost>>

ForwardStatusBatchFinals ==
    /\ gw = "relay" /\ mode = "interactive" /\ statusCh # <<>>
    /\ last' = Head(statusCh) /\ statusCh' = Tail(statusCh)
    /\ IF client = "open" THEN Show(last') ELSE UNCHANGED shown
    /\ gw' = IF client = "open" /\ last' \notin {"completed", "error"} THEN "relay" ELSE "cancel"
    /\ UNCHANGED <<userVars, gwInput, subscribed, charged, wkVars, stdinCh, runVars, lost>>

\* forward_status_to_frontend: last_update is set before the send can fail.
ForwardStatus ==
    /\ gw = "relay" /\ mode = "interactive" /\ statusCh # <<>>
    /\ last' = Head(statusCh) /\ statusCh' = Tail(statusCh)
    /\ IF client = "open" THEN Show(last') ELSE UNCHANGED shown
    /\ gw' = IF client = "open" /\ last' \notin Final THEN "relay" ELSE "cancel"
    /\ UNCHANGED <<userVars, gwInput, subscribed, charged, wkVars, stdinCh, runVars, lost>>

\* forward_stdin_to_worker: input is published; a line that is a JSON number
\* raises a TypeError and ends the coroutine.
ForwardInput ==
    /\ gwInput = "on" /\ typed # <<>>
    /\ typed' = Tail(typed)
    /\ \/ Head(typed) \in {"early", "ready"} /\ PublishStdin(Head(typed)) /\ UNCHANGED gwInput
       \/ Head(typed) = "number" /\ gwInput' = "ended" /\ UNCHANGED <<stdinCh, lost>>
    /\ UNCHANGED <<mode, client, typedCount, shown, gw, subscribed, statusCh, last, charged,
                   wkVars, runVars>>

\* WebSocketDisconnect in that coroutine: "sending cancel signal to worker".
PublishCancel ==
    /\ gwInput = "on" /\ typed = <<>> /\ client = "gone"
    /\ gwInput' = "ended" /\ PublishStdin("cancel")
    /\ UNCHANGED <<userVars, shown, gw, subscribed, statusCh, last, charged, wkVars, runVars>>

CancelInput ==
    /\ gw = "cancel" /\ gw' = "bill" /\ gwInput' = "ended"
    /\ UNCHANGED <<userVars, shown, subscribed, statusCh, last, charged, wkVars, stdinCh,
                   runVars, lost>>

\* Mutant: an interactive session is charged whatever its last status is.
BillAlways ==
    /\ gw = "bill" /\ gw' = "end"
    /\ charged' = charged + 1
    /\ subscribed' = FALSE /\ statusCh' = <<>>
    /\ UNCHANGED <<userVars, shown, gwInput, last, wkVars, stdinCh, runVars, lost>>

Bill ==
    /\ gw = "bill" /\ gw' = "end"
    /\ charged' = IF last = "completed" THEN charged + 1 ELSE charged
    /\ subscribed' = FALSE /\ statusCh' = <<>>
    /\ UNCHANGED <<userVars, shown, gwInput, last, wkVars, stdinCh, runVars, lost>>

\* Batch: forward until completed or error, then charge either way.
ForwardBatch ==
    /\ gw = "relay" /\ mode = "batch" /\ statusCh # <<>>
    /\ statusCh' = Tail(statusCh)
    /\ LET s == Head(statusCh)
           ends == client = "gone" \/ s \in {"completed", "error"}
       IN /\ IF client = "open" THEN Show(s) ELSE UNCHANGED shown
          /\ charged' = IF client = "open" /\ s \in {"completed", "error"}
                        THEN charged + 1 ELSE charged
          /\ gw' = IF ends THEN "end" ELSE "relay"
          /\ subscribed' = ~ends
    /\ UNCHANGED <<userVars, gwInput, last, wkVars, stdinCh, runVars, lost>>

-----------------------------------------------------------------------------
(* The worker                                                                *)

\* blpop, the catalog, "provisioning".
TakeTask ==
    /\ wk = "queued" /\ wk' = "provision"
    /\ PublishStatus("provisioning")
    /\ UNCHANGED <<userVars, gwVars, outT, inT, completed, listening, stdinCh, runVars, lost>>

\* Mutant: a failed preparation ends the handler silently.
PrepareFailsSilently ==
    /\ wk \in {"queued", "provision"} /\ wk' = "end"
    /\ outcome' = "error"
    /\ UNCHANGED <<userVars, gwVars, statusCh, outT, inT, completed, listening, stdinCh, engine,
                   engineOut, lost>>

\* Every failure up to the relay's connection publishes "error".
PrepareFails ==
    /\ wk \in {"queued", "provision"} /\ wk' = "end"
    /\ PublishStatus("error")
    /\ outcome' = "error"
    /\ UNCHANGED <<userVars, gwVars, outT, inT, completed, listening, stdinCh, engine,
                   engineOut, lost>>

BatchExecuting ==
    /\ wk = "provision" /\ mode = "batch" /\ wk' = "batch"
    /\ PublishStatus("executing") /\ engine' = "running"
    /\ UNCHANGED <<userVars, gwVars, outT, inT, completed, listening, stdinCh, engineOut,
                   outcome, lost>>

\* The engine's answer, whatever its exit code, is "completed"; an exception is
\* "error".
BatchEnds ==
    /\ wk = "batch" /\ wk' = "end" /\ engine' = "closed"
    /\ \E s \in {"completed", "error"} : PublishStatus(s) /\ outcome' = s
    /\ UNCHANGED <<userVars, gwVars, outT, inT, completed, listening, stdinCh, engineOut, lost>>

\* The relay connects and sends the program.
Connect ==
    /\ wk = "provision" /\ mode = "interactive" /\ wk' = "subscribe"
    /\ engine' = "running"
    /\ UNCHANGED <<userVars, gwVars, statusCh, outT, inT, completed, listening, stdinCh,
                   engineOut, outcome, lost>>

\* Mutant: the student is told before the relay listens to the input channel.
ListenLate ==
    /\ wk = "subscribe" /\ wk' = "announce"
    /\ PublishStatus("executing")
    /\ UNCHANGED <<userVars, gwVars, outT, inT, completed, listening, stdinCh, runVars, lost>>

ListenStdin ==
    /\ wk = "subscribe" /\ wk' = "announce" /\ listening' = TRUE
    /\ UNCHANGED <<userVars, gwVars, statusCh, outT, inT, completed, stdinCh, runVars, lost>>

\* "executing" (Fully Subscribed), then the two coroutines start.
Announce ==
    /\ wk = "announce" /\ wk' = "relay" /\ outT' = "recv" /\ inT' = "on"
    /\ PublishStatus("executing")
    /\ UNCHANGED <<userVars, gwVars, completed, listening, stdinCh, runVars, lost>>

\* forward_pod_output: publish each message; a terminal one, or a lost
\* connection, sets the event and ends it.
ForwardOutput ==
    /\ outT = "recv" /\ engineOut # <<>>
    /\ engineOut' = Tail(engineOut)
    /\ PublishStatus(Head(engineOut))
    /\ outT' = IF Head(engineOut) \in Final THEN "set" ELSE "recv"
    /\ UNCHANGED <<userVars, gwVars, wk, inT, completed, listening, stdinCh, engine, outcome, lost>>

OutputLost ==
    /\ outT = "recv" /\ engineOut = <<>> /\ engine = "lost"
    /\ PublishStatus("error") /\ outT' = "set"
    /\ UNCHANGED <<userVars, gwVars, wk, inT, completed, listening, stdinCh, runVars, lost>>

\* Mutant: the event is forgotten.
SetCompletedNot ==
    /\ outT = "set" /\ outT' = "recv"
    /\ UNCHANGED <<userVars, gwVars, statusCh, wk, inT, completed, listening, stdinCh, runVars, lost>>

SetCompleted ==
    /\ outT = "set" /\ outT' = "ended" /\ completed' = TRUE
    /\ UNCHANGED <<userVars, gwVars, statusCh, wk, inT, listening, stdinCh, runVars, lost>>

\* forward_user_stdin.
ForwardStdin ==
    /\ inT = "on" /\ stdinCh # <<>>
    /\ stdinCh' = Tail(stdinCh)
    /\ inT' = IF completed \/ engine # "running" THEN "ended" ELSE "on"
    /\ UNCHANGED <<userVars, gwVars, statusCh, wk, outT, completed, listening, runVars, lost>>

RelayDone ==
    /\ wk = "relay" /\ completed /\ wk' = "cancel"
    /\ UNCHANGED <<userVars, gwVars, statusCh, outT, inT, completed, listening, stdinCh,
                   runVars, lost>>

\* 120 s without the event.
RelayTimeout ==
    /\ wk = "relay" /\ ~completed /\ wk' = "timedOut"
    /\ PublishStatus("error")
    /\ UNCHANGED <<userVars, gwVars, outT, inT, completed, listening, stdinCh, runVars, lost>>

CancelStdin ==
    /\ wk \in {"cancel", "timedOut"} /\ wk' = "await" /\ inT' = "ended"
    /\ UNCHANGED <<userVars, gwVars, statusCh, outT, completed, listening, stdinCh, runVars, lost>>

\* The output coroutine is awaited before the connection is closed.
AwaitOutput ==
    /\ wk = "await" /\ outT = "ended" /\ wk' = "end"
    /\ listening' = FALSE /\ stdinCh' = <<>>
    /\ UNCHANGED <<userVars, gwVars, statusCh, outT, inT, completed, runVars, lost>>

-----------------------------------------------------------------------------
(* The engine and the student                                                *)

EngineOutput ==
    /\ engine = "running" /\ mode = "interactive"
    /\ engineOut' = Push(engineOut, "running")
    /\ UNCHANGED <<userVars, gwVars, statusCh, wkVars, stdinCh, engine, outcome, lost>>

EngineVerdict ==
    /\ engine = "running" /\ mode = "interactive" /\ engine' = "closed"
    /\ \E v \in Final : engineOut' = Append(engineOut, v) /\ outcome' = v
    /\ UNCHANGED <<userVars, gwVars, statusCh, wkVars, stdinCh, lost>>

EngineLost ==
    /\ engine = "running" /\ mode = "interactive" /\ engine' = "lost"
    /\ outcome' = "error"
    /\ UNCHANGED <<userVars, gwVars, statusCh, wkVars, stdinCh, engineOut, lost>>

\* An input is "ready" once the student has been shown "executing".
Type ==
    /\ client = "open" /\ mode = "interactive" /\ gw = "relay" /\ typedCount < MaxTyped
    /\ typedCount' = typedCount + 1
    /\ LET ready == \E i \in DOMAIN shown : shown[i] = "executing"
       IN typed' \in {Append(typed, IF ready THEN "ready" ELSE "early"), Append(typed, "number")}
    /\ UNCHANGED <<mode, client, gwVars, statusCh, wkVars, stdinCh, runVars, lost>>

Leave ==
    /\ client = "open" /\ client' = "gone"
    /\ UNCHANGED <<mode, typed, typedCount, gwVars, statusCh, wkVars, stdinCh, runVars, lost>>

GatewayStep ==
    \/ Reject \/ Subscribe \/ RunLocally \/ Queue \/ ForwardStatus \/ CancelInput \/ Bill
    \/ ForwardBatch
InputStep == ForwardInput \/ PublishCancel
WorkerStep ==
    \/ TakeTask \/ PrepareFails \/ BatchExecuting \/ BatchEnds \/ Connect \/ ListenStdin
    \/ Announce \/ RelayDone \/ RelayTimeout \/ CancelStdin \/ AwaitOutput
OutputStep == ForwardOutput \/ OutputLost \/ SetCompleted

Next ==
    \/ GatewayStep \/ InputStep \/ WorkerStep \/ OutputStep \/ ForwardStdin
    \/ EngineOutput \/ EngineVerdict \/ EngineLost
    \/ Type \/ Leave

\* Both event loops schedule every coroutine, and the 120 s pass; neither the
\* student nor the student's program owes anything.
Spec ==
    /\ Init /\ [][Next]_vars
    /\ WF_vars(GatewayStep) /\ WF_vars(InputStep) /\ WF_vars(WorkerStep)
    /\ WF_vars(OutputStep) /\ WF_vars(ForwardStdin)

-----------------------------------------------------------------------------
(* Properties                                                                *)

\* Every variable keeps its type; a request has at most one billing transaction.
TypeOK ==
    /\ client \in {"open", "gone"} /\ subscribed \in BOOLEAN /\ listening \in BOOLEAN
    /\ gw \in {"admit", "local", "queue", "relay", "cancel", "bill", "end"}
    /\ gwInput \in {"off", "on", "ended"} /\ completed \in BOOLEAN
    /\ wk \in {"off", "queued", "provision", "batch", "subscribe", "announce", "relay",
               "cancel", "timedOut", "await", "end"}
    /\ outT \in {"off", "recv", "set", "ended"} /\ inT \in {"off", "on", "ended"}
    /\ engine \in {"off", "running", "closed", "lost"}
    /\ typedCount \in 0 .. MaxTyped /\ charged \in 0 .. 1
    /\ outcome \in Final \cup {"none"}

\* The student receives at most one final status, and nothing after it, even
\* when the relay's timeout and the engine's verdict are both published.
OneFinalShown == \A i \in DOMAIN shown : shown[i] \in Final => i = Len(shown)

\* An input typed after the student saw "executing" finds the relay listening,
\* unless the run is over.
ReadyInputHeard == \A x \in lost : x[1] = "ready" => x[2] = "end"

\* An interactive session is charged at most once, and only when the engine
\* itself reported that the program completed.
InteractiveCharge ==
    (mode = "interactive" /\ charged > 0) => charged = 1 /\ outcome = "completed"

\* A student who stays is told how the task ended, however late the worker
\* publishes it: no status falls between the queueing and the subscription.
StudentIsTold ==
    wk = "end" ~> (client = "gone" \/ \E i \in DOMAIN shown : shown[i] \in Final)

\* When the run in the pod ends, or its connection is lost, the relay returns
\* and its pod is cleaned up.
RelayReturns == (engine \in {"closed", "lost"}) ~> wk = "end"

\* A gateway handler whose task has ended ends too.
GatewayEnds == wk = "end" ~> gw = "end"
=============================================================================
