-------------------------- MODULE MCExecutionRelay --------------------------
(* Instances of ExecutionRelay for TLC, and statements of the code's messages *)
(* and comments the code does not keep.                                       *)
EXTENDS ExecutionRelay

\* ws_relay_adapter.py:165, "Interactive session timed out (120s max).": once
\* the timeout is announced, the relay ends.
TimeoutEndsSession == wk = "timedOut" ~> wk = "end"

\* execution_ws.py:187, "Client disconnected, sending cancel signal to worker.":
\* the signal sent while the task is in the system reaches the worker.
CancelHeard == \A x \in lost : x[1] = "cancel" => x[2] = "end"

\* execution_ws.py:229, "Deduct compute credits on successful execution".
ChargedOnSuccess == (mode = "batch" /\ charged > 0) => outcome = "completed"
=============================================================================
