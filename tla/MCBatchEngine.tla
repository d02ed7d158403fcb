---------------------------- MODULE MCBatchEngine ----------------------------
(* Instances of BatchEngine for TLC, and what the adapter's comment promises. *)
EXTENDS BatchEngine

\* http_executor_adapter.py:25, "If the pod is slow to start its internal HTTP
\* server", "retry up to 3 times": only the last attempt may give up.
SlowStartRetried == result = "refused" => attempt = MaxAttempts
=============================================================================
