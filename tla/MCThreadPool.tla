----------------------------- MODULE MCThreadPool -----------------------------
(* An instance of ThreadPool for TLC, and a statement that the pool breaks. *)
EXTENDS ThreadPool, TLC

\* httplib.h:10089, "Spawn a dynamic thread if no idle threads and under max": no
\* connection waits behind running sessions alone while another thread may start.
SpawnsUnderMax == jobs # <<>> =>
    \/ \E t \in Awake : pc[t] # "session"
    \/ Cardinality(dynamic) = Cardinality(Spare)
    \/ listener \in {"cleanup", "notify"}
=============================================================================
