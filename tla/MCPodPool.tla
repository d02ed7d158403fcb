------------------------------ MODULE MCPodPool ------------------------------
(* Instances of PodPool for TLC: symmetry, and the statements of the code's   *)
(* documentation the code does not keep.                                      *)
EXTENDS PodPool, TLC

\* README.md:11, "dynamically provision isolated Pods": two tasks never run in
\* the same live pod at once.
IsolatedPods == \A t, u \in Tasks :
    (/\ pc[t] = "running" /\ pc[u] = "running"
     /\ cur[t] = cur[u] /\ pod[cur[t]] = "ready") => t = u

\* worker.py:127, "Sandbox [...] is ready!": the pod named in an "executing"
\* status still exists when the status is published.
ReadyWhenAnnounced ==
    [][\A t \in Tasks : (status[t] # "executing" /\ status'[t] = "executing")
                           => pod[cur[t]] = "ready"]_vars

Symmetry == Permutations(Tasks) \cup Permutations(WarmPods)
=============================================================================
