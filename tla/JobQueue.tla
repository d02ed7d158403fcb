------------------------------- MODULE JobQueue -------------------------------
(***************************************************************************)
(* What the engine's server expects of its TaskQueue (httplib.h:1464):     *)
(* the connections it hands over are served once each, by somebody, in the *)
(* order in which they came.                                               *)
(***************************************************************************)
EXTENDS Sequences

CONSTANT Conns      \* connections

VARIABLES
    queue,      \* handed over and not served yet
    running,    \* being served
    done        \* served

vars == <<queue, running, done>>

Init == queue = <<>> /\ running = {} /\ done = {}

Waiting == {queue[i] : i \in DOMAIN queue}

\* enqueue
Submit(c) ==
    /\ c \notin Waiting \cup running \cup done
    /\ queue' = Append(queue, c)
    /\ UNCHANGED <<running, done>>

\* A worker takes the oldest job.
Start ==
    /\ queue # <<>>
    /\ running' = running \cup {Head(queue)}
    /\ queue' = Tail(queue)
    /\ UNCHANGED done

Finish(c) ==
    /\ c \in running
    /\ running' = running \ {c} /\ done' = done \cup {c}
    /\ UNCHANGED queue

Next == Start \/ \E c \in Conns : Submit(c) \/ Finish(c)

Spec == Init /\ [][Next]_vars
=============================================================================
