---------------------------- MODULE JobLifecycle ----------------------------
(***************************************************************************)
(* What the worker promises the gateway about one execution task, whatever *)
(* pods and leases it takes: the statuses published on                     *)
(* task_status_<task_id> follow provisioning, executing, completed; an     *)
(* error may cut the sequence short; and every task gets a final status    *)
(* unless a Redis command raises.  A final status is the last one for a    *)
(* batch task whose Redis commands succeed.  After one that raised, an     *)
(* error may follow "completed"; an interactive task may get both final    *)
(* statuses in either order, the relay's own at its timeout and the        *)
(* engine's verdict, the second even when its handler has ended.           *)
(***************************************************************************)
CONSTANT Tasks

VARIABLES
    status,   \* last status published for each task
    begun,    \* tasks whose handlers have begun
    over,     \* tasks whose handlers have ended
    relayed,  \* interactive tasks
    failed    \* tasks of which a Redis command has raised

vars == <<status, begun, over, relayed, failed>>

Final == {"completed", "error"}

\* The statuses that may follow each one.
Follow == [none |-> {"provisioning", "error"},
           provisioning |-> {"executing", "error"},
           executing |-> Final,
           completed |-> {}, error |-> {}]

\* What may follow the final status of task t.
Correction(t) ==
    (IF status[t] = "completed" /\ t \in failed \cup relayed THEN {"error"} ELSE {}) \cup
    (IF status[t] = "error" /\ t \in relayed THEN {"completed"} ELSE {})

Init ==
    /\ status = [t \in Tasks |-> "none"]
    /\ begun = {} /\ over = {} /\ relayed = {} /\ failed = {}

\* Publish s; an error may be the last act of the handler, and the call may raise.
Publish(t, s) ==
    /\ status' = [status EXCEPT ![t] = s]
    /\ over' \in {over, over \cup (IF s = "error" THEN {t} ELSE {})}
    /\ failed' \in {failed, failed \cup {t}}

\* The handler begins with a status, or with a command that raises.
Begin(t) ==
    /\ t \notin begun /\ begun' = begun \cup {t}
    /\ relayed' \in {relayed, relayed \cup {t}}
    /\ \/ \E s \in Follow[status[t]] : Publish(t, s)
       \/ failed' = failed \cup {t} /\ UNCHANGED <<status, over>>

Report(t) ==
    /\ t \in begun /\ (t \in over => t \in relayed \cap failed)
    /\ \E s \in Follow[status[t]] \cup Correction(t) : Publish(t, s)
    /\ UNCHANGED <<begun, relayed>>

\* A command raises and tells nobody.
Fail(t) ==
    /\ t \in begun \ over /\ failed' = failed \cup {t}
    /\ UNCHANGED <<status, begun, over, relayed>>

\* Without a final status only if a command raised.
End(t) ==
    /\ t \in begun \ over /\ (status[t] \in Final \/ t \in failed)
    /\ over' = over \cup {t}
    /\ UNCHANGED <<status, begun, relayed, failed>>

Step(t) == Begin(t) \/ Report(t) \/ Fail(t) \/ End(t)

Next == \E t \in Tasks : Step(t)

\* A task that has begun is told how it ended, or its handler ends.
Answer(t) == t \in begun \ over /\ status[t] \notin Final /\ (Report(t) \/ End(t))

Spec == Init /\ [][Next]_vars /\ \A t \in Tasks : WF_vars(Answer(t))
=============================================================================
