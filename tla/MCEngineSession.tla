--------------------------- MODULE MCEngineSession ---------------------------
(* Instances of EngineSession for TLC, and statements of the engine's comments *)
(* and of its clients that the engine does not keep.                           *)
EXTENDS EngineSession

\* ProcessPipe.hpp:262, terminate "Forcefully terminates the child process":
\* the process that kill() names is still the session's child.
KillsOnlyTheChild == ~strayKill

\* ProcessPipe.hpp:19, "The parent process can write to the child's stdin and read
\* from stdout/stderr without blocking": the client that leaves ends the run.
WritesWithoutBlocking == (socket = "closed" /\ child # "none") ~> Over

\* ws_relay_adapter.py:125, "Check for terminal states": the relay stops reading
\* at the first terminal status, so nothing may follow it.
NothingAfterVerdict == ~late

\* main.cpp:237, "If loop ended because process exited, send final outputs and
\* close": the client that is still connected then receives the verdict.
FinalOutputsSent == pc["out"] = "final" ~> (verdict # <<>> \/ (socket # "open" /\ pc["out"] # "dead"))
=============================================================================
