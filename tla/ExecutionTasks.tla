--------------------------- MODULE ExecutionTasks ---------------------------
(* What the modules about the orchestrator's worker share: the tasks that the  *)
(* gateway pushes on execution_queue.  WorkerQueue is about the loop that pops *)
(* them, PodPool about the handlers it gives them to.                          *)

CONSTANT Tasks
=============================================================================
