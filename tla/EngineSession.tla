---------------------------- MODULE EngineSession ----------------------------
(***************************************************************************)
(* One interactive run in the native engine: the WebSocket handler of      *)
(* main.cpp with its two threads, the session object and the child process *)
(* they share without a lock (InteractiveSession.hpp, ProcessPipe.hpp).    *)
(*                                                                         *)
(* "main" compiles, starts the child and then feeds it the client's input; *)
(* "out" polls the child, streams its output and sends the verdict.  Each  *)
(* step is one system call or one access to a shared variable.             *)
(***************************************************************************)
EXTENDS Naturals, Sequences

CONSTANTS
    PipeMax,        \* unread chunks of output kept by the model
    StdinMax,       \* chunks of input that fit into the stdin pipe
    Inputs          \* messages the client sends, at most

ASSUME EngineAssumption ==
    PipeMax \in Nat \ {0} /\ StdinMax \in Nat \ {0} /\ Inputs \in Nat

Terminal == {"compile_error", "error", "completed", "timeout"}
ClientMessages == {"stdin", "close", "raw", "other"}

VARIABLES
    pc,         \* place of each thread in the handler
    active,     \* connection_active
    exited, code, memKill, timedOut,   \* exited_, exit_code_, ... of the session
    stdinOpen,  \* stdin_pipe_[1] >= 0
    idle,       \* has 15 s passed since last_io_time_?
    child,      \* the process, seen from the kernel
    fate,       \* how it ended
    pipe,       \* chunks of output it wrote and nobody read
    unread,     \* chunks of input written to it and not read yet
    found,      \* has_exited's local: what waitpid(WNOHANG) returned
    chunk,      \* read_fd's local: data read so far?
    socket,     \* the WebSocket
    inbox,      \* client messages not read yet
    asked,      \* how many messages the client has sent
    verdict,    \* terminal statuses the client received, with their details
    late,       \* did the client receive anything after a terminal status?
    strayKill   \* did kill() name a process already reaped?

session == <<exited, code, memKill, timedOut, stdinOpen>>
process == <<child, fate, pipe, unread>>
client == <<socket, inbox, asked>>
seen == <<verdict, late>>
vars == <<pc, active, session, idle, process, found, chunk, client, seen, strayKill>>

Init ==
    /\ pc = [main |-> "receive", out |-> "off"]
    /\ active = FALSE
    /\ exited = FALSE /\ code = "unset" /\ memKill = FALSE /\ timedOut = FALSE
    /\ stdinOpen = FALSE /\ idle = FALSE
    /\ child = "none" /\ fate = "none" /\ pipe = 0 /\ unread = 0
    /\ found = "none" /\ chunk = FALSE
    /\ socket = "open" /\ inbox = <<>> /\ asked = 0
    /\ verdict = <<>> /\ late = FALSE /\ strayKill = FALSE

Goto(th, there) == pc' = [pc EXCEPT ![th] = there]
At(th, here) == pc[th] = here

\* ws.send: lost once the socket is closed.
SendUpdate ==
    /\ late' = (late \/ (socket = "open" /\ verdict # <<>>))
    /\ UNCHANGED verdict
SendVerdict(s) ==
    /\ late' = (late \/ (socket = "open" /\ verdict # <<>>))
    /\ verdict' = IF socket = "open"
                  THEN Append(verdict, [status |-> s, code |-> code, mem |-> memKill])
                  ELSE verdict

CloseSocket == socket' = IF socket = "open" THEN "closing" ELSE socket

-----------------------------------------------------------------------------
(* The main thread up to the two loops                                       *)

Receive ==
    /\ At("main", "receive")
    /\ \/ Goto("main", "compile") /\ socket = "open" /\ SendUpdate /\ UNCHANGED socket
       \/ Goto("main", "done") /\ socket = "open" /\ SendVerdict("error") /\ CloseSocket
       \/ Goto("main", "done") /\ socket # "open" /\ UNCHANGED <<seen, socket>>
    /\ UNCHANGED <<active, session, idle, process, found, chunk, inbox, asked, strayKill>>

CompileFails ==
    /\ At("main", "compile") /\ Goto("main", "done")
    /\ SendVerdict("compile_error") /\ CloseSocket
    /\ UNCHANGED <<active, session, idle, process, found, chunk, inbox, asked, strayKill>>

\* A language with nothing to execute (WASM) answers twice: "completed", then its output.
CompileOnlyVerdict ==
    /\ At("main", "compile") /\ Goto("main", "artifact")
    /\ SendVerdict("completed")
    /\ UNCHANGED <<active, session, idle, process, found, chunk, client, strayKill>>

CompileOnlyOutput ==
    /\ At("main", "artifact") /\ Goto("main", "done")
    /\ SendUpdate /\ CloseSocket
    /\ UNCHANGED <<active, session, idle, process, found, chunk, inbox, asked, strayKill>>

StartFails ==
    /\ At("main", "compile") /\ Goto("main", "done")
    /\ SendVerdict("error") /\ CloseSocket
    /\ UNCHANGED <<active, session, idle, process, found, chunk, inbox, asked, strayKill>>

StartExecution ==
    /\ At("main", "compile")
    /\ pc' = [main |-> "while", out |-> "loop"]
    /\ child' = "running" /\ stdinOpen' = TRUE /\ active' = TRUE
    /\ SendUpdate
    /\ UNCHANGED <<exited, code, memKill, timedOut, idle, fate, pipe, unread, found, chunk,
                   client, strayKill>>

-----------------------------------------------------------------------------
(* terminate(), called by either thread: guard, kill, waitpid, bookkeeping    *)

Return(th) == IF th = "out" THEN "hasExited" ELSE "join"

TerminateGuard(th) ==
    /\ At(th, "terminate")
    /\ Goto(th, IF exited THEN Return(th) ELSE "kill")
    /\ UNCHANGED <<active, session, idle, process, found, chunk, client, seen, strayKill>>

Kill(th) ==
    /\ At(th, "kill") /\ Goto(th, "wait")
    /\ IF child = "running" THEN child' = "zombie" /\ fate' = "killed"
                            ELSE UNCHANGED <<child, fate>>
    /\ strayKill' = (strayKill \/ child = "reaped")
    /\ UNCHANGED <<active, session, idle, pipe, unread, found, chunk, client, seen>>

\* Mutant: terminate() forgets to reap the child.
WaitNot(th) ==
    /\ At(th, "wait") /\ Goto(th, "killed")
    /\ UNCHANGED <<active, session, idle, process, found, chunk, client, seen, strayKill>>

\* The blocking waitpid; it fails at once if the other thread has reaped.
Wait(th) ==
    /\ At(th, "wait") /\ child \in {"zombie", "reaped"} /\ Goto(th, "killed")
    /\ child' = "reaped"
    /\ UNCHANGED <<active, session, idle, fate, pipe, unread, found, chunk, client, seen, strayKill>>

Killed(th) ==
    /\ At(th, "killed") /\ Goto(th, Return(th))
    /\ exited' = TRUE /\ code' = "999"
    /\ UNCHANGED <<active, memKill, timedOut, stdinOpen, idle, process, found, chunk,
                   client, seen, strayKill>>

-----------------------------------------------------------------------------
(* The output thread                                                         *)

\* Mutant: the idle timeout is never looked at.
PollNoIdle ==
    /\ At("out", "loop") /\ Goto("out", IF active THEN "hasExited" ELSE "afterLoop")
    /\ UNCHANGED <<active, session, idle, process, found, chunk, client, seen, strayKill>>

Poll ==
    /\ At("out", "loop") /\ Goto("out", IF active THEN "checkIdle" ELSE "afterLoop")
    /\ UNCHANGED <<active, session, idle, process, found, chunk, client, seen, strayKill>>

\* Mutant: the idle child is killed without being marked as timed out.
CheckIdleUnmarked ==
    /\ At("out", "checkIdle") /\ Goto("out", IF idle THEN "terminate" ELSE "hasExited")
    /\ UNCHANGED <<active, session, idle, process, found, chunk, client, seen, strayKill>>

\* is_running: the idle timeout comes before has_exited.
CheckIdle ==
    /\ At("out", "checkIdle") /\ Goto("out", IF idle THEN "terminate" ELSE "hasExited")
    /\ timedOut' = (timedOut \/ idle)
    /\ UNCHANGED <<active, exited, code, memKill, stdinOpen, idle, process, found, chunk,
                   client, seen, strayKill>>

\* has_exited: the exited_ test and waitpid(WNOHANG).
HasExited ==
    /\ At("out", "hasExited")
    /\ \/ exited /\ Goto("out", "afterLoop") /\ UNCHANGED <<child, found>>
       \/ ~exited /\ child = "running" /\ Goto("out", "readOut") /\ UNCHANGED <<child, found>>
       \/ /\ ~exited /\ child \in {"zombie", "reaped"} /\ Goto("out", "noteExit")
          /\ found' = IF child = "zombie" THEN fate ELSE "error"
          /\ child' = "reaped"
    /\ UNCHANGED <<active, session, idle, fate, pipe, unread, chunk, client, seen, strayKill>>

\* has_exited: what it notes of the status; any SIGKILL counts as memory.
NoteExit ==
    /\ At("out", "noteExit") /\ Goto("out", "afterLoop")
    /\ exited' = TRUE
    /\ code' = CASE found = "error" -> "unset"
                 [] found = "exit" -> "own"
                 [] OTHER -> "signal"
    /\ memKill' = (memKill \/ found \in {"oom", "killed"})
    /\ UNCHANGED <<active, timedOut, stdinOpen, idle, process, found, chunk, client, seen,
                   strayKill>>

\* read_fd: one more chunk, until the pipe is empty; then the chunks are sent.
ReadChunk ==
    /\ pc["out"] \in {"readOut", "final"} /\ pipe > 0
    /\ pipe' = pipe - 1 /\ chunk' = TRUE /\ idle' = FALSE
    /\ UNCHANGED <<pc, active, session, child, fate, unread, found, client, seen, strayKill>>

ReadEnds ==
    /\ pc["out"] \in {"readOut", "final"} /\ pipe = 0
    /\ Goto("out", IF pc["out"] = "readOut" THEN "loop" ELSE "verdict")
    /\ chunk' = FALSE
    /\ IF chunk THEN SendUpdate ELSE UNCHANGED seen
    /\ UNCHANGED <<active, session, idle, process, found, client, strayKill>>

\* dump() throws on text that is not UTF-8, such as a chunk that ends inside a
\* character.  Nothing in the output thread catches it: the engine aborts and its
\* container, whose first process it is, ends with it.
SendThrows ==
    /\ pc["out"] \in {"readOut", "final"} /\ pipe = 0 /\ chunk
    /\ pc' = [main |-> "dead", out |-> "dead"]
    /\ child' = "reaped" /\ socket' = "closed"
    /\ UNCHANGED <<active, session, idle, fate, pipe, unread, found, chunk, inbox, asked, seen, strayKill>>

\* Mutant: the output written since the last poll is not read.
AfterLoopNoRead ==
    /\ At("out", "afterLoop") /\ Goto("out", IF active THEN "verdict" ELSE "ended")
    /\ UNCHANGED <<active, session, idle, process, found, chunk, client, seen, strayKill>>

AfterLoop ==
    /\ At("out", "afterLoop") /\ Goto("out", IF active THEN "final" ELSE "ended")
    /\ UNCHANGED <<active, session, idle, process, found, chunk, client, seen, strayKill>>

\* Mutant: a timed out run is reported as timed out, and again as completed.
VerdictTwice ==
    /\ At("out", "verdict")
    /\ IF timedOut /\ verdict = <<>> /\ socket = "open"
       THEN SendVerdict("timeout") /\ UNCHANGED pc
       ELSE SendVerdict("completed") /\ Goto("out", "close")
    /\ UNCHANGED <<active, session, idle, process, found, chunk, client, strayKill>>

Verdict ==
    /\ At("out", "verdict") /\ Goto("out", "close")
    /\ SendVerdict(IF timedOut THEN "timeout" ELSE "completed")
    /\ UNCHANGED <<active, session, idle, process, found, chunk, client, strayKill>>

\* Mutant: the socket is left open after the verdict.
OutCloseNot ==
    /\ At("out", "close") /\ Goto("out", "ended")
    /\ active' = FALSE
    /\ UNCHANGED <<session, idle, process, found, chunk, client, seen, strayKill>>

OutClose ==
    /\ At("out", "close") /\ Goto("out", "ended")
    /\ active' = FALSE /\ CloseSocket
    /\ UNCHANGED <<session, idle, process, found, chunk, inbox, asked, seen, strayKill>>

-----------------------------------------------------------------------------
(* The main thread's input loop and its end                                  *)

\* The while condition, tested before each blocking read.
WhileActive ==
    /\ At("main", "while") /\ Goto("main", IF active THEN "read" ELSE "join")
    /\ UNCHANGED <<active, session, idle, process, found, chunk, client, seen, strayKill>>

\* stdin_data and raw text are to be written, unless stdin has been closed: then
\* write_stdin drops them.  JSON with neither key is dropped.
ReadInput ==
    /\ At("main", "read") /\ inbox # <<>>
    /\ inbox' = Tail(inbox)
    /\ LET m == Head(inbox) IN
        /\ Goto("main", CASE m = "stdin" /\ stdinOpen -> "write"
                          [] m = "raw" /\ stdinOpen -> "writeRaw"
                          [] OTHER -> "while")
        /\ idle' = IF m \in {"stdin", "raw"} /\ stdinOpen THEN FALSE ELSE idle
        /\ stdinOpen' = (stdinOpen /\ m # "close")
    /\ UNCHANGED <<active, exited, code, memKill, timedOut, process, found, chunk,
                   socket, asked, seen, strayKill>>

\* The pipe is blocking: write() waits for room, or fails once the child is gone.
\* stdin is closed behind stdin_data; raw text leaves it open.
WriteInput ==
    /\ pc["main"] \in {"write", "writeRaw"} /\ (child = "running" => unread < StdinMax)
    /\ Goto("main", "while")
    /\ unread' = IF child = "running" THEN unread + 1 ELSE unread
    /\ stdinOpen' = At("main", "writeRaw")
    /\ UNCHANGED <<active, exited, code, memKill, timedOut, idle, child, fate, pipe, found,
                   chunk, client, seen, strayKill>>

\* The peer closed, or the output thread did.
ReadFail ==
    /\ At("main", "read") /\ socket # "open" /\ (inbox = <<>> \/ socket = "closing")
    /\ Goto("main", "terminate") /\ active' = FALSE
    /\ UNCHANGED <<session, idle, process, found, chunk, client, seen, strayKill>>

\* join, then the destructors: ~ProcessPipe terminates what still runs.
Join ==
    /\ At("main", "join") /\ pc["out"] = "ended"
    /\ IF exited THEN Goto("main", "done") ELSE Goto("main", "terminate")
    /\ active' = FALSE
    /\ UNCHANGED <<session, idle, process, found, chunk, client, seen, strayKill>>

-----------------------------------------------------------------------------
(* The child, the clock and the client                                       *)

ChildWrites ==
    /\ child = "running" /\ pipe < PipeMax
    /\ pipe' = pipe + 1
    /\ UNCHANGED <<pc, active, session, idle, child, fate, unread, found, chunk, client, seen, strayKill>>

ChildReads ==
    /\ child = "running" /\ unread > 0
    /\ unread' = unread - 1
    /\ UNCHANGED <<pc, active, session, idle, child, fate, pipe, found, chunk, client, seen, strayKill>>

ChildEnds ==
    /\ child = "running" /\ child' = "zombie"
    /\ fate' \in {"exit", "oom"}
    /\ UNCHANGED <<pc, active, session, idle, pipe, unread, found, chunk, client, seen, strayKill>>

\* 15 s without input written or output read, because there was none or because
\* the output thread waited in ws.send.
GoIdle ==
    /\ child # "none" /\ ~idle /\ idle' = TRUE
    /\ UNCHANGED <<pc, active, session, process, found, chunk, client, seen, strayKill>>

ClientSends ==
    /\ socket = "open" /\ asked < Inputs
    /\ \E m \in ClientMessages : inbox' = Append(inbox, m)
    /\ asked' = asked + 1
    /\ UNCHANGED <<pc, active, session, idle, process, found, chunk, socket, seen, strayKill>>

ClientCloses ==
    /\ socket = "open" /\ socket' = "closed"
    /\ UNCHANGED <<pc, active, session, idle, process, found, chunk, inbox, asked, seen, strayKill>>

Terminating(th) == TerminateGuard(th) \/ Kill(th) \/ Wait(th) \/ Killed(th)

MainStep ==
    \/ Receive \/ CompileFails \/ CompileOnlyVerdict \/ CompileOnlyOutput \/ StartFails
    \/ StartExecution \/ WhileActive \/ ReadInput \/ WriteInput \/ ReadFail
    \/ Join \/ Terminating("main")

OutStep ==
    \/ Poll \/ CheckIdle \/ HasExited \/ NoteExit \/ ReadChunk \/ ReadEnds \/ SendThrows
    \/ AfterLoop \/ Verdict \/ OutClose \/ Terminating("out")

Next ==
    \/ MainStep \/ OutStep
    \/ ChildWrites \/ ChildReads \/ ChildEnds \/ GoIdle \/ ClientSends \/ ClientCloses

\* Both threads run; the child, the client and the clock owe nothing.
Spec == Init /\ [][Next]_vars /\ WF_vars(MainStep) /\ WF_vars(OutStep)

-----------------------------------------------------------------------------
(* Properties                                                                *)

Places ==
    [main : {"receive", "compile", "artifact", "while", "read", "write", "writeRaw", "terminate",
             "kill", "wait", "killed", "join", "done", "dead"},
     out : {"off", "loop", "checkIdle", "terminate", "kill", "wait", "killed", "hasExited",
            "noteExit", "readOut", "afterLoop", "final", "verdict", "close", "ended", "dead"}]
Codes == {"unset", "own", "signal", "999"}
Fates == {"none", "exit", "oom", "killed"}

\* Every variable keeps its type; the threads only stand at their own places.
TypeOK ==
    /\ pc \in Places
    /\ active \in BOOLEAN /\ chunk \in BOOLEAN /\ idle \in BOOLEAN
    /\ exited \in BOOLEAN /\ memKill \in BOOLEAN /\ timedOut \in BOOLEAN
    /\ stdinOpen \in BOOLEAN /\ late \in BOOLEAN /\ strayKill \in BOOLEAN
    /\ code \in Codes
    /\ child \in {"none", "running", "zombie", "reaped"}
    /\ fate \in Fates /\ found \in Fates \cup {"error"}
    /\ pipe \in 0 .. PipeMax /\ unread \in 0 .. StdinMax /\ asked \in 0 .. Inputs
    /\ socket \in {"open", "closing", "closed"}
    /\ inbox \in Seq(ClientMessages)
    /\ verdict \in Seq([status : Terminal, code : Codes, mem : BOOLEAN])

\* The client of a run with a process receives at most one terminal status and
\* nothing after it, whatever the two threads do.
VerdictIsLast == Len(verdict) <= 1 /\ (child # "none" => ~late)

\* When the verdict on a process reaches the client, the process is over and
\* all it wrote has been read before.
OutputBeforeVerdict == (verdict # <<>> /\ child # "none") => child = "reaped" /\ pipe = 0

\* "completed" carries the child's own end: its exit code, or a signal with the
\* memory flag exactly when the kernel killed it; never the engine's own kill.
HonestVerdict == \A i \in DOMAIN verdict :
    (verdict[i].status = "completed" /\ child # "none") =>
        /\ fate \in {"exit", "oom"}
        /\ verdict[i].code = IF fate = "exit" THEN "own" ELSE "signal"
        /\ verdict[i].mem = (fate = "oom")

\* When the handler returns, the child has been reaped, by whichever thread.
ReapedAtEnd == pc["main"] = "done" => child \in {"none", "reaped"}

Over == pc["main"] \in {"done", "dead"}

\* The main thread waits for a running child to read its input.
Blocked ==
    /\ pc["main"] \in {"write", "writeRaw"}
    /\ child = "running" /\ unread = StdinMax

\* When the client leaves, or the run's child ends, the handler returns, unless
\* the engine aborts or the main thread waits for a child that does not read.
HandlerReturns == (socket # "open" \/ child = "zombie") ~> (Over \/ Blocked)

\* A silent child is ended, even one the main thread waits for in write_stdin:
\* the handler returns unless output or input comes.
IdleEnds == (idle /\ (At("main", "read") \/ Blocked)) ~> (~idle \/ Over)
=============================================================================
