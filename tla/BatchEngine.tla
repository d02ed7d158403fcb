----------------------------- MODULE BatchEngine -----------------------------
(***************************************************************************)
(* One batch execution: HttpExecutorAdapter.execute_code posts the task to *)
(* the engine in the pod and retries after a RequestException, and the     *)
(* engine serves every POST on a thread of its own.  A dropped connection  *)
(* does not stop the thread that served it, so the threads of a first and  *)
(* of a retried POST share the engine's SandboxOrchestrator and the files  *)
(* under /tmp.                                                             *)
(*                                                                         *)
(* A file is "none", "part" (open for writing, or left incomplete) or      *)
(* "whole".  The program prints a head and a tail; out.txt stands for      *)
(* out.txt and err.txt.  Attempts carry the same task, so only what is     *)
(* complete, and whose output it is, tells two runs apart.                 *)
(* smart_waitpid waits for and kills the direct child alone: what else the *)
(* program has forked, or a compiler started, may go on.  /tmp lies in     *)
(* memory and may run out of space; any write there may fail of that.      *)
(***************************************************************************)
EXTENDS Naturals, FiniteSets

CONSTANTS
    MaxAttempts,   \* stop_after_attempt
    Languages      \* the strategies a task may ask for, a subset of Strategies

\* How a strategy builds and runs: PythonStrategy compiles nothing; Java, C#
\* and Node have no binary path and so no cache; C, C++, Go and Rust cache the
\* binary; the Wasm strategies cache it and return it instead of running it.
\* "unknown" is a name that set_language does not know.
Strategies == {"interpreted", "compiled", "cached", "wasm", "unknown"}

ASSUME BatchAssumption == MaxAttempts \in Nat \ {0} /\ Languages \subseteq Strategies

Attempts == 1 .. MaxAttempts
NoObject == 0

VARIABLES
    language,   \* the strategy the task asks for
    compiles,   \* whether its source compiles
    client,     \* where execute_code is
    attempt,    \* the attempt it is making
    result,     \* what it returned or raised
    engine,     \* the engine's process: "booting", "up" or "dead"
    pc,         \* where the thread that serves each attempt is
    this,       \* the strategy object each thread holds a pointer to
    strategy,   \* the attempt whose object SandboxOrchestrator::strategy owns
    freed,      \* the strategy objects that were deleted
    source,     \* whether the source file is there
    binary,     \* the file that is executed
    executing,  \* the attempts with a process that runs the file now called binary
    linker,     \* whether a compiler that was killed has left its linker behind
    cache,      \* the compile cache's file of this source
    read,       \* what copy_file found when it opened its source
    out,        \* the inode called /tmp/out.txt, by the attempt that made it
    stdout,     \* the inode each program writes to
    text,       \* the pieces of output in each inode
    reply,      \* the engine's answer to each attempt
    met,        \* history: attempts that shared the engine with another one
    hindered    \* history: attempts hindered by a process an earlier one left, or by lack of space

clientVars == <<client, attempt, result>>
objectVars == <<this, strategy, freed>>
buildVars == <<source, binary, executing, linker, cache, read>>
outputVars == <<out, stdout, text>>
histories == <<met, hindered>>
taskVars == <<language, compiles>>
vars == <<taskVars, clientVars, engine, pc, objectVars, buildVars, outputVars, reply, histories>>

NoReply == [verdict |-> "none", text |-> {}]
Whole(a) == {<<a, "head">>, <<a, "tail">>}

\* The threads that still use what the engine's requests share.
Serving == {a \in Attempts : pc[a] \notin {"idle", "respond", "done", "gone"}}

\* The programs that have left a process behind.
LeftBehind == {a \in executing : pc[a] \notin {"running", "printing"}}

Init ==
    /\ language \in Languages /\ compiles \in BOOLEAN
    /\ language \in {"interpreted", "unknown"} => compiles
    /\ client = "probe" /\ attempt = 1 /\ result = "none"
    /\ engine \in {"booting", "up"}
    /\ pc = [a \in Attempts |-> "idle"]
    /\ this = [a \in Attempts |-> NoObject]
    /\ strategy = NoObject /\ freed = {}
    /\ source = FALSE /\ binary = "none" /\ executing = {} /\ linker = FALSE /\ cache = "none"
    /\ read = [a \in Attempts |-> "none"]
    /\ out = 0
    /\ stdout = [a \in Attempts |-> 0]
    /\ text = [a \in Attempts |-> {}]
    /\ reply = [a \in Attempts |-> NoReply]
    /\ met = {} /\ hindered = {}

Goto(a, there) == pc' = [pc EXCEPT ![a] = there]

Hindered(a) == hindered' = hindered \cup ({a} \ met) /\ UNCHANGED met

\* A thread's handler returns: its locals are gone.
Leave(a) ==
    /\ Goto(a, "done")
    /\ this' = [this EXCEPT ![a] = NoObject]
    /\ read' = [read EXCEPT ![a] = "none"]
    /\ stdout' = [stdout EXCEPT ![a] = 0]
    /\ reply' = [reply EXCEPT ![a] = NoReply]
    /\ text' = [text EXCEPT ![a] = IF out = a \/ \E b \in Attempts \ {a} : stdout[b] = a THEN @ ELSE {}]
    /\ UNCHANGED <<strategy, freed, source, binary, executing, linker, cache, out>>

-----------------------------------------------------------------------------
(* The adapter in the orchestrator. *)

\* The container's engine binds its port.
EngineStarts ==
    /\ engine = "booting" /\ engine' = "up"
    /\ UNCHANGED <<taskVars, clientVars, pc, objectVars, buildVars, outputVars, reply, histories>>

Return(r) == client' = "done" /\ result' = r /\ UNCHANGED attempt

\* Mutant: wait_for_port waits for a container that starts.
PortNotOpenWaits ==
    /\ client = "probe" /\ engine = "dead"
    /\ Return("refused")
    /\ UNCHANGED <<taskVars, engine, pc, objectVars, buildVars, outputVars, reply, histories>>

\* wait_for_port gives up after 2 s: a ConnectionRefusedError, never retried.
PortNotOpen ==
    /\ client = "probe" /\ engine # "up"
    /\ Return("refused")
    /\ UNCHANGED <<taskVars, engine, pc, objectVars, buildVars, outputVars, reply, histories>>

PortOpen ==
    /\ client = "probe" /\ engine = "up"
    /\ client' = "post"
    /\ UNCHANGED <<taskVars, attempt, result, engine, pc, objectVars, buildVars, outputVars, reply, histories>>

\* requests.post reaches the engine and a thread of the server takes it.
Post ==
    /\ client = "post" /\ engine = "up"
    /\ client' = "wait"
    /\ Goto(attempt, "set")
    /\ met' = IF Serving = {} THEN met ELSE met \cup Serving \cup {attempt}
    /\ UNCHANGED <<taskVars, attempt, result, engine, objectVars, buildVars, outputVars, reply, hindered>>

\* tenacity: the next attempt, or the last one's exception.
Retry ==
    IF attempt < MaxAttempts
    THEN client' = "probe" /\ attempt' = attempt + 1 /\ UNCHANGED result
    ELSE Return("lost")

\* A RequestException: no connection, a connection that is reset, or 120 s
\* without an answer.  The engine's thread is not told.
RequestFails ==
    /\ client \in {"post", "wait"}
    /\ Retry
    /\ UNCHANGED <<taskVars, engine, pc, objectVars, buildVars, outputVars, reply, histories>>

\* The response arrives; for a status other than 200 execute_code raises, which is not
\* retried either.
Answered ==
    /\ client = "wait" /\ pc[attempt] = "respond"
    /\ Return("answered")
    /\ Leave(attempt)
    /\ UNCHANGED <<taskVars, engine, histories>>

\* The thread answers a connection that is gone.
AnswersNobody(a) ==
    /\ pc[a] = "respond" /\ (client # "wait" \/ attempt # a)
    /\ Leave(a)
    /\ UNCHANGED <<taskVars, clientVars, engine, histories>>

-----------------------------------------------------------------------------
(* The engine's threads. *)

\* res.set_content; a run's text may not be UTF-8, then dump() throws and the
\* json::exception is answered as a bad request.
Reply(a, verdict, pieces) ==
    /\ \/ reply' = [reply EXCEPT ![a] = [verdict |-> verdict, text |-> pieces]]
       \/ /\ pieces # {} /\ language # "wasm"
          /\ reply' = [reply EXCEPT ![a] = [verdict |-> "http400", text |-> {}]]
    /\ Goto(a, "respond")

\* The process dies of a deleted object: every thread ends with it.
Crash ==
    /\ engine' = "dead"
    /\ pc' = [a \in Attempts |-> IF pc[a] \in {"idle", "done"} THEN pc[a] ELSE "gone"]
    /\ UNCHANGED <<taskVars, clientVars, objectVars, buildVars, outputVars, reply, histories>>

\* A thread calls a virtual function of an object that another one deleted:
\* the process dies, unless the memory still looks like the object.
UsesDeleted(a) ==
    /\ this[a] \in freed /\ pc[a] \in {"swap", "compile", "execute"}
    /\ Crash

\* set_language: an unknown language throws; else the thread reads the pointer
\* that its assignment will delete.
ReadOldStrategy(a) ==
    /\ pc[a] = "set"
    /\ IF language = "unknown"
       THEN Reply(a, "http500", {}) /\ UNCHANGED this
       ELSE Goto(a, "swap") /\ this' = [this EXCEPT ![a] = strategy] /\ UNCHANGED reply
    /\ UNCHANGED <<taskVars, clientVars, engine, strategy, freed, buildVars, outputVars, histories>>

\* ... and then stores its own object and deletes that one.
SwapStrategy(a) ==
    /\ pc[a] = "swap"
    /\ strategy' = a
    /\ freed' = freed \cup ({this[a]} \ {NoObject})
    /\ Goto(a, "run")
    /\ UNCHANGED <<taskVars, clientVars, engine, this, buildVars, outputVars, reply, histories>>

\* Mutant: run() uses the strategy that was current before set_language.
LoadStale(a, from, to) ==
    /\ pc[a] = from /\ Goto(a, to)
    /\ this' = [this EXCEPT ![a] = IF this[a] = NoObject THEN strategy ELSE @]
    /\ UNCHANGED <<taskVars, clientVars, engine, strategy, freed, buildVars, outputVars, reply, histories>>

\* run() dereferences strategy for compile and again for execute.
LoadStrategy(a, from, to) ==
    /\ pc[a] = from /\ Goto(a, to)
    /\ this' = [this EXCEPT ![a] = strategy]
    /\ UNCHANGED <<taskVars, clientVars, engine, strategy, freed, buildVars, outputVars, reply, histories>>

\* compile() up to fork: nothing for an interpreted language, a cached binary
\* if the cache's file exists, else the source is written and compiled.
Compile(a) ==
    /\ pc[a] = "compile"
    /\ \/ /\ language = "interpreted"
          /\ Goto(a, "reload") /\ UNCHANGED source
       \/ /\ language \in {"cached", "wasm"} /\ cache # "none"
          /\ Goto(a, "hit") /\ UNCHANGED source
       \/ /\ language = "compiled" \/ (language \in {"cached", "wasm"} /\ cache = "none")
          /\ Goto(a, "compiling") /\ source' = TRUE
    /\ UNCHANGED <<taskVars, clientVars, engine, objectVars, binary, executing, linker, cache, read, outputVars, reply, histories>>

\* copy_file opens the binary for writing, which fails while a program runs it.
HitBegins(a) ==
    /\ pc[a] = "hit"
    /\ IF executing # {}
       THEN Reply(a, "http500", {}) /\ UNCHANGED <<binary, read>>
       ELSE /\ Goto(a, "copying") /\ UNCHANGED reply
            /\ read' = [read EXCEPT ![a] = cache]
            /\ binary' = "part"
    /\ IF LeftBehind # {} THEN Hindered(a) ELSE UNCHANGED histories
    /\ UNCHANGED <<taskVars, clientVars, engine, objectVars, source, executing, linker, cache, outputVars>>

\* The copy is of what was there when it began or of what is there now.
HitEnds(a) ==
    /\ pc[a] = "copying"
    /\ binary' \in {read[a], cache}
    /\ read' = [read EXCEPT ![a] = "none"]
    /\ Goto(a, "reload")
    /\ UNCHANGED <<taskVars, clientVars, engine, objectVars, source, executing, linker, cache, outputVars, reply, histories>>

HitFails(a) ==
    /\ pc[a] = "copying"
    /\ read' = [read EXCEPT ![a] = "none"]
    /\ Reply(a, "http500", {}) /\ Hindered(a)
    /\ UNCHANGED <<taskVars, clientVars, engine, objectVars, source, binary, executing, linker, cache, outputVars>>

\* The compiler has read a correct source and replaces the binary.
CompilerWrites(a) ==
    /\ pc[a] = "compiling" /\ compiles /\ source
    /\ binary' = "part" /\ executing' = {}
    /\ Goto(a, "linking")
    /\ UNCHANGED <<taskVars, clientVars, engine, objectVars, source, linker, cache, read, outputVars, reply, histories>>

CompilerEnds(a) ==
    /\ pc[a] = "linking"
    /\ binary' = "whole"
    /\ Goto(a, IF language = "compiled" THEN "reload" ELSE "save")
    /\ UNCHANGED <<taskVars, clientVars, engine, objectVars, source, executing, linker, cache, read, outputVars, reply, histories>>

CompilerFails(a) ==
    /\ \/ pc[a] = "compiling" /\ ~(compiles /\ source) /\ UNCHANGED histories
       \/ pc[a] \in {"compiling", "linking"} /\ Hindered(a)
    /\ Reply(a, "compile_error", {})
    /\ UNCHANGED <<taskVars, clientVars, engine, objectVars, buildVars, outputVars>>

\* Mutant: the status of a compiler that was killed is not looked at.
CompilerKilledUnseen(a) ==
    /\ pc[a] \in {"compiling", "linking"}
    /\ Goto(a, IF language = "compiled" THEN "reload" ELSE "save")
    /\ UNCHANGED <<taskVars, clientVars, engine, objectVars, buildVars, outputVars, reply, histories>>

\* smart_waitpid kills a compiler after 60 s, but not what it has started.
CompilerKilled(a) ==
    /\ pc[a] \in {"compiling", "linking"}
    /\ Reply(a, "compile_killed", {})
    /\ linker' \in {linker, TRUE}
    /\ UNCHANGED <<taskVars, clientVars, engine, objectVars, source, binary, executing, cache, read, outputVars, histories>>

\* Such a linker may still replace the binary.
LinkerWrites ==
    /\ linker /\ compiles
    /\ binary' \in {"part", "whole"} /\ executing' = {}
    /\ hindered' = hindered \cup (Serving \ met)
    /\ UNCHANGED <<taskVars, clientVars, engine, pc, objectVars, source, linker, cache, read, outputVars, reply, met>>

LinkerEnds ==
    /\ linker /\ linker' = FALSE
    /\ UNCHANGED <<taskVars, clientVars, engine, pc, objectVars, source, binary, executing, cache, read, outputVars, reply, histories>>

\* copy_file to the cache throws if another thread has removed the binary.
SaveBegins(a) ==
    /\ pc[a] = "save"
    /\ IF binary = "none"
       THEN Reply(a, "http500", {}) /\ UNCHANGED <<cache, read>>
       ELSE /\ Goto(a, "saving") /\ UNCHANGED reply
            /\ read' = [read EXCEPT ![a] = binary]
            /\ cache' = "part"
    /\ UNCHANGED <<taskVars, clientVars, engine, objectVars, source, binary, executing, linker, outputVars, histories>>

SaveEnds(a) ==
    /\ pc[a] = "saving"
    /\ cache' \in {read[a], IF binary = "none" THEN read[a] ELSE binary}
    /\ read' = [read EXCEPT ![a] = "none"]
    /\ Goto(a, "reload")
    /\ UNCHANGED <<taskVars, clientVars, engine, objectVars, source, binary, executing, linker, outputVars, reply, histories>>

\* A copy that fails leaves the cache's file as far as it came.
SaveFails(a) ==
    /\ pc[a] = "saving"
    /\ read' = [read EXCEPT ![a] = "none"]
    /\ Reply(a, "http500", {}) /\ Hindered(a)
    /\ UNCHANGED <<taskVars, clientVars, engine, objectVars, source, binary, executing, linker, cache, outputVars>>

\* execute() up to fork: an interpreted source is opened for writing first.
Execute(a) ==
    /\ pc[a] = "execute" /\ language # "wasm"
    /\ IF language = "interpreted"
       THEN Goto(a, "script") /\ binary' = "part" /\ UNCHANGED out
       ELSE Goto(a, "fork") /\ out' = 0 /\ UNCHANGED binary
    /\ UNCHANGED <<taskVars, clientVars, engine, objectVars, source, executing, linker, cache, read, stdout, text, reply, histories>>

\* Nobody looks whether the stream has failed.
WriteScript(a) ==
    /\ pc[a] = "script"
    /\ \/ binary' = "whole" /\ UNCHANGED histories
       \/ binary' = "part" /\ Hindered(a)
    /\ out' = 0
    /\ Goto(a, "fork")
    /\ UNCHANGED <<taskVars, clientVars, engine, objectVars, source, executing, linker, cache, read, stdout, text, reply>>

\* A Wasm strategy returns the binary and removes it with its source.
ReturnBinary(a) ==
    /\ pc[a] = "execute" /\ language = "wasm"
    /\ Reply(a, IF binary = "none" THEN "damaged" ELSE "exit0",
             CASE binary = "whole" -> Whole(a) [] binary = "part" -> {<<a, "head">>} [] OTHER -> {})
    /\ binary' = "none" /\ source' = FALSE
    /\ UNCHANGED <<taskVars, clientVars, engine, objectVars, executing, linker, cache, read, outputVars, histories>>

\* The child ends and smart_waitpid reaps it; a process it has forked runs on.
ChildEnds(a, verdict) ==
    /\ Goto(a, "read")
    /\ executing' \in {executing, executing \ {a}}
    /\ reply' = [reply EXCEPT ![a].verdict = verdict]
    /\ UNCHANGED <<taskVars, clientVars, engine, objectVars, source, binary, linker, cache, read, out, stdout>>

\* The child opens out.txt with O_CREAT | O_TRUNC and executes the binary,
\* which fails if that is missing or being written.
ChildStarts(a) ==
    /\ pc[a] = "fork"
    /\ LET inode == IF out = 0 THEN a ELSE out IN
       /\ out' = inode
       /\ stdout' = [stdout EXCEPT ![a] = inode]
       /\ text' = [text EXCEPT ![inode] = {}]
    /\ IF binary = "whole"
       THEN /\ Goto(a, "running") /\ UNCHANGED reply
            /\ executing' = IF language = "cached" THEN executing \cup {a} ELSE executing
       ELSE /\ Goto(a, "read") /\ UNCHANGED executing
            /\ reply' = [reply EXCEPT ![a].verdict = "damaged"]
    /\ UNCHANGED <<taskVars, clientVars, engine, objectVars, source, binary, linker, cache, read, histories>>

\* The child has copied a deleted object and dies of its virtual calls.
ChildDies(a) ==
    /\ pc[a] = "fork" /\ this[a] \in freed
    /\ ChildEnds(a, "damaged") /\ UNCHANGED <<text, histories>>

\* Without space some of what is printed is lost.
Prints(a, piece) ==
    \/ text' = [text EXCEPT ![stdout[a]] = @ \cup {<<a, piece>>}] /\ UNCHANGED histories
    \/ Hindered(a) /\ UNCHANGED text

PrintHead(a) ==
    /\ pc[a] = "running" /\ Goto(a, "printing") /\ Prints(a, "head")
    /\ UNCHANGED <<taskVars, clientVars, engine, objectVars, buildVars, out, stdout, reply>>

\* The program prints the rest and exits with 0.
ProgramExits(a) ==
    /\ pc[a] = "printing"
    /\ ChildEnds(a, "exit0") /\ Prints(a, "tail")

\* It may fail or crash before that.
ProgramFails(a) ==
    /\ pc[a] \in {"running", "printing"}
    /\ ChildEnds(a, "failed") /\ UNCHANGED <<text, histories>>

\* Mutant: a program that runs for ever is waited for.
NeverKilled(a) == pc[a] = "printing" /\ ChildEnds(a, "failed") /\ UNCHANGED <<text, histories>>

\* smart_waitpid kills a program after 5 s.
ProgramKilled(a) ==
    /\ pc[a] \in {"running", "printing"}
    /\ ChildEnds(a, "failed") /\ UNCHANGED <<text, histories>>

LeftoverEnds(a) ==
    /\ a \in executing /\ pc[a] \notin {"running", "printing"}
    /\ executing' = executing \ {a}
    /\ UNCHANGED <<taskVars, clientVars, engine, pc, objectVars, source, binary, linker, cache, read, outputVars, reply, histories>>

\* Mutant: the output is read before the child has been waited for.
ReadOutputEarly(a) ==
    /\ pc[a] \in {"read", "printing"}
    /\ Reply(a, IF pc[a] = "read" THEN reply[a].verdict ELSE "exit0", IF out = 0 THEN {} ELSE text[out])
    /\ UNCHANGED <<taskVars, clientVars, engine, objectVars, buildVars, outputVars, histories>>

\* read_file of whatever out.txt is now.
ReadOutput(a) ==
    /\ pc[a] = "read"
    /\ Reply(a, reply[a].verdict, IF out = 0 THEN {} ELSE text[out])
    /\ UNCHANGED <<taskVars, clientVars, engine, objectVars, buildVars, outputVars, histories>>

-----------------------------------------------------------------------------
\* What the engine does by itself.
ThreadStep(a) ==
    \/ AnswersNobody(a) \/ ReadOldStrategy(a) \/ SwapStrategy(a)
    \/ LoadStrategy(a, "run", "compile") \/ LoadStrategy(a, "reload", "execute")
    \/ Compile(a) \/ HitBegins(a) \/ HitEnds(a) \/ HitFails(a)
    \/ SaveBegins(a) \/ SaveEnds(a) \/ SaveFails(a)
    \/ CompilerFails(a) \/ CompilerKilled(a)
    \/ Execute(a) \/ WriteScript(a) \/ ReturnBinary(a) \/ ChildStarts(a)
    \/ ProgramKilled(a) \/ ReadOutput(a)

\* What the compiler and the student's program may do.
ChildStep(a) ==
    \/ CompilerWrites(a) \/ CompilerEnds(a)
    \/ PrintHead(a) \/ ProgramExits(a) \/ ProgramFails(a)
    \/ LeftoverEnds(a)

ClientStep == PortNotOpen \/ PortOpen \/ Post \/ RequestFails \/ Answered

Next ==
    \/ EngineStarts \/ ClientStep \/ LinkerWrites \/ LinkerEnds
    \/ \E a \in Attempts : ThreadStep(a) \/ ChildStep(a) \/ UsesDeleted(a) \/ ChildDies(a)

\* Each thread is scheduled and smart_waitpid's timeouts fire; the adapter's
\* requests time out.  Nothing is assumed of the engine's start or the program.
Fairness == WF_vars(ClientStep) /\ \A a \in Attempts : WF_vars(ThreadStep(a))

Spec == Init /\ [][Next]_vars /\ Fairness

-----------------------------------------------------------------------------
Labels == {"idle", "set", "swap", "run", "compile", "hit", "copying", "compiling", "linking",
           "save", "saving", "reload", "execute", "script", "fork", "running", "printing",
           "read", "respond", "done", "gone"}

Verdicts == {"none", "exit0", "failed", "damaged", "compile_error",
             "compile_killed", "http400", "http500"}

File == {"none", "part", "whole"}
Outputs == SUBSET (Attempts \X {"head", "tail"})

TypeOK ==
    /\ language \in Strategies /\ compiles \in BOOLEAN
    /\ client \in {"probe", "post", "wait", "done"}
    /\ attempt \in Attempts
    /\ result \in {"none", "refused", "lost", "answered"}
    /\ engine \in {"booting", "up", "dead"}
    /\ pc \in [Attempts -> Labels]
    /\ this \in [Attempts -> 0 .. MaxAttempts] /\ strategy \in 0 .. MaxAttempts
    /\ freed \subseteq Attempts
    /\ source \in BOOLEAN /\ executing \subseteq Attempts /\ linker \in BOOLEAN
    /\ binary \in File /\ cache \in File /\ read \in [Attempts -> File]
    /\ out \in 0 .. MaxAttempts /\ stdout \in [Attempts -> 0 .. MaxAttempts]
    /\ text \in [Attempts -> Outputs]
    /\ reply \in [Attempts -> [verdict : Verdicts, text : Outputs]]
    /\ met \subseteq Attempts /\ hindered \subseteq Attempts

\* A retry pays for nothing but what it meets: an attempt that had the engine to itself,
\* and that neither a process left behind nor a lack of space has hindered, is answered
\* with the whole output of its own program and with no failure that is not the
\* program's, whatever files earlier attempts left in /tmp, unless the cache is broken.
AloneIsIntact ==
    \A a \in Attempts :
        pc[a] = "respond" /\ a \notin met \cup hindered /\ cache # "part" /\ language # "unknown" =>
            /\ reply[a].verdict \notin {"damaged", "http500"}
            /\ reply[a].verdict = "exit0" => reply[a].text = Whole(a)
            /\ reply[a].verdict = "compile_error" => ~compiles
            /\ reply[a].text \subseteq Whole(a)

\* No failed, killed or abandoned compilation leaves a broken file in the cache, where
\* every later attempt would take it for the binary; only two threads at a time, a
\* process left behind, or a copy that ran out of space can.
CacheIsSound == cache = "part" => met \cup hindered # {} \/ \E a \in Attempts : pc[a] = "saving"

\* The engine's process dies of a deleted strategy only if two requests met.
EngineSurvives == engine = "dead" => met # {}

\* execute_code returns or raises, whether the engine boots, dies, answers or not.
AdapterReturns == <>(client = "done")

\* Every thread of the engine ends, whatever the compiler and the program do
\* and whether or not anyone waits for its answer.
ThreadsEnd == <>[](\A a \in Attempts : pc[a] \in {"idle", "done", "gone"})
=============================================================================
