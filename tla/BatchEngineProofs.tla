-------------------------- MODULE BatchEngineProofs --------------------------
(***************************************************************************)
(* Proofs about BatchEngine, for any number of attempts.  As long as no    *)
(* two threads have met, at most one serves, and the current strategy was  *)
(* not deleted (Calm).  As long as moreover no attempt was hindered by a   *)
(* process left behind or by a lack of space, the cache is whole unless    *)
(* the one thread is writing it (BuildKept).  The first meeting is         *)
(* recorded in met, the first hindrance in hindered, and nothing is        *)
(* claimed after it.                                                       *)
(*                                                                         *)
(* RetriesAreIntact claims more, also of engines in which others have met  *)
(* or were hindered: a thread that is not in met serves alone (AloneInv),  *)
(* and if it is not in hindered either, what it builds, runs and reads is  *)
(* its own (IntactInv), unless the cache it found was Spoilt by another    *)
(* before; then it stays so.                                               *)
(*                                                                         *)
(* RetriesAreBounded counts the adapter's steps: AdapterLeft falls with    *)
(* each, so it returns after at most three for each attempt.               *)
(***************************************************************************)
EXTENDS BatchEngine, TLAPS

\* The thread of an attempt that was not posted yet has not started.
Fresh ==
    /\ \A b \in Attempts : b > attempt => pc[b] = "idle"
    /\ client \in {"probe", "post"} => pc[attempt] = "idle"

\* The strategy in use is the current one, which was never deleted.
StrategyKept ==
    /\ strategy \notin freed
    /\ \A b \in Attempts : b \in freed \/ b = strategy => pc[b] \notin {"idle", "set", "swap"}
    /\ \A a \in Attempts : pc[a] \in {"swap", "compile", "execute"} => this[a] = strategy

\* The binary that is saved is whole, and so is the cache that is not being saved.
BuildKept ==
    /\ \A a \in Attempts : pc[a] \in {"save", "saving"} => binary = "whole"
    /\ \A a \in Attempts : pc[a] = "saving" => read[a] = "whole"
    /\ cache = "part" => \E a \in Attempts : pc[a] = "saving"

Calm ==
    /\ engine # "dead"
    /\ \A a, b \in Serving : a = b
    /\ StrategyKept

IInv ==
    /\ TypeOK /\ Fresh
    /\ met = {} => Calm
    /\ met \cup hindered = {} => BuildKept

-----------------------------------------------------------------------------
(* Type correctness                                                          *)

LEMMA TypeInit == Init => TypeOK
<1> SUFFICES ASSUME Init PROVE TypeOK
  OBVIOUS
<1>1. 1 \in Attempts /\ 0 \in 0 .. MaxAttempts
  BY BatchAssumption DEF Attempts
<1>2. NoReply \in [verdict : Verdicts, text : Outputs] /\ {} \in Outputs
  BY DEF NoReply, Verdicts, Outputs
<1>3. language \in Strategies
  BY BatchAssumption DEF Init
<1> QED
  BY <1>1, <1>2, <1>3 DEF Init, TypeOK, NoObject, Labels, File

\* The values the actions write are of the right type.
LEMMA Values ==
    /\ {"none", "exit0", "failed", "damaged", "compile_error",
        "compile_killed", "http400", "http500"} \subseteq Verdicts
    /\ {"set", "swap", "run", "compile", "hit", "copying", "compiling", "linking", "save",
        "saving", "reload", "execute", "script", "fork", "running", "printing", "read",
        "respond", "done", "gone"} \subseteq Labels
    /\ {"none", "part", "whole"} \subseteq File
    /\ {} \in Outputs
    /\ \A a \in Attempts : /\ Whole(a) \in Outputs
                          /\ \A t \in Outputs : /\ t \cup {<<a, "head">>} \in Outputs
                                               /\ t \cup {<<a, "tail">>} \in Outputs
    /\ 0 \in 0 .. MaxAttempts /\ Attempts \subseteq 0 .. MaxAttempts
BY BatchAssumption DEF Verdicts, Labels, File, Outputs, Whole, Attempts

LEMMA ReplyType ==
    ASSUME TypeOK, NEW a \in Attempts, NEW v \in Verdicts, NEW t \in Outputs, Reply(a, v, t)
    PROVE  pc' \in [Attempts -> Labels] /\ reply' \in [Attempts -> [verdict : Verdicts, text : Outputs]]
<1>1. PICK r \in [verdict : Verdicts, text : Outputs] : reply' = [reply EXCEPT ![a] = r]
  BY Values DEF Reply
<1> QED
  BY <1>1, Values DEF TypeOK, Reply, Goto

LEMMA LeaveType ==
    ASSUME TypeOK, NEW a \in Attempts, Leave(a)
    PROVE  /\ pc' \in [Attempts -> Labels]
           /\ this' \in [Attempts -> 0 .. MaxAttempts] /\ stdout' \in [Attempts -> 0 .. MaxAttempts]
           /\ read' \in [Attempts -> File]
           /\ reply' \in [Attempts -> [verdict : Verdicts, text : Outputs]]
           /\ text' \in [Attempts -> Outputs]
           /\ UNCHANGED <<strategy, freed, source, binary, executing, linker, cache, out>>
<1>1. NoReply \in [verdict : Verdicts, text : Outputs]
  BY Values DEF NoReply
<1>2. PICK t \in Outputs : text' = [text EXCEPT ![a] = t]
  BY Values DEF Leave, TypeOK
<1> QED
  BY <1>1, <1>2, Values DEF Leave, Goto, TypeOK, NoObject

LEMMA HistoriesType ==
    ASSUME TypeOK, NEW a \in Attempts, UNCHANGED histories \/ Hindered(a)
    PROVE  met' \subseteq Attempts /\ hindered' \subseteq Attempts
BY DEF TypeOK, histories, Hindered

\* The adapter's steps.
LEMMA ClientType == TypeOK /\ (EngineStarts \/ ClientStep) => TypeOK'
<1> SUFFICES ASSUME TypeOK, EngineStarts \/ ClientStep PROVE TypeOK'
  OBVIOUS
<1> USE DEF taskVars, clientVars, objectVars, buildVars, outputVars, histories, TypeOK
<1>1. CASE EngineStarts
  BY <1>1 DEF EngineStarts
<1>2. CASE PortNotOpen \/ PortOpen
  BY <1>2 DEF PortNotOpen, PortOpen, Return
<1>3. CASE Post
  BY <1>3, Values DEF Post, Serving, Goto
<1>4. CASE RequestFails
  <2>1. attempt' \in Attempts
    BY <1>4, BatchAssumption DEF RequestFails, Retry, Return, Attempts
  <2> QED
    BY <2>1, <1>4 DEF RequestFails, Retry, Return
<1>5. CASE Answered
  <2>1. Leave(attempt) /\ UNCHANGED <<taskVars, engine, histories, attempt>>
    BY <1>5 DEF Answered, Return
  <2>2. client' = "done" /\ result' \in {"answered"}
    BY <1>5 DEF Answered, Return
  <2> QED
    BY <2>1, <2>2, LeaveType
<1> QED
  BY <1>1, <1>2, <1>3, <1>4, <1>5 DEF ClientStep

\* The steps that build the program.
LEMMA BuildType ==
    ASSUME TypeOK, NEW a \in Attempts,
           \/ ReadOldStrategy(a) \/ SwapStrategy(a)
           \/ LoadStrategy(a, "run", "compile") \/ LoadStrategy(a, "reload", "execute")
           \/ Compile(a) \/ HitBegins(a) \/ HitEnds(a) \/ HitFails(a)
           \/ SaveBegins(a) \/ SaveEnds(a) \/ SaveFails(a)
           \/ CompilerWrites(a) \/ CompilerEnds(a) \/ CompilerFails(a) \/ CompilerKilled(a)
    PROVE  TypeOK'
<1> USE Values DEF taskVars, clientVars, objectVars, buildVars, outputVars, histories, TypeOK
<1>1. CASE ReadOldStrategy(a)
  <2>1. CASE language = "unknown"
    BY <1>1, <2>1, ReplyType DEF ReadOldStrategy
  <2>2. CASE language # "unknown"
    BY <1>1, <2>2 DEF ReadOldStrategy, Goto
  <2> QED
    BY <2>1, <2>2
<1>2. CASE SwapStrategy(a)
  <2>1. {this[a]} \ {NoObject} \subseteq Attempts
    BY BatchAssumption DEF Attempts, NoObject
  <2> QED
    BY <1>2, <2>1 DEF SwapStrategy, Goto
<1>3. CASE LoadStrategy(a, "run", "compile") \/ LoadStrategy(a, "reload", "execute")
  <2>1. PICK there \in {"compile", "execute"} : pc' = [pc EXCEPT ![a] = there]
    BY <1>3 DEF LoadStrategy, Goto
  <2>2. /\ this' = [this EXCEPT ![a] = strategy]
        /\ UNCHANGED <<taskVars, clientVars, engine, strategy, freed, buildVars, outputVars, reply, histories>>
    BY <1>3 DEF LoadStrategy
  <2> QED
    BY <2>1, <2>2
<1>4. CASE Compile(a)
  <2>1. PICK there \in {"reload", "hit", "compiling"} : pc' = [pc EXCEPT ![a] = there]
    BY <1>4 DEF Compile, Goto
  <2>2. source' \in BOOLEAN
    BY <1>4 DEF Compile
  <2>3. UNCHANGED <<taskVars, clientVars, engine, objectVars, binary, executing, linker, cache, read, outputVars, reply, histories>>
    BY <1>4 DEF Compile
  <2> QED
    BY <2>1, <2>2, <2>3
<1>5. CASE HitBegins(a)
  <2> USE HistoriesType
  <2>1. CASE executing # {}
    BY <1>5, <2>1, ReplyType DEF HitBegins
  <2>2. CASE executing = {}
    BY <1>5, <2>2 DEF HitBegins, Goto
  <2> QED
    BY <2>1, <2>2
<1>6. CASE HitEnds(a)
  BY <1>6 DEF HitEnds, Goto
<1>7. CASE SaveBegins(a)
  <2>1. CASE binary = "none"
    BY <1>7, <2>1, ReplyType DEF SaveBegins
  <2>2. CASE binary # "none"
    BY <1>7, <2>2 DEF SaveBegins, Goto
  <2> QED
    BY <2>1, <2>2
<1>8. CASE SaveEnds(a)
  BY <1>8 DEF SaveEnds, Goto
<1>9. CASE CompilerWrites(a) \/ CompilerEnds(a)
  <2>1. PICK there \in {"linking", "reload", "save"} : pc' = [pc EXCEPT ![a] = there]
    BY <1>9 DEF CompilerWrites, CompilerEnds, Goto
  <2>2. binary' \in {"part", "whole"} /\ executing' \subseteq Attempts
    BY <1>9 DEF CompilerWrites, CompilerEnds
  <2>3. UNCHANGED <<taskVars, clientVars, engine, objectVars, source, linker, cache, read, outputVars, reply, histories>>
    BY <1>9 DEF CompilerWrites, CompilerEnds
  <2> QED
    BY <2>1, <2>2, <2>3
<1>10. CASE CompilerFails(a) \/ CompilerKilled(a)
  <2>1. PICK v \in Verdicts : Reply(a, v, {})
    BY <1>10 DEF CompilerFails, CompilerKilled
  <2>2. met' \subseteq Attempts /\ hindered' \subseteq Attempts
    BY <1>10, HistoriesType DEF CompilerFails, CompilerKilled
  <2>3. linker' \in BOOLEAN
    BY <1>10 DEF CompilerFails, CompilerKilled
  <2>4. pc' \in [Attempts -> Labels] /\ reply' \in [Attempts -> [verdict : Verdicts, text : Outputs]]
    BY <2>1, ReplyType
  <2>5. UNCHANGED <<taskVars, clientVars, engine, objectVars, source, binary, executing, cache, read, outputVars>>
    BY <1>10 DEF CompilerFails, CompilerKilled
  <2> QED
    BY <2>2, <2>3, <2>4, <2>5
<1>11. CASE HitFails(a) \/ SaveFails(a)
  <2>1. Reply(a, "http500", {})
    BY <1>11 DEF HitFails, SaveFails
  <2>2. pc' \in [Attempts -> Labels] /\ reply' \in [Attempts -> [verdict : Verdicts, text : Outputs]]
    BY <2>1, ReplyType
  <2>3. read' = [read EXCEPT ![a] = "none"] /\ Hindered(a)
    BY <1>11 DEF HitFails, SaveFails
  <2>4. met' \subseteq Attempts /\ hindered' \subseteq Attempts
    BY <2>3, HistoriesType
  <2>5. UNCHANGED <<taskVars, clientVars, engine, objectVars, source, binary, executing, linker, cache, outputVars>>
    BY <1>11 DEF HitFails, SaveFails
  <2> QED
    BY <2>2, <2>3, <2>4, <2>5
<1> QED
  BY <1>1, <1>2, <1>3, <1>4, <1>5, <1>6, <1>7, <1>8, <1>9, <1>10, <1>11

\* The steps that run it and answer.
LEMMA RunType ==
    ASSUME TypeOK, NEW a \in Attempts,
           \/ Execute(a) \/ WriteScript(a) \/ ReturnBinary(a) \/ ChildStarts(a) \/ ChildDies(a)
           \/ PrintHead(a) \/ ProgramExits(a) \/ ProgramFails(a) \/ ProgramKilled(a)
           \/ ReadOutput(a) \/ AnswersNobody(a) \/ UsesDeleted(a) \/ LeftoverEnds(a)
    PROVE  TypeOK'
<1> USE Values DEF taskVars, clientVars, objectVars, buildVars, outputVars, histories, TypeOK
<1>1. CASE Execute(a) \/ WriteScript(a)
  <2>1. met' \subseteq Attempts /\ hindered' \subseteq Attempts
    BY <1>1, HistoriesType DEF Execute, WriteScript
  <2>2. PICK there \in {"script", "fork"} : pc' = [pc EXCEPT ![a] = there]
    BY <1>1 DEF Execute, WriteScript, Goto
  <2>3. binary' \in File /\ out' \in {out, 0}
    BY <1>1 DEF Execute, WriteScript
  <2>4. UNCHANGED <<taskVars, clientVars, engine, objectVars, source, executing, linker, cache, read, stdout, text, reply>>
    BY <1>1 DEF Execute, WriteScript
  <2> QED
    BY <2>1, <2>2, <2>3, <2>4
<1>2. CASE ReturnBinary(a)
  <2>1. PICK v \in Verdicts, t \in Outputs : Reply(a, v, t)
    <3>1. (CASE binary = "whole" -> Whole(a) [] binary = "part" -> {<<a, "head">>} [] OTHER -> {}) \in Outputs
      BY DEF Outputs, Whole
    <3> QED
      BY <3>1, <1>2 DEF ReturnBinary
  <2> QED
    BY <2>1, <1>2, ReplyType DEF ReturnBinary
<1>3. CASE ChildStarts(a)
  <2> DEFINE inode == IF out = 0 THEN a ELSE out
  <2>1. inode \in Attempts
    BY BatchAssumption DEF Attempts
  <2>2. /\ out' = inode /\ stdout' = [stdout EXCEPT ![a] = inode]
        /\ text' = [text EXCEPT ![inode] = {}]
    BY <1>3 DEF ChildStarts
  <2>3. /\ out' \in 0 .. MaxAttempts /\ stdout' \in [Attempts -> 0 .. MaxAttempts]
        /\ text' \in [Attempts -> Outputs]
    BY <2>1, <2>2
  <2>4. /\ executing' \in {executing, executing \cup {a}}
        /\ pc' \in {[pc EXCEPT ![a] = "running"], [pc EXCEPT ![a] = "read"]}
        /\ reply' \in {reply, [reply EXCEPT ![a].verdict = "damaged"]}
    BY <1>3 DEF ChildStarts, Goto
  <2>5. /\ executing' \subseteq Attempts /\ pc' \in [Attempts -> Labels]
    BY <2>4
  <2>6. reply' \in [Attempts -> [verdict : Verdicts, text : Outputs]]
    <3>1. CASE reply' = reply
      BY <3>1
    <3>2. CASE reply' = [reply EXCEPT ![a].verdict = "damaged"]
      BY <3>2
    <3> QED
      BY <2>4, <3>1, <3>2
  <2>7. UNCHANGED <<taskVars, clientVars, engine, objectVars, source, binary, linker, cache, read, histories>>
    BY <1>3 DEF ChildStarts
  <2> QED
    BY <2>3, <2>5, <2>6, <2>7
<1>4. ASSUME NEW v \in Verdicts, ChildEnds(a, v), text' \in [Attempts -> Outputs],
             UNCHANGED histories \/ Hindered(a)
      PROVE  TypeOK'
  <2>1. /\ pc' = [pc EXCEPT ![a] = "read"] /\ executing' \subseteq Attempts
        /\ reply' = [reply EXCEPT ![a].verdict = v]
    BY <1>4 DEF ChildEnds, Goto
  <2>2. pc' \in [Attempts -> Labels] /\ reply' \in [Attempts -> [verdict : Verdicts, text : Outputs]]
    BY <2>1
  <2>3. met' \subseteq Attempts /\ hindered' \subseteq Attempts
    BY <1>4, HistoriesType
  <2>4. UNCHANGED <<taskVars, clientVars, engine, objectVars, source, binary, linker, cache, read, out, stdout>>
    BY <1>4 DEF ChildEnds
  <2> QED
    BY <1>4, <2>1, <2>2, <2>3, <2>4
<1>5. CASE ChildDies(a) \/ ProgramFails(a) \/ ProgramKilled(a)
  BY <1>5, <1>4 DEF ChildDies, ProgramFails, ProgramKilled
<1>6. ASSUME NEW piece \in {"head", "tail"}, Prints(a, piece)
      PROVE  text' \in [Attempts -> Outputs] /\ (UNCHANGED histories \/ Hindered(a))
  <2>1. CASE text' = [text EXCEPT ![stdout[a]] = @ \cup {<<a, piece>>}] /\ UNCHANGED histories
    BY <1>6, <2>1
  <2>2. CASE Hindered(a) /\ UNCHANGED text
    BY <2>2
  <2> QED
    BY <2>1, <2>2, <1>6 DEF Prints
<1>7. CASE PrintHead(a)
  BY <1>7, <1>6, HistoriesType DEF PrintHead, Goto
<1>8. CASE ProgramExits(a)
  BY <1>8, <1>6, <1>4 DEF ProgramExits
<1>9. CASE ReadOutput(a)
  <2>1. reply[a].verdict \in Verdicts /\ (IF out = 0 THEN {} ELSE text[out]) \in Outputs
    BY BatchAssumption DEF Attempts
  <2> QED
    BY <2>1, <1>9, ReplyType DEF ReadOutput
<1>10. CASE AnswersNobody(a)
  BY <1>10, LeaveType DEF AnswersNobody
<1>11. CASE UsesDeleted(a) \/ LeftoverEnds(a)
  <2>1. CASE UsesDeleted(a)
    <3>1. pc' \in [Attempts -> Labels] /\ engine' \in {engine, "dead"}
      BY <2>1 DEF UsesDeleted, Crash
    <3>2. UNCHANGED <<taskVars, clientVars, objectVars, buildVars, outputVars, reply, histories>>
      BY <2>1 DEF UsesDeleted, Crash
    <3> QED
      BY <3>1, <3>2
  <2>2. CASE LeftoverEnds(a)
    BY <2>2 DEF LeftoverEnds
  <2> QED
    BY <1>11, <2>1, <2>2
<1> QED
  BY <1>1, <1>2, <1>3, <1>5, <1>7, <1>8, <1>9, <1>10, <1>11

\* A linker that nobody waits for.
LEMMA LinkerType == TypeOK /\ (LinkerWrites \/ LinkerEnds) => TypeOK'
BY Values DEF LinkerWrites, LinkerEnds, Serving, taskVars, clientVars, objectVars, buildVars, outputVars, histories, TypeOK

LEMMA TypeStep == TypeOK /\ [Next]_vars => TypeOK'
<1> SUFFICES ASSUME TypeOK, [Next]_vars PROVE TypeOK'
  OBVIOUS
<1>1. CASE EngineStarts \/ ClientStep
  BY <1>1, ClientType
<1>2. ASSUME NEW a \in Attempts, ThreadStep(a) \/ ChildStep(a) \/ UsesDeleted(a) \/ ChildDies(a)
      PROVE  TypeOK'
  BY <1>2, BuildType, RunType DEF ThreadStep, ChildStep
<1>3. CASE LinkerWrites \/ LinkerEnds
  BY <1>3, LinkerType
<1>4. CASE UNCHANGED vars
  BY <1>4 DEF vars, TypeOK, taskVars, clientVars, objectVars, buildVars, outputVars, histories
<1> QED
  BY <1>1, <1>2, <1>3, <1>4 DEF Next

\* Type correctness: every variable keeps its type.
THEOREM TypeCorrect == Spec => []TypeOK
<1> QED
  BY TypeInit, TypeStep, PTL DEF Spec

-----------------------------------------------------------------------------
(* The inductive invariant                                                   *)

LEMMA InvInit == Init => IInv
<1> SUFFICES ASSUME Init PROVE IInv
  OBVIOUS
<1>1. Serving = {} /\ strategy = 0 /\ freed = {} /\ NoObject = 0
  BY DEF Init, Serving, NoObject
<1>2. Fresh
  BY BatchAssumption DEF Init, Fresh, Attempts
<1>3. StrategyKept
  BY <1>1, BatchAssumption DEF Init, StrategyKept, Attempts
<1>4. BuildKept
  BY DEF Init, BuildKept
<1> QED
  BY <1>1, <1>2, <1>3, <1>4, TypeInit DEF Init, IInv, Calm

\* A thread that has started moves, and the adapter does not.
LEMMA FreshMove ==
    ASSUME TypeOK, Fresh, NEW a \in Attempts, NEW x \in Labels, pc[a] # "idle",
           pc' = [pc EXCEPT ![a] = x], UNCHANGED <<client, attempt>>
    PROVE  Fresh'
BY BatchAssumption DEF Fresh, TypeOK, Attempts

\* The thread that serves alone moves to a step with no duties of its own.
LEMMA CalmMove ==
    ASSUME TypeOK, Calm, NEW a \in Serving, pc[a] # "saving",
           NEW x \in Labels \ {"idle", "set", "swap", "compile", "execute", "save", "saving"},
           pc' = [pc EXCEPT ![a] = x], UNCHANGED <<engine, strategy, freed, this, cache>>
    PROVE  Calm' /\ (BuildKept => BuildKept')
<1>1. a \in Attempts /\ \A b \in Attempts : b # a => pc'[b] = pc[b] /\ pc[b] \in {"idle", "respond", "done", "gone"}
  BY DEF Calm, Serving, TypeOK
<1>2. pc'[a] = x
  BY <1>1 DEF TypeOK
<1>3. \A b, c \in Serving' : b = c
  BY <1>1 DEF Serving
<1>4. StrategyKept'
  BY <1>1, <1>2 DEF Calm, StrategyKept
<1>5. BuildKept => BuildKept'
  BY <1>1, <1>2 DEF BuildKept
<1> QED
  BY <1>3, <1>4, <1>5 DEF Calm

\* A thread that was answered leaves; nothing that is shared changes.
LEMMA CalmLeave ==
    ASSUME TypeOK, Calm, NEW a \in Attempts, pc[a] = "respond", Leave(a), UNCHANGED engine
    PROVE  Calm' /\ (BuildKept => BuildKept')
<1>1. /\ \A b \in Attempts : b # a => pc'[b] = pc[b] /\ this'[b] = this[b] /\ read'[b] = read[b]
      /\ pc'[a] = "done"
      /\ UNCHANGED <<strategy, freed, binary, cache>>
  BY DEF Leave, Goto, TypeOK
<1>2. Serving' = Serving
  BY <1>1 DEF Serving
<1>3. StrategyKept'
  BY <1>1 DEF Calm, StrategyKept
<1>4. BuildKept => BuildKept'
  BY <1>1 DEF BuildKept
<1> QED
  BY <1>2, <1>3, <1>4 DEF Calm

\* The labels of a thread that serves.
LEMMA InService ==
    ASSUME TypeOK, NEW a \in Attempts, pc[a] \notin {"idle", "respond", "done", "gone"}
    PROVE  a \in Serving
BY DEF Serving

\* The adapter's steps: a POST either finds no thread that serves or is recorded in met.
LEMMA ClientCalm ==
    ASSUME IInv, EngineStarts \/ ClientStep
    PROVE  Fresh' /\ (met' = {} => Calm') /\ (met' \cup hindered' = {} => BuildKept')
<1> USE DEF IInv
<1>1. CASE EngineStarts \/ PortNotOpen \/ PortOpen \/ RequestFails
  <2>1. UNCHANGED <<pc, this, strategy, freed, binary, cache, read, met, hindered>>
    BY <1>1 DEF EngineStarts, PortNotOpen, PortOpen, RequestFails, objectVars, buildVars, histories
  <2>2. engine' \in {engine, "up"}
    BY <1>1 DEF EngineStarts, PortNotOpen, PortOpen, RequestFails
  <2>3. (Calm => Calm') /\ (BuildKept => BuildKept')
    BY <2>1, <2>2 DEF Calm, StrategyKept, BuildKept, Serving
  <2>4. Fresh'
    <3>1. CASE RequestFails
      BY <3>1, <2>1, BatchAssumption DEF RequestFails, Retry, Return, Fresh, Attempts, TypeOK
    <3>2. CASE EngineStarts \/ PortNotOpen \/ PortOpen
      BY <3>2, <2>1 DEF EngineStarts, PortNotOpen, PortOpen, Return, Fresh, clientVars
    <3> QED
      BY <1>1, <3>1, <3>2
  <2> QED
    BY <2>1, <2>3, <2>4
<1>2. CASE Post
  <2>1. pc[attempt] = "idle" /\ attempt \in Attempts /\ pc' = [pc EXCEPT ![attempt] = "set"]
    BY <1>2 DEF Post, Fresh, Goto, TypeOK
  <2>2. Fresh'
    BY <2>1, <1>2, BatchAssumption DEF Post, Fresh, TypeOK, Attempts
  <2>3. ASSUME met' = {} PROVE Calm' /\ (BuildKept => BuildKept')
    <3>1. met = {} /\ Serving = {} /\ engine = "up" /\ UNCHANGED engine
      BY <1>2, <2>3 DEF Post
    <3>2. \A b \in Attempts : b # attempt => pc'[b] = pc[b] /\ pc[b] \in {"idle", "respond", "done", "gone"}
      BY <2>1, <3>1 DEF Serving, TypeOK
    <3>3. pc'[attempt] = "set"
      BY <2>1 DEF TypeOK
    <3>4. UNCHANGED <<this, strategy, freed, binary, cache, read>>
      BY <1>2 DEF Post, objectVars, buildVars
    <3>5. \A b, c \in Serving' : b = c
      BY <3>2 DEF Serving
    <3>6. StrategyKept'
      BY <2>1, <3>1, <3>2, <3>3, <3>4 DEF Calm, StrategyKept
    <3>7. BuildKept => BuildKept'
      BY <2>1, <3>1, <3>2, <3>3, <3>4 DEF BuildKept
    <3> QED
      BY <3>1, <3>5, <3>6, <3>7 DEF Calm
  <2>4. met' = {} => met = {}
    BY <1>2 DEF Post
  <2>5. UNCHANGED hindered
    BY <1>2 DEF Post
  <2> QED
    BY <2>2, <2>3, <2>4, <2>5
<1>3. CASE Answered
  <2>1. /\ Leave(attempt) /\ pc[attempt] = "respond" /\ attempt \in Attempts
        /\ client' = "done" /\ UNCHANGED <<attempt, engine, met, hindered>>
    BY <1>3 DEF Answered, Return, TypeOK, histories
  <2>2. Fresh'
    BY <2>1, BatchAssumption DEF Leave, Goto, Fresh, TypeOK, Attempts
  <2> QED
    BY <2>1, <2>2, CalmLeave
<1> QED
  BY <1>1, <1>2, <1>3 DEF ClientStep

\* A thread's own step, other than of the strategy and of the cache, which have
\* lemmas of their own.
LEMMA PlainCalm ==
    ASSUME TypeOK, Calm, NEW a \in Attempts,
           \/ HitBegins(a) \/ HitEnds(a) \/ HitFails(a) \/ CompilerWrites(a)
           \/ CompilerFails(a) \/ CompilerKilled(a) \/ Compile(a)
           \/ Execute(a) \/ WriteScript(a) \/ ReturnBinary(a) \/ ChildStarts(a) \/ ChildDies(a)
           \/ PrintHead(a) \/ ProgramExits(a) \/ ProgramFails(a) \/ ProgramKilled(a) \/ ReadOutput(a)
    PROVE  Calm' /\ (BuildKept => BuildKept')
<1> DEFINE There == Labels \ {"idle", "set", "swap", "compile", "execute", "save", "saving"}
<1>1. UNCHANGED <<engine, strategy, freed, this, cache>>
  BY DEF HitBegins, HitEnds, HitFails, CompilerWrites, CompilerFails, CompilerKilled, Compile, Execute, WriteScript,
         ReturnBinary, ChildStarts, ChildDies, ChildEnds, PrintHead, ProgramExits, ProgramFails, ProgramKilled,
         ReadOutput, objectVars, buildVars
<1>2. pc[a] \notin {"idle", "respond", "done", "gone", "saving"}
  BY DEF HitBegins, HitEnds, HitFails, CompilerWrites, CompilerFails, CompilerKilled, Compile, Execute, WriteScript,
         ReturnBinary, ChildStarts, ChildDies, ChildEnds, PrintHead, ProgramExits, ProgramFails, ProgramKilled,
         ReadOutput
<1>3. \E x \in There : pc' = [pc EXCEPT ![a] = x]
  <2>1. CASE HitBegins(a) \/ HitEnds(a) \/ HitFails(a) \/ CompilerWrites(a) \/ CompilerFails(a)
            \/ CompilerKilled(a) \/ Compile(a)
    BY <2>1 DEF HitBegins, HitEnds, HitFails, CompilerWrites, CompilerFails, CompilerKilled, Compile, Reply, Goto, Labels
  <2>2. CASE Execute(a) \/ WriteScript(a) \/ ReturnBinary(a) \/ ChildStarts(a) \/ ChildDies(a)
    BY <2>2 DEF Execute, WriteScript, ReturnBinary, ChildStarts, ChildDies, ChildEnds, Reply, Goto, Labels
  <2>3. CASE PrintHead(a) \/ ProgramExits(a) \/ ProgramFails(a) \/ ProgramKilled(a) \/ ReadOutput(a)
    BY <2>3 DEF PrintHead, ProgramExits, ProgramFails, ProgramKilled, ReadOutput, ChildEnds, Reply, Goto, Labels
  <2> QED
    BY <2>1, <2>2, <2>3
<1> QED
  BY <1>1, <1>2, <1>3, InService, CalmMove

\* set_language and the two loads of the strategy.
LEMMA StrategyCalm ==
    ASSUME TypeOK, Calm, NEW a \in Attempts,
           \/ ReadOldStrategy(a) \/ SwapStrategy(a)
           \/ LoadStrategy(a, "run", "compile") \/ LoadStrategy(a, "reload", "execute")
    PROVE  Calm' /\ (BuildKept => BuildKept')
<1>1. a \in Serving /\ \A b \in Attempts : b # a => pc[b] \in {"idle", "respond", "done", "gone"}
  BY DEF ReadOldStrategy, SwapStrategy, LoadStrategy, Calm, Serving, TypeOK
<1>2. UNCHANGED <<engine, binary, cache, read>> /\ pc[a] \in {"set", "swap", "run", "reload"}
  BY DEF ReadOldStrategy, SwapStrategy, LoadStrategy, buildVars
<1>3. PICK x \in {"respond", "swap", "run", "compile", "execute"} :
        pc' = [pc EXCEPT ![a] = x]
  BY DEF ReadOldStrategy, SwapStrategy, LoadStrategy, Reply, Goto
<1>4. pc'[a] = x /\ \A b \in Attempts : b # a => pc'[b] = pc[b]
  BY <1>3 DEF TypeOK
<1>5. \A b, c \in Serving' : b = c
  BY <1>1, <1>4 DEF Serving
<1>6. BuildKept => BuildKept'
  BY <1>1, <1>2, <1>4 DEF BuildKept
<1>7. StrategyKept'
  <2>1. CASE ReadOldStrategy(a) /\ language = "unknown"
    <3>1. x = "respond" /\ UNCHANGED <<this, strategy, freed>>
      BY <2>1, <1>4 DEF ReadOldStrategy, Reply, Goto, TypeOK
    <3> QED
      BY <3>1, <1>1, <1>4 DEF Calm, StrategyKept
  <2>2. CASE ReadOldStrategy(a) /\ language # "unknown"
    <3>1. /\ x = "swap" /\ UNCHANGED <<strategy, freed>> /\ pc[a] = "set"
          /\ this' = [this EXCEPT ![a] = strategy]
      BY <2>2, <1>4 DEF ReadOldStrategy, Goto, TypeOK
    <3> QED
      BY <3>1, <1>1, <1>4 DEF Calm, StrategyKept, TypeOK
  <2>3. CASE SwapStrategy(a)
    <3>1. /\ x = "run" /\ pc[a] = "swap" /\ strategy' = a /\ UNCHANGED this
          /\ freed' = freed \cup ({this[a]} \ {NoObject})
      BY <2>3, <1>4 DEF SwapStrategy, Goto, TypeOK
    <3>2. this[a] = strategy /\ a \notin freed /\ a # strategy
      BY <3>1 DEF Calm, StrategyKept
    <3> QED
      BY <3>1, <3>2, <1>1, <1>4 DEF Calm, StrategyKept
  <2>4. CASE LoadStrategy(a, "run", "compile") \/ LoadStrategy(a, "reload", "execute")
    <3>1. /\ x \in {"compile", "execute"} /\ UNCHANGED <<strategy, freed>>
          /\ this' = [this EXCEPT ![a] = strategy]
      BY <2>4, <1>4 DEF LoadStrategy, Goto, TypeOK
    <3> QED
      BY <3>1, <1>1, <1>2, <1>4 DEF Calm, StrategyKept, TypeOK
  <2> QED
    BY <2>1, <2>2, <2>3, <2>4
<1> QED
  BY <1>2, <1>5, <1>6, <1>7 DEF Calm

\* The compiler completes the binary, which is then copied to the cache.
LEMMA CacheCalm ==
    ASSUME TypeOK, Calm, NEW a \in Attempts, CompilerEnds(a) \/ SaveBegins(a) \/ SaveEnds(a) \/ SaveFails(a)
    PROVE  Calm' /\ (BuildKept /\ met \cup hindered' = {} => BuildKept')
<1>1. a \in Serving /\ \A b \in Attempts : b # a => pc[b] \in {"idle", "respond", "done", "gone"}
  BY DEF CompilerEnds, SaveBegins, SaveEnds, SaveFails, Calm, Serving, TypeOK
<1>2. UNCHANGED <<engine, strategy, freed, this>> /\ pc[a] \in {"linking", "save", "saving"}
  BY DEF CompilerEnds, SaveBegins, SaveEnds, SaveFails, objectVars
<1>3. PICK x \in {"reload", "save", "saving", "respond"} : pc' = [pc EXCEPT ![a] = x]
  BY DEF CompilerEnds, SaveBegins, SaveEnds, SaveFails, Reply, Goto
<1>4. pc'[a] = x /\ \A b \in Attempts : b # a => pc'[b] = pc[b]
  BY <1>3 DEF TypeOK
<1>5. \A b, c \in Serving' : b = c
  BY <1>1, <1>4 DEF Serving
<1>6. StrategyKept'
  BY <1>1, <1>2, <1>4 DEF Calm, StrategyKept
<1>7. ASSUME BuildKept, met \cup hindered' = {} PROVE BuildKept'
  <2>1. CASE CompilerEnds(a)
    BY <2>1, <1>1, <1>4, <1>7 DEF CompilerEnds, Goto, BuildKept, TypeOK
  <2>2. CASE SaveBegins(a)
    <3>1. binary = "whole" /\ pc[a] = "save"
      BY <2>2, <1>7 DEF SaveBegins, BuildKept
    <3>2. /\ x = "saving" /\ read' = [read EXCEPT ![a] = "whole"]
          /\ cache' = "part" /\ UNCHANGED binary
      BY <3>1, <2>2, <1>4 DEF SaveBegins, Goto, TypeOK
    <3> QED
      BY <3>1, <3>2, <1>1, <1>4 DEF BuildKept, TypeOK
  <2>3. CASE SaveEnds(a)
    <3>1. binary = "whole" /\ read[a] = "whole"
      BY <2>3, <1>7 DEF SaveEnds, BuildKept
    <3>2. x = "reload" /\ cache' = "whole" /\ UNCHANGED binary
      BY <3>1, <2>3, <1>4 DEF SaveEnds, Goto, TypeOK
    <3> QED
      BY <3>2, <1>1, <1>4 DEF BuildKept
  <2>4. ~SaveFails(a)
    BY <1>7 DEF SaveFails, Hindered
  <2> QED
    BY <2>1, <2>2, <2>3, <2>4
<1> QED
  BY <1>2, <1>5, <1>6, <1>7 DEF Calm

\* As long as no thread has met another, no deleted object is used.
LEMMA NoneDeleted ==
    ASSUME Calm, NEW a \in Attempts PROVE ~UsesDeleted(a)
BY DEF Calm, StrategyKept, UsesDeleted

\* No step of a thread touches an attempt that was not posted.
LEMMA ThreadFresh ==
    ASSUME TypeOK, Fresh, NEW a \in Attempts,
           ThreadStep(a) \/ ChildStep(a) \/ ChildDies(a) \/ UsesDeleted(a)
    PROVE  Fresh' /\ UNCHANGED met /\ hindered \subseteq hindered'
<1>1. UNCHANGED <<client, attempt, met>> /\ hindered \subseteq hindered'
  BY DEF ThreadStep, ChildStep, ReadOldStrategy, SwapStrategy, LoadStrategy, HitBegins, HitEnds, HitFails, SaveBegins,
         SaveEnds, SaveFails, CompilerWrites, CompilerEnds, CompilerFails, CompilerKilled, Compile, Execute, WriteScript,
         ReturnBinary, ChildStarts, ChildDies, ChildEnds, PrintHead, ProgramExits, ProgramFails, ProgramKilled,
         ReadOutput, AnswersNobody, UsesDeleted, Crash,
         LeftoverEnds, Prints, Hindered, histories, clientVars
<1>2. CASE UsesDeleted(a)
  <2>1. \A b \in Attempts : pc[b] = "idle" => pc'[b] = "idle"
    BY <1>2 DEF UsesDeleted, Crash
  <2> QED
    BY <2>1, <1>1 DEF Fresh, TypeOK
<1>3. CASE LeftoverEnds(a)
  BY <1>1, <1>3 DEF LeftoverEnds, Fresh
<1>4. CASE (ThreadStep(a) \/ ChildStep(a) \/ ChildDies(a)) /\ ~LeftoverEnds(a)
  <2>1. pc[a] # "idle"
    BY <1>4 DEF ThreadStep, ChildStep, ReadOldStrategy, SwapStrategy, LoadStrategy, HitBegins, HitEnds, HitFails,
         SaveBegins, SaveEnds, SaveFails, CompilerWrites, CompilerEnds, CompilerFails, CompilerKilled, Compile, Execute,
         WriteScript, ReturnBinary, ChildStarts, ChildDies, PrintHead, ProgramExits, ProgramFails,
         ProgramKilled, ReadOutput, AnswersNobody
  <2>2. \E x \in Labels : pc' = [pc EXCEPT ![a] = x]
    BY <1>4 DEF ThreadStep, ChildStep, ReadOldStrategy, SwapStrategy, LoadStrategy, HitBegins, HitEnds, HitFails,
         SaveBegins, SaveEnds, SaveFails, CompilerWrites, CompilerEnds, CompilerFails, CompilerKilled, Compile, Execute,
         WriteScript, ReturnBinary, ChildStarts, ChildDies, ChildEnds, PrintHead, ProgramExits, ProgramFails,
         ProgramKilled, ReadOutput, AnswersNobody, Leave, Reply, Goto, Labels
  <2> QED
    BY <2>1, <2>2, <1>1, FreshMove
<1> QED
  BY <1>2, <1>3, <1>4

\* A linker that nobody waits for writes when no thread serves, or hinders the ones that do.
LEMMA LinkerCalm ==
    ASSUME IInv, LinkerWrites \/ LinkerEnds
    PROVE  Fresh' /\ (met' = {} => Calm') /\ (met' \cup hindered' = {} => BuildKept')
<1>1. UNCHANGED <<client, attempt, pc, engine, this, strategy, freed, cache, read, met>>
  BY DEF LinkerWrites, LinkerEnds, clientVars, objectVars, histories
<1>2. Fresh'
  BY <1>1 DEF IInv, Fresh
<1>3. Calm => Calm'
  BY <1>1 DEF Calm, StrategyKept, Serving
<1>4. ASSUME met \cup hindered' = {} PROVE BuildKept'
  <2>1. CASE LinkerWrites
    <3>1. Serving = {} /\ hindered = {}
      BY <1>4, <2>1 DEF LinkerWrites
    <3>2. \A a \in Attempts : pc[a] \notin {"save", "saving"}
      BY <3>1 DEF Serving
    <3> QED
      BY <1>1, <1>4, <3>1, <3>2 DEF IInv, BuildKept
  <2>2. CASE LinkerEnds
    <3>1. UNCHANGED <<binary, hindered>>
      BY <2>2 DEF LinkerEnds, histories
    <3> QED
      BY <1>1, <1>4, <3>1 DEF IInv, BuildKept
  <2> QED
    BY <2>1, <2>2
<1> QED
  BY <1>1, <1>2, <1>3, <1>4 DEF IInv

LEMMA InvStep == IInv /\ [Next]_vars => IInv'
<1> SUFFICES ASSUME IInv, [Next]_vars PROVE IInv'
  OBVIOUS
<1>1. TypeOK /\ Fresh /\ (met = {} => Calm) /\ (met \cup hindered = {} => BuildKept) /\ TypeOK'
  BY TypeStep DEF IInv
<1>2. CASE EngineStarts \/ ClientStep
  BY <1>1, <1>2, ClientCalm DEF IInv
<1>3. ASSUME NEW a \in Attempts, ThreadStep(a) \/ ChildStep(a) \/ ChildDies(a) \/ UsesDeleted(a)
      PROVE  IInv'
  <2>1. Fresh' /\ UNCHANGED met /\ hindered \subseteq hindered'
    BY <1>1, <1>3, ThreadFresh
  <2>2. ASSUME met = {} PROVE Calm' /\ (BuildKept /\ met \cup hindered' = {} => BuildKept')
    <3>1. Calm /\ ~UsesDeleted(a)
      BY <1>1, <2>2, NoneDeleted
    <3>2. CASE AnswersNobody(a)
      BY <3>1, <3>2, <1>1, CalmLeave DEF AnswersNobody
    <3>3. CASE \/ ReadOldStrategy(a) \/ SwapStrategy(a)
               \/ LoadStrategy(a, "run", "compile") \/ LoadStrategy(a, "reload", "execute")
      BY <3>1, <3>3, <1>1, StrategyCalm
    <3>4. CASE CompilerEnds(a) \/ SaveBegins(a) \/ SaveEnds(a) \/ SaveFails(a)
      BY <3>1, <3>4, <1>1, CacheCalm
    <3>5. CASE LeftoverEnds(a)
      <4>1. UNCHANGED <<pc, engine, this, strategy, freed, binary, cache, read>>
        BY <3>5 DEF LeftoverEnds, objectVars
      <4> QED
        BY <3>1, <4>1 DEF Calm, StrategyKept, BuildKept, Serving
    <3> QED
      BY <3>1, <3>2, <3>3, <3>4, <3>5, <1>1, <1>3, PlainCalm DEF ThreadStep, ChildStep
  <2>3. met' \cup hindered' = {} => met = {} /\ hindered = {}
    BY <2>1
  <2> QED
    BY <2>1, <2>2, <2>3, <1>1 DEF IInv
<1>4. CASE LinkerWrites \/ LinkerEnds
  BY <1>1, <1>4, LinkerCalm DEF IInv
<1>5. CASE UNCHANGED vars
  <2> USE DEF vars, taskVars, clientVars, objectVars, buildVars, outputVars, histories
  <2>1. Fresh'
    BY <1>1, <1>5 DEF Fresh
  <2>2. (Calm => Calm') /\ (BuildKept => BuildKept')
    BY <1>5 DEF Calm, StrategyKept, BuildKept, Serving
  <2> QED
    BY <2>1, <2>2, <1>1, <1>5 DEF IInv
<1> QED
  BY <1>2, <1>3, <1>4, <1>5 DEF Next

\* However often a request fails and is retried, and whatever the compiler and
\* the program do, the engine does not die of a deleted strategy as long as no
\* two of its threads have met.
THEOREM EngineLives == Spec => []EngineSurvives
<1>1. IInv => EngineSurvives
  BY DEF IInv, Calm, EngineSurvives
<1> QED
  BY <1>1, InvInit, InvStep, PTL DEF Spec

\* ... and the cache never keeps an incomplete binary as long as moreover no attempt was
\* hindered by a process left behind or by a lack of space.
THEOREM CacheKept == Spec => []CacheIsSound
<1>1. IInv => CacheIsSound
  BY DEF IInv, BuildKept, CacheIsSound
<1> QED
  BY <1>1, InvInit, InvStep, PTL DEF Spec

-----------------------------------------------------------------------------
(* An attempt that shares the engine with no other                           *)

Building(a) == pc[a] \in {"compiling", "linking", "save", "saving"}

\* The cache is incomplete and no thread is about to change that: a later attempt
\* takes it as it is.
Spoilt ==
    /\ cache = "part" /\ language # "compiled"
    /\ \A b \in Attempts : ~Building(b)

\* The current strategy is never a deleted one, met or not: an object is stored
\* once, by its own thread, and deleted by one that stores another.
LiveInv ==
    /\ strategy \notin freed
    /\ \A b \in Attempts :
          b \in freed \/ b = strategy \/ (\E c \in Attempts : this[c] = b)
              => pc[b] \notin {"idle", "set", "swap"}

\* Nothing serves in a dead engine.
DeadInv == engine = "dead" => \A b \in Attempts : pc[b] \in {"idle", "done", "gone"}

\* A thread that is not recorded in met serves alone.
AloneInv == \A a, b \in Serving : a \notin met => a = b

GoodReply(a) ==
    /\ reply[a].verdict \notin {"damaged", "http500"}
    /\ reply[a].verdict = "exit0" => reply[a].text = Whole(a)
    /\ reply[a].verdict = "compile_error" => ~compiles
    /\ reply[a].text \subseteq Whole(a)

\* What holds of a thread alone unless the cache it found was spoilt, ...
Fine(a) ==
    /\ pc[a] \in {"reload", "execute"} /\ language # "interpreted" => binary = "whole"
    /\ pc[a] = "fork" => binary = "whole"
    /\ pc[a] = "read" => /\ reply[a].verdict \in {"exit0", "failed"}
                         /\ reply[a].verdict = "exit0" => text[a] = Whole(a)
    /\ pc[a] = "respond" => GoodReply(a)

\* ... and what holds in any case.
Own(a) ==
    /\ pc[a] \in {"swap", "compile", "execute", "script", "fork"} => this[a] = strategy
    /\ pc[a] = "compiling" => source
    /\ pc[a] \in {"hit", "copying"} => language # "compiled"
    /\ pc[a] = "copying" => read[a] = cache
    /\ pc[a] = "hit" => cache # "none"
    /\ pc[a] = "copying" => cache # "none"
    /\ pc[a] \in {"save", "saving"} => binary = "whole"
    /\ pc[a] = "saving" => read[a] = "whole"
    /\ pc[a] = "fork" => out = 0
    /\ pc[a] \in {"running", "printing", "read"} => out = a /\ stdout[a] = a
    /\ pc[a] = "running" => text[a] = {}
    /\ pc[a] = "printing" => text[a] = {<<a, "head">>}
    /\ pc[a] = "read" => text[a] \subseteq Whole(a)

IntactInv == language # "unknown" =>
    \A a \in Attempts \ (met \cup hindered) : Own(a) /\ (Spoilt \/ Fine(a))

AInv == IInv /\ LiveInv /\ DeadInv /\ AloneInv /\ IntactInv

Rest == {"idle", "respond", "done", "gone"}

\* A step of a thread that serves and goes on.
Moves(a) ==
    \/ ReadOldStrategy(a) \/ SwapStrategy(a)
    \/ LoadStrategy(a, "run", "compile") \/ LoadStrategy(a, "reload", "execute")
    \/ Compile(a) \/ HitBegins(a) \/ HitEnds(a) \/ HitFails(a)
    \/ SaveBegins(a) \/ SaveEnds(a) \/ SaveFails(a)
    \/ CompilerWrites(a) \/ CompilerEnds(a) \/ CompilerFails(a) \/ CompilerKilled(a)
    \/ Execute(a) \/ WriteScript(a) \/ ReturnBinary(a) \/ ChildStarts(a) \/ ChildDies(a)
    \/ PrintHead(a) \/ ProgramExits(a) \/ ProgramFails(a) \/ ProgramKilled(a) \/ ReadOutput(a)

LEMMA ReplyEffect ==
    ASSUME TypeOK, NEW a \in Attempts, NEW v, NEW t, Reply(a, v, t)
    PROVE  /\ pc' = [pc EXCEPT ![a] = "respond"]
           /\ \A b \in Attempts \ {a} : reply'[b] = reply[b]
           /\ \/ reply'[a] = [verdict |-> v, text |-> t]
              \/ /\ t # {} /\ language # "wasm"
                 /\ reply'[a] = [verdict |-> "http400", text |-> {}]
BY DEF TypeOK, Reply, Goto

\* What every such step leaves alone.
LEMMA MoveEffect ==
    ASSUME TypeOK, NEW a \in Attempts, Moves(a)
    PROVE  /\ UNCHANGED <<language, compiles, client, attempt, engine, met>>
           /\ hindered \subseteq hindered'
           /\ pc[a] \in Labels \ Rest
           /\ \E x \in Labels \ {"idle", "set", "done", "gone"} : pc' = [pc EXCEPT ![a] = x]
           /\ \A b \in Attempts \ {a} : reply'[b] = reply[b] /\ pc'[b] = pc[b]
<1> USE DEF Rest, taskVars, clientVars, histories, Hindered, Prints
<1>1. pc[a] \in Labels
  BY DEF TypeOK
<1>2. CASE \/ ReadOldStrategy(a) \/ SwapStrategy(a)
           \/ LoadStrategy(a, "run", "compile") \/ LoadStrategy(a, "reload", "execute") \/ Compile(a)
  BY <1>1, <1>2, ReplyEffect
     DEF ReadOldStrategy, SwapStrategy, LoadStrategy, Compile, Goto, Labels, TypeOK
<1>3. CASE HitBegins(a) \/ HitEnds(a) \/ HitFails(a) \/ SaveBegins(a) \/ SaveEnds(a) \/ SaveFails(a)
  <2>1. CASE HitBegins(a) \/ HitEnds(a)
    BY <1>1, <2>1, ReplyEffect DEF HitBegins, HitEnds, Goto, Labels, TypeOK
  <2>2. CASE SaveBegins(a) \/ SaveEnds(a)
    BY <1>1, <2>2, ReplyEffect DEF SaveBegins, SaveEnds, Goto, Labels, TypeOK
  <2>3. CASE HitFails(a) \/ SaveFails(a)
    <3>1. Reply(a, "http500", {}) /\ pc[a] \in {"copying", "saving"}
      BY <2>3 DEF HitFails, SaveFails
    <3>2. pc' = [pc EXCEPT ![a] = "respond"] /\ \A b \in Attempts \ {a} : reply'[b] = reply[b]
      BY <3>1, ReplyEffect
    <3>3. UNCHANGED <<language, compiles, client, attempt, engine, met>> /\ hindered \subseteq hindered'
      BY <2>3 DEF HitFails, SaveFails
    <3> QED
      BY <1>1, <3>1, <3>2, <3>3 DEF Labels, TypeOK
  <2> QED
    BY <1>3, <2>1, <2>2, <2>3
<1>4. CASE CompilerWrites(a) \/ CompilerEnds(a) \/ CompilerFails(a) \/ CompilerKilled(a)
  BY <1>1, <1>4, ReplyEffect
     DEF CompilerWrites, CompilerEnds, CompilerFails, CompilerKilled, Goto, Labels, TypeOK
<1>5. CASE Execute(a) \/ WriteScript(a) \/ ReturnBinary(a) \/ ReadOutput(a)
  BY <1>1, <1>5, ReplyEffect DEF Execute, WriteScript, ReturnBinary, ReadOutput, Goto, Labels, TypeOK
<1>6. CASE ChildStarts(a) \/ ChildDies(a)
  BY <1>1, <1>6 DEF ChildStarts, ChildDies, ChildEnds, Goto, Labels, TypeOK
<1>7. CASE PrintHead(a) \/ ProgramExits(a) \/ ProgramFails(a) \/ ProgramKilled(a)
  BY <1>1, <1>7 DEF PrintHead, ProgramExits, ProgramFails, ProgramKilled, ChildEnds, Goto, Labels, TypeOK
<1> QED
  BY <1>2, <1>3, <1>4, <1>5, <1>6, <1>7 DEF Moves

\* A spoilt cache stays as it is: only a thread that builds changes it, and no
\* thread begins to.
LEMMA SpoiltMove ==
    ASSUME TypeOK, Spoilt, NEW a \in Attempts, Moves(a)
    PROVE  Spoilt'
<1>1. /\ cache = "part" /\ language # "compiled" /\ UNCHANGED language
      /\ pc[a] \notin {"compiling", "linking", "save", "saving"}
      /\ \A b \in Attempts \ {a} : ~Building(b) /\ pc'[b] = pc[b]
  BY MoveEffect DEF Spoilt, Building
<1>2. UNCHANGED cache
  BY <1>1 DEF Moves, ReadOldStrategy, SwapStrategy, LoadStrategy, HitBegins, HitEnds, HitFails, SaveBegins, SaveEnds, SaveFails,
     CompilerWrites, CompilerEnds, CompilerFails, CompilerKilled, Compile, Execute, WriteScript,
     ReturnBinary, ChildStarts, ChildDies, ChildEnds, PrintHead, ProgramExits, ProgramFails,
     ProgramKilled, ReadOutput, buildVars
<1>3. pc'[a] \notin {"compiling", "linking", "save", "saving"}
  <2>1. CASE \/ ReadOldStrategy(a) \/ SwapStrategy(a)
             \/ LoadStrategy(a, "run", "compile") \/ LoadStrategy(a, "reload", "execute") \/ Compile(a)
    BY <1>1, <2>1, ReplyEffect
       DEF ReadOldStrategy, SwapStrategy, LoadStrategy, Compile, Goto, TypeOK
  <2>2. CASE HitBegins(a) \/ HitEnds(a) \/ HitFails(a) \/ SaveBegins(a) \/ SaveEnds(a) \/ SaveFails(a)
    BY <1>1, <2>2, ReplyEffect DEF HitBegins, HitEnds, HitFails, SaveBegins, SaveEnds, SaveFails, Goto, TypeOK
  <2>3. CASE CompilerWrites(a) \/ CompilerEnds(a) \/ CompilerFails(a) \/ CompilerKilled(a)
    BY <1>1, <2>3, ReplyEffect DEF CompilerWrites, CompilerEnds, CompilerFails, CompilerKilled
  <2>4. CASE Execute(a) \/ WriteScript(a) \/ ReturnBinary(a) \/ ReadOutput(a)
    BY <2>4, ReplyEffect DEF Execute, WriteScript, ReturnBinary, ReadOutput, Goto, TypeOK
  <2>5. CASE ChildStarts(a) \/ ChildDies(a)
    BY <2>5 DEF ChildStarts, ChildDies, ChildEnds, Goto, TypeOK
  <2>6. CASE PrintHead(a) \/ ProgramExits(a) \/ ProgramFails(a) \/ ProgramKilled(a)
    BY <2>6 DEF PrintHead, ProgramExits, ProgramFails, ProgramKilled, ChildEnds, Goto, TypeOK
  <2> QED
    BY <2>1, <2>2, <2>3, <2>4, <2>5, <2>6 DEF Moves
<1> QED
  BY <1>1, <1>2, <1>3 DEF Spoilt, Building

\* No thread uses a deleted strategy that it has not read before another's swap.
LEMMA LiveMove ==
    ASSUME TypeOK, LiveInv, NEW a \in Attempts, Moves(a)
    PROVE  LiveInv'
<1>1. PICK x \in Labels \ {"idle", "set", "done", "gone"} : pc' = [pc EXCEPT ![a] = x]
  BY MoveEffect
<1>2. pc'[a] = x /\ \A b \in Attempts \ {a} : pc'[b] = pc[b]
  BY <1>1 DEF TypeOK
<1>3. CASE ReadOldStrategy(a)
  <2>1. pc[a] = "set" /\ UNCHANGED <<strategy, freed>> /\ this' \in {this, [this EXCEPT ![a] = strategy]}
    BY <1>3 DEF ReadOldStrategy
  <2>2. \A b \in Attempts : (\E c \in Attempts : this'[c] = b) => (\E c \in Attempts : this[c] = b) \/ b = strategy
    BY <2>1 DEF TypeOK
  <2>3. a \notin freed /\ a # strategy /\ ~(\E c \in Attempts : this[c] = a)
    BY <2>1 DEF LiveInv
  <2> QED
    BY <2>1, <2>2, <2>3, <1>2 DEF LiveInv
<1>4. CASE SwapStrategy(a)
  <2>1. /\ pc[a] = "swap" /\ x = "run" /\ strategy' = a /\ UNCHANGED this
        /\ freed' = freed \cup ({this[a]} \ {NoObject})
    BY <1>4, <1>2 DEF SwapStrategy, Goto, TypeOK
  <2>2. a \notin freed /\ this[a] # a
    BY <2>1 DEF LiveInv
  <2> QED
    BY <2>1, <2>2, <1>2 DEF LiveInv
<1>5. CASE LoadStrategy(a, "run", "compile") \/ LoadStrategy(a, "reload", "execute")
  <2>1. /\ x \in {"compile", "execute"} /\ UNCHANGED <<strategy, freed>>
        /\ this' = [this EXCEPT ![a] = strategy]
    BY <1>5, <1>2 DEF LoadStrategy, Goto, TypeOK
  <2>2. \A b \in Attempts : (\E c \in Attempts : this'[c] = b) => (\E c \in Attempts : this[c] = b) \/ b = strategy
    BY <2>1 DEF TypeOK
  <2> QED
    BY <2>1, <2>2, <1>2 DEF LiveInv
<1>6. CASE ~(\/ ReadOldStrategy(a) \/ SwapStrategy(a)
             \/ LoadStrategy(a, "run", "compile") \/ LoadStrategy(a, "reload", "execute"))
  <2>1. UNCHANGED <<this, strategy, freed>>
    BY <1>6 DEF Moves, HitBegins, HitEnds, HitFails, SaveBegins, SaveEnds, SaveFails,
     CompilerWrites, CompilerEnds, CompilerFails, CompilerKilled, Compile, Execute, WriteScript,
     ReturnBinary, ChildStarts, ChildDies, ChildEnds, PrintHead, ProgramExits, ProgramFails,
     ProgramKilled, ReadOutput, objectVars
  <2>2. x # "swap"
    <3>1. CASE Compile(a) \/ HitBegins(a) \/ HitEnds(a) \/ HitFails(a) \/ SaveBegins(a) \/ SaveEnds(a) \/ SaveFails(a)
      BY <3>1, <1>2, ReplyEffect DEF Compile, HitBegins, HitEnds, HitFails, SaveBegins, SaveEnds, SaveFails, Goto, TypeOK
    <3>2. CASE CompilerWrites(a) \/ CompilerEnds(a) \/ CompilerFails(a) \/ CompilerKilled(a)
      BY <3>2, <1>2, ReplyEffect DEF CompilerWrites, CompilerEnds, CompilerFails, CompilerKilled, Goto, TypeOK
    <3>3. CASE Execute(a) \/ WriteScript(a) \/ ReturnBinary(a) \/ ReadOutput(a)
      BY <3>3, <1>2, ReplyEffect DEF Execute, WriteScript, ReturnBinary, ReadOutput, Goto, TypeOK
    <3>4. CASE ChildStarts(a) \/ ChildDies(a)
      BY <3>4, <1>2 DEF ChildStarts, ChildDies, ChildEnds, Goto, TypeOK
    <3>5. CASE PrintHead(a) \/ ProgramExits(a) \/ ProgramFails(a) \/ ProgramKilled(a)
      BY <3>5, <1>2 DEF PrintHead, ProgramExits, ProgramFails, ProgramKilled, ChildEnds, Goto, TypeOK
    <3> QED
      BY <1>6, <3>1, <3>2, <3>3, <3>4, <3>5 DEF Moves
  <2> QED
    BY <2>1, <2>2, <1>2 DEF LiveInv
<1> QED
  BY <1>3, <1>4, <1>5, <1>6

\* No step of a thread kills the engine.
LEMMA DeadMove ==
    ASSUME TypeOK, DeadInv, NEW a \in Attempts, Moves(a)
    PROVE  DeadInv'
BY MoveEffect DEF DeadInv, Rest

\* What a thread alone does to what it has built, ...
LEMMA IntactBuild ==
    ASSUME TypeOK, LiveInv, DeadInv, NEW a \in Attempts, language # "unknown",
           \A b \in Attempts \ {a} : pc[b] \in Rest,
           Own(a), Fine(a) \/ Spoilt, a \notin met \cup hindered',
           \/ ReadOldStrategy(a) \/ SwapStrategy(a)
           \/ LoadStrategy(a, "run", "compile") \/ LoadStrategy(a, "reload", "execute")
           \/ Compile(a) \/ HitBegins(a) \/ HitEnds(a) \/ HitFails(a)
           \/ SaveBegins(a) \/ SaveEnds(a) \/ SaveFails(a)
           \/ CompilerWrites(a) \/ CompilerEnds(a) \/ CompilerFails(a) \/ CompilerKilled(a)
    PROVE  Own(a)' /\ (Fine(a)' \/ Spoilt')
<1>1. Moves(a)
  BY DEF Moves
<1>2. UNCHANGED language /\ engine # "dead" /\ (Spoilt => Spoilt')
  BY <1>1, MoveEffect, SpoiltMove DEF DeadInv, Rest
<1>3. \A b \in Attempts \ {a} : pc'[b] = pc[b]
  BY <1>1, MoveEffect
<1>0. ~Hindered(a)
  BY DEF Hindered
<1>4. CASE ReadOldStrategy(a)
  <2>1. pc'[a] = "swap" /\ this'[a] = strategy /\ UNCHANGED strategy
    BY <1>4 DEF ReadOldStrategy, Goto, TypeOK
  <2> QED
    BY <2>1 DEF Own, Fine
<1>5. CASE SwapStrategy(a)
  <2>1. pc'[a] = "run"
    BY <1>5 DEF SwapStrategy, Goto, TypeOK
  <2> QED
    BY <2>1 DEF Own, Fine
<1>6. CASE LoadStrategy(a, "run", "compile")
  <2>1. pc'[a] = "compile" /\ this'[a] = strategy /\ UNCHANGED strategy
    BY <1>6 DEF LoadStrategy, Goto, TypeOK
  <2> QED
    BY <2>1 DEF Own, Fine
<1>7. CASE LoadStrategy(a, "reload", "execute")
  <2>1. /\ pc[a] = "reload" /\ pc'[a] = "execute" /\ this'[a] = strategy
        /\ UNCHANGED <<strategy, binary>>
    BY <1>7 DEF LoadStrategy, Goto, TypeOK, buildVars
  <2> QED
    BY <2>1, <1>2 DEF Own, Fine
<1>8. CASE Compile(a)
  <2>1. CASE language = "interpreted" /\ pc'[a] = "reload"
    BY <2>1, <1>2 DEF Own, Fine
  <2>2. CASE language \in {"cached", "wasm"} /\ cache # "none" /\ pc'[a] = "hit" /\ UNCHANGED cache
    BY <2>2, <1>2 DEF Own, Fine
  <2>3. CASE pc'[a] = "compiling" /\ source'
    BY <2>3 DEF Own, Fine
  <2> QED
    BY <1>8, <2>1, <2>2, <2>3 DEF Compile, Goto, TypeOK
<1>9. CASE HitBegins(a)
  <2>1. executing = {}
    <3>1. LeftBehind = {} /\ pc[a] = "hit"
      BY <1>9, <1>0 DEF HitBegins
    <3>2. executing \subseteq LeftBehind
      BY <1>9, <3>1 DEF LeftBehind, Rest, TypeOK
    <3> QED
      BY <3>1, <3>2
  <2>2. /\ pc[a] = "hit" /\ pc'[a] = "copying" /\ read'[a] = cache /\ UNCHANGED cache
    BY <1>9, <2>1 DEF HitBegins, Goto, TypeOK
  <2> QED
    BY <2>2, <1>2 DEF Own, Fine
<1>10. CASE HitEnds(a)
  <2>1. /\ pc[a] = "copying" /\ pc'[a] = "reload" /\ binary' = cache /\ cache \in {"part", "whole"}
        /\ UNCHANGED cache /\ language # "compiled"
    BY <1>10 DEF HitEnds, Goto, TypeOK, Own, File
  <2>2. Own(a)'
    BY <2>1 DEF Own
  <2>3. CASE cache = "whole"
    BY <2>1, <2>2, <2>3 DEF Fine
  <2>4. CASE cache = "part"
    <3>1. \A b \in Attempts : pc'[b] \notin {"compiling", "linking", "save", "saving"}
      BY <2>1, <1>3 DEF Rest
    <3> QED
      BY <3>1, <2>1, <2>2, <2>4, <1>2 DEF Spoilt, Building
  <2> QED
    BY <2>1, <2>3, <2>4
<1>11. CASE SaveBegins(a)
  <2>1. binary = "whole" /\ pc[a] = "save"
    BY <1>11 DEF SaveBegins, Own
  <2>2. pc'[a] = "saving" /\ read'[a] = "whole" /\ UNCHANGED binary
    BY <1>11, <2>1 DEF SaveBegins, Goto, TypeOK
  <2> QED
    BY <2>1, <2>2 DEF Own, Fine
<1>12. CASE SaveEnds(a)
  <2>1. binary = "whole" /\ UNCHANGED binary /\ pc'[a] = "reload"
    BY <1>12 DEF SaveEnds, Own, Goto, TypeOK
  <2> QED
    BY <2>1 DEF Own, Fine
<1>13. CASE CompilerWrites(a)
  <2>1. pc'[a] = "linking"
    BY <1>13 DEF CompilerWrites, Goto, TypeOK
  <2> QED
    BY <2>1 DEF Own, Fine
<1>14. CASE CompilerEnds(a)
  <2>1. binary' = "whole" /\ pc'[a] \in {"reload", "save"}
    BY <1>14 DEF CompilerEnds, Goto, TypeOK
  <2> QED
    BY <2>1 DEF Own, Fine
<1>15. CASE CompilerFails(a)
  <2>1. pc[a] = "compiling" /\ ~compiles /\ UNCHANGED compiles
    BY <1>15, <1>0 DEF CompilerFails, Own, taskVars
  <2>2. pc'[a] = "respond" /\ reply'[a] = [verdict |-> "compile_error", text |-> {}]
    BY <1>15, ReplyEffect DEF CompilerFails, TypeOK
  <2> QED
    BY <2>1, <2>2 DEF Own, Fine, GoodReply
<1>16. CASE CompilerKilled(a)
  <2>1. pc'[a] = "respond" /\ reply'[a] = [verdict |-> "compile_killed", text |-> {}]
    BY <1>16, ReplyEffect DEF CompilerKilled, TypeOK
  <2> QED
    BY <2>1 DEF Own, Fine, GoodReply
<1>17. ~HitFails(a) /\ ~SaveFails(a)
  BY <1>0 DEF HitFails, SaveFails
<1> QED
  BY <1>4, <1>5, <1>6, <1>7, <1>8, <1>9, <1>10, <1>11, <1>12, <1>13, <1>14, <1>15, <1>16, <1>17

\* ... and with its run and its answer.
LEMMA IntactRun ==
    ASSUME TypeOK, LiveInv, NEW a \in Attempts, language # "unknown",
           Own(a), Fine(a) \/ Spoilt, a \notin met \cup hindered',
           \/ Execute(a) \/ WriteScript(a) \/ ReturnBinary(a) \/ ChildStarts(a) \/ ChildDies(a)
           \/ PrintHead(a) \/ ProgramExits(a) \/ ProgramFails(a) \/ ProgramKilled(a) \/ ReadOutput(a)
    PROVE  Own(a)' /\ (Fine(a)' \/ Spoilt')
<1>1. Moves(a)
  BY DEF Moves
<1>2. UNCHANGED <<language, compiles>> /\ (Spoilt => Spoilt')
  BY <1>1, MoveEffect, SpoiltMove
<1>0. ~Hindered(a)
  BY DEF Hindered
<1>3. CASE Execute(a)
  <2>1. pc[a] = "execute" /\ this[a] = strategy /\ UNCHANGED <<this, strategy>>
    BY <1>3 DEF Execute, Own, objectVars
  <2>2. CASE language = "interpreted"
    <3>1. pc'[a] = "script"
      BY <1>3, <2>2 DEF Execute, Goto, TypeOK
    <3> QED
      BY <3>1, <2>1 DEF Own, Fine
  <2>3. CASE language # "interpreted"
    <3>1. pc'[a] = "fork" /\ out' = 0 /\ UNCHANGED binary
      BY <1>3, <2>3 DEF Execute, Goto, TypeOK
    <3> QED
      BY <3>1, <2>1, <2>3, <1>2 DEF Own, Fine
  <2> QED
    BY <2>2, <2>3
<1>4. CASE WriteScript(a)
  <2>1. /\ pc[a] = "script" /\ this[a] = strategy /\ UNCHANGED <<this, strategy>>
        /\ pc'[a] = "fork" /\ out' = 0 /\ binary' = "whole"
    BY <1>4, <1>0 DEF WriteScript, Own, objectVars, Goto, TypeOK
  <2> QED
    BY <2>1 DEF Own, Fine
<1>5. CASE ReturnBinary(a)
  <2>1. language = "wasm" /\ pc[a] = "execute"
    BY <1>5 DEF ReturnBinary
  <2>2. pc'[a] = "respond"
    BY <1>5, ReplyEffect DEF ReturnBinary, TypeOK
  <2>3. Own(a)'
    BY <2>2 DEF Own
  <2>4. CASE binary = "whole"
    <3>1. Reply(a, "exit0", Whole(a))
      BY <1>5, <2>4 DEF ReturnBinary
    <3>2. reply'[a] = [verdict |-> "exit0", text |-> Whole(a)]
      BY <3>1, <2>1, ReplyEffect
    <3> QED
      BY <3>2, <2>2, <2>3 DEF Fine, GoodReply
  <2> QED
    BY <2>1, <2>3, <2>4, <1>2 DEF Fine
<1>6. CASE ChildStarts(a)
  <2>1. pc[a] = "fork" /\ out = 0
    BY <1>6 DEF ChildStarts, Own
  <2>2. out' = a /\ stdout' = [stdout EXCEPT ![a] = a] /\ text' = [text EXCEPT ![a] = {}]
    BY <1>6, <2>1 DEF ChildStarts
  <2>3. stdout'[a] = a /\ text'[a] = {}
    BY <2>2 DEF TypeOK
  <2>4. CASE binary = "whole"
    <3>1. pc'[a] = "running"
      BY <1>6, <2>4 DEF ChildStarts, Goto, TypeOK
    <3> QED
      BY <3>1, <2>2, <2>3 DEF Own, Fine
  <2>5. CASE binary # "whole"
    <3>1. pc'[a] = "read"
      BY <1>6, <2>5 DEF ChildStarts, Goto, TypeOK
    <3>2. Own(a)'
      BY <3>1, <2>2, <2>3 DEF Own
    <3>3. Spoilt'
      BY <2>1, <2>5, <1>2 DEF Fine
    <3> QED
      BY <3>2, <3>3
  <2> QED
    BY <2>4, <2>5
<1>7. CASE ChildDies(a)
  BY <1>7 DEF ChildDies, Own, LiveInv
<1>8. CASE PrintHead(a)
  <2>1. /\ pc[a] = "running" /\ out = a /\ stdout[a] = a /\ text[a] = {}
        /\ UNCHANGED <<out, stdout>> /\ pc'[a] = "printing"
    BY <1>8 DEF PrintHead, Own, Goto, TypeOK
  <2>2. text'[a] = {<<a, "head">>}
    BY <1>8, <2>1, <1>0 DEF PrintHead, Prints, TypeOK
  <2> QED
    BY <2>1, <2>2 DEF Own, Fine
<1>9. CASE ProgramExits(a)
  <2>1. /\ pc[a] = "printing" /\ out = a /\ stdout[a] = a /\ text[a] = {<<a, "head">>}
        /\ UNCHANGED <<out, stdout>> /\ pc'[a] = "read"
    BY <1>9 DEF ProgramExits, ChildEnds, Own, Goto, TypeOK
  <2>2. text'[a] = Whole(a)
    BY <1>9, <2>1, <1>0 DEF ProgramExits, Prints, TypeOK, Whole
  <2>3. reply'[a].verdict = "exit0"
    BY <1>9 DEF ProgramExits, ChildEnds, TypeOK
  <2> QED
    BY <2>1, <2>2, <2>3 DEF Own, Fine
<1>10. CASE ProgramFails(a) \/ ProgramKilled(a)
  <2>1. PICK v \in {"failed"} : ChildEnds(a, v) /\ UNCHANGED text
    BY <1>10 DEF ProgramFails, ProgramKilled
  <2>2. /\ out = a /\ stdout[a] = a /\ text[a] \subseteq Whole(a)
        /\ UNCHANGED <<out, stdout, text>> /\ pc'[a] = "read"
    BY <1>10, <2>1 DEF ProgramFails, ProgramKilled, ChildEnds, Own, Goto, TypeOK, Whole
  <2>3. reply'[a].verdict = v
    BY <2>1 DEF ChildEnds, TypeOK
  <2> QED
    BY <2>2, <2>3 DEF Own, Fine
<1>11. CASE ReadOutput(a)
  <2>1. /\ pc[a] = "read" /\ out = a /\ text[a] \subseteq Whole(a)
        /\ (IF out = 0 THEN {} ELSE text[out]) = text[a]
    BY <1>11, BatchAssumption DEF ReadOutput, Own, Attempts
  <2>2. Reply(a, reply[a].verdict, text[a])
    BY <1>11, <2>1 DEF ReadOutput
  <2>3. /\ pc'[a] = "respond"
        /\ reply'[a] \in {[verdict |-> reply[a].verdict, text |-> text[a]],
                          [verdict |-> "http400", text |-> {}]}
    <3>1. /\ pc' = [pc EXCEPT ![a] = "respond"]
          /\ \/ reply'[a] = [verdict |-> reply[a].verdict, text |-> text[a]]
             \/ reply'[a] = [verdict |-> "http400", text |-> {}]
      BY ONLY <2>2, TypeOK DEF Reply, Goto, TypeOK
    <3> QED
      BY <3>1 DEF TypeOK
  <2>4. Own(a)'
    BY <2>3 DEF Own
  <2>5. ASSUME Fine(a) PROVE Fine(a)'
    <3>1. /\ reply[a].verdict \in {"exit0", "failed"}
          /\ reply[a].verdict = "exit0" => text[a] = Whole(a)
      BY <2>1, <2>5 DEF Fine
    <3>2. GoodReply(a)'
      BY <2>1, <2>3, <3>1 DEF GoodReply
    <3> QED
      BY <2>3, <3>2 DEF Fine
  <2> QED
    BY <2>4, <2>5, <1>2
<1> QED
  BY <1>3, <1>4, <1>5, <1>6, <1>7, <1>8, <1>9, <1>10, <1>11

\* The step of another thread finds a thread that is alone answered or not begun.
LEMMA AloneMove ==
    ASSUME TypeOK, LiveInv, DeadInv, AloneInv, IntactInv, NEW a \in Attempts, Moves(a)
    PROVE  AloneInv' /\ IntactInv'
<1>1. /\ UNCHANGED <<language, compiles, met>> /\ hindered \subseteq hindered' /\ a \in Serving
      /\ \A b \in Attempts \ {a} : reply'[b] = reply[b] /\ pc'[b] = pc[b]
  BY MoveEffect DEF Serving, Rest
<1>2. Serving' \subseteq Serving
  BY <1>1 DEF Serving
<1>3. AloneInv'
  BY <1>1, <1>2 DEF AloneInv
<1>4. ASSUME language # "unknown", NEW b \in Attempts \ (met \cup hindered')
      PROVE  Own(b)' /\ (Spoilt' \/ Fine(b)')
  <2>1. Own(b) /\ (Spoilt \/ Fine(b))
    BY <1>1, <1>4 DEF IntactInv
  <2>2. CASE b = a
    <3>1. \A c \in Attempts \ {a} : pc[c] \in Rest
      BY <1>1, <1>4, <2>2 DEF AloneInv, Serving, Rest
    <3> QED
      BY <1>4, <2>1, <2>2, <3>1, IntactBuild, IntactRun DEF Moves
  <2>3. CASE b # a
    <3>1. pc[b] \in Rest /\ pc'[b] = pc[b] /\ reply'[b] = reply[b]
      BY <1>1, <1>4, <2>3 DEF AloneInv, Serving, Rest
    <3>2. Own(b)'
      BY <3>1 DEF Own, Rest
    <3>3. Fine(b) => Fine(b)'
      BY <3>1, <1>1 DEF Fine, GoodReply, Rest
    <3> QED
      BY <2>1, <3>2, <3>3, SpoiltMove
  <2> QED
    BY <2>2, <2>3
<1> QED
  BY <1>1, <1>3, <1>4 DEF IntactInv

\* A thread that has answered leaves the others as they are.
LEMMA AloneLeave ==
    ASSUME TypeOK, LiveInv, DeadInv, AloneInv, IntactInv,
           NEW a \in Attempts, pc[a] = "respond", Leave(a), UNCHANGED <<taskVars, engine, histories>>
    PROVE  LiveInv' /\ DeadInv' /\ AloneInv' /\ IntactInv'
<1>1. /\ \A b \in Attempts \ {a} : /\ pc'[b] = pc[b] /\ this'[b] = this[b] /\ read'[b] = read[b]
                                  /\ stdout'[b] = stdout[b] /\ reply'[b] = reply[b]
                                  /\ text'[b] = text[b]
      /\ pc'[a] = "done" /\ this'[a] = 0
      /\ UNCHANGED <<language, compiles, engine, met, hindered, strategy, freed, source, binary, cache, out>>
  BY DEF Leave, Goto, TypeOK, taskVars, histories, NoObject
<1>2. 0 \notin Attempts
  BY DEF Attempts
<1>3. LiveInv'
  BY <1>1, <1>2 DEF LiveInv
<1>4. DeadInv'
  BY <1>1 DEF DeadInv
<1>5. Serving' = Serving
  BY <1>1 DEF Serving
<1>6. AloneInv'
  BY <1>1, <1>5 DEF AloneInv
<1>7. Spoilt => Spoilt'
  BY <1>1 DEF Spoilt, Building
<1>8. Own(a)' /\ Fine(a)'
  BY <1>1 DEF Own, Fine
<1>9. ASSUME NEW b \in Attempts \ {a} PROVE (Own(b) => Own(b)') /\ (Fine(b) => Fine(b)')
  <2>1. Own(b) => Own(b)'
    BY <1>1, <1>9 DEF Own
  <2>2. Fine(b) => Fine(b)'
    BY <1>1, <1>9 DEF Fine, GoodReply
  <2> QED
    BY <2>1, <2>2
<1>10. IntactInv'
  BY <1>1, <1>7, <1>8, <1>9 DEF IntactInv
<1> QED
  BY <1>3, <1>4, <1>6, <1>10

\* A POST either starts a thread that is alone, or its meeting is recorded.
LEMMA AlonePost ==
    ASSUME TypeOK, Fresh, LiveInv, DeadInv, AloneInv, IntactInv, Post
    PROVE  LiveInv' /\ DeadInv' /\ AloneInv' /\ IntactInv'
<1> DEFINE a == attempt
<1>1. a \in Attempts /\ pc[a] = "idle"
  BY DEF Post, Fresh, TypeOK
<1>2. /\ pc' = [pc EXCEPT ![a] = "set"] /\ engine = "up"
      /\ UNCHANGED <<language, compiles, engine, this, strategy, freed, source, binary, cache,
                     read, out, stdout, text, reply, hindered>>
  BY DEF Post, Goto, taskVars, objectVars, buildVars, outputVars
<1>3. pc'[a] = "set" /\ \A b \in Attempts \ {a} : pc'[b] = pc[b]
  BY <1>1, <1>2 DEF TypeOK
<1>4. LiveInv'
  <2>1. a \notin freed /\ a # strategy /\ ~(\E c \in Attempts : this[c] = a)
    BY <1>1 DEF LiveInv
  <2> QED
    BY <2>1, <1>2, <1>3 DEF LiveInv
<1>5. DeadInv'
  BY <1>2 DEF DeadInv
<1>6. Serving' = Serving \cup {a} /\ a \notin Serving
  BY <1>1, <1>3 DEF Serving
<1>7. met' = IF Serving = {} THEN met ELSE met \cup Serving \cup {a}
  BY DEF Post
<1>8. AloneInv'
  <2>1. CASE Serving = {}
    BY <2>1, <1>6 DEF AloneInv
  <2>2. CASE Serving # {}
    BY <2>2, <1>6, <1>7 DEF AloneInv
  <2> QED
    BY <2>1, <2>2
<1>9. Spoilt => Spoilt'
  BY <1>2, <1>3 DEF Spoilt, Building
<1>10. ASSUME language # "unknown", NEW b \in Attempts \ (met' \cup hindered')
       PROVE  Own(b)' /\ (Spoilt' \/ Fine(b)')
  <2>1. b \notin met /\ Own(b) /\ (Spoilt \/ Fine(b))
    BY <1>2, <1>7, <1>10 DEF IntactInv
  <2>2. CASE b = a
    BY <2>2, <1>3 DEF Own, Fine
  <2>3. CASE b # a
    <3>1. Own(b) => Own(b)'
      BY <1>2, <1>3, <1>10, <2>3 DEF Own
    <3>2. Fine(b) => Fine(b)'
      BY <1>2, <1>3, <1>10, <2>3 DEF Fine, GoodReply
    <3> QED
      BY <2>1, <3>1, <3>2, <1>9
  <2> QED
    BY <2>2, <2>3
<1>11. IntactInv'
  BY <1>2, <1>10 DEF IntactInv
<1> QED
  BY <1>4, <1>5, <1>8, <1>11

\* Steps that change nothing of the engine but its start, and its death.
LEMMA AloneQuiet ==
    ASSUME TypeOK, LiveInv, DeadInv, AloneInv, IntactInv,
           \/ EngineStarts \/ PortNotOpen \/ PortOpen \/ RequestFails \/ LinkerEnds
           \/ (\E a \in Attempts : LeftoverEnds(a)) \/ UNCHANGED vars
    PROVE  LiveInv' /\ DeadInv' /\ AloneInv' /\ IntactInv'
<1>1. /\ UNCHANGED <<language, compiles, pc, this, strategy, freed, source, binary, cache,
                     read, out, stdout, text, reply, met, hindered>>
      /\ engine = "dead" <=> engine' = "dead"
  BY DEF EngineStarts, PortNotOpen, PortOpen, RequestFails, LinkerEnds, LeftoverEnds, vars, taskVars, objectVars,
     buildVars, outputVars, histories
<1>2. LiveInv' /\ DeadInv' /\ AloneInv'
  BY <1>1 DEF LiveInv, DeadInv, AloneInv, Serving
<1>3. Spoilt => Spoilt'
  BY <1>1 DEF Spoilt, Building
<1>4. ASSUME NEW b \in Attempts PROVE (Own(b) => Own(b)') /\ (Fine(b) => Fine(b)')
  BY <1>1 DEF Own, Fine, GoodReply
<1>5. IntactInv'
  BY <1>1, <1>3, <1>4 DEF IntactInv
<1> QED
  BY <1>2, <1>5

\* A linker that writes leaves the threads that do not serve as they are, and the others
\* are hindered from then on.
LEMMA AloneLinker ==
    ASSUME TypeOK, LiveInv, DeadInv, AloneInv, IntactInv, LinkerWrites
    PROVE  LiveInv' /\ DeadInv' /\ AloneInv' /\ IntactInv'
<1>1. /\ UNCHANGED <<language, compiles, engine, pc, this, strategy, freed, source, cache, read, out, stdout,
                     text, reply, met>>
      /\ hindered' = hindered \cup (Serving \ met)
  BY DEF LinkerWrites, taskVars, objectVars, outputVars
<1>2. LiveInv' /\ DeadInv' /\ AloneInv'
  BY <1>1 DEF LiveInv, DeadInv, AloneInv, Serving
<1>3. ASSUME language # "unknown", NEW b \in Attempts \ (met \cup hindered')
      PROVE  Own(b)' /\ (Spoilt' \/ Fine(b)')
  <2>1. Own(b) /\ (Spoilt \/ Fine(b)) /\ pc[b] \in Rest
    BY <1>1, <1>3 DEF IntactInv, Serving, Rest
  <2>2. Own(b)'
    BY <1>1, <2>1 DEF Own, Rest
  <2>3. (Spoilt => Spoilt') /\ (Fine(b) => Fine(b)')
    BY <1>1, <2>1 DEF Spoilt, Building, Fine, GoodReply, Rest
  <2> QED
    BY <2>1, <2>2, <2>3
<1> QED
  BY <1>1, <1>2, <1>3 DEF IntactInv

LEMMA AloneCrash ==
    ASSUME TypeOK, LiveInv, DeadInv, NEW a \in Attempts, UsesDeleted(a)
    PROVE  LiveInv' /\ DeadInv' /\ AloneInv' /\ IntactInv'
<1>1. /\ engine' = "dead"
      /\ \A b \in Attempts : pc'[b] \in {"idle", "done", "gone"} /\ (pc'[b] = "idle" => pc[b] = "idle")
      /\ UNCHANGED <<this, strategy, freed>>
  BY DEF UsesDeleted, Crash, objectVars
<1>2. LiveInv'
  BY <1>1 DEF LiveInv
<1>3. DeadInv' /\ AloneInv'
  BY <1>1 DEF DeadInv, AloneInv, Serving
<1>4. \A b \in Attempts : Own(b)' /\ Fine(b)'
  BY <1>1 DEF Own, Fine
<1> QED
  BY <1>2, <1>3, <1>4 DEF IntactInv

LEMMA AloneInit == Init => AInv
<1> SUFFICES ASSUME Init PROVE AInv
  OBVIOUS
<1>1. \A b \in Attempts : pc[b] = "idle" /\ this[b] = 0 /\ b # 0
  BY DEF Init, NoObject, Attempts
<1>2. LiveInv
  BY <1>1 DEF Init, LiveInv, NoObject
<1>3. DeadInv /\ AloneInv
  BY <1>1 DEF Init, DeadInv, AloneInv, Serving
<1>4. \A b \in Attempts : Own(b) /\ Fine(b)
  BY <1>1 DEF Own, Fine
<1> QED
  BY <1>2, <1>3, <1>4, InvInit DEF AInv, IntactInv

LEMMA AloneStep == AInv /\ [Next]_vars => AInv'
<1> SUFFICES ASSUME AInv, [Next]_vars PROVE AInv'
  OBVIOUS
<1>1. IInv' /\ TypeOK /\ Fresh /\ LiveInv /\ DeadInv /\ AloneInv /\ IntactInv
  BY InvStep DEF AInv, IInv
<1> SUFFICES LiveInv' /\ DeadInv' /\ AloneInv' /\ IntactInv'
  BY <1>1 DEF AInv
<1>2. CASE Post
  BY <1>1, <1>2, AlonePost
<1>3. CASE Answered
  <2>1. /\ Leave(attempt) /\ pc[attempt] = "respond" /\ attempt \in Attempts
        /\ UNCHANGED <<taskVars, engine, histories>>
    BY <1>1, <1>3 DEF Answered, TypeOK
  <2> QED
    BY <1>1, <2>1, AloneLeave
<1>4. CASE \/ EngineStarts \/ PortNotOpen \/ PortOpen \/ RequestFails \/ LinkerEnds
           \/ (\E a \in Attempts : LeftoverEnds(a)) \/ UNCHANGED vars
  BY <1>1, <1>4, AloneQuiet
<1>8. CASE LinkerWrites
  BY <1>1, <1>8, AloneLinker
<1>5. ASSUME NEW a \in Attempts, Moves(a) PROVE LiveInv' /\ DeadInv' /\ AloneInv' /\ IntactInv'
  BY <1>1, <1>5, LiveMove, DeadMove, AloneMove
<1>6. ASSUME NEW a \in Attempts, AnswersNobody(a) PROVE LiveInv' /\ DeadInv' /\ AloneInv' /\ IntactInv'
  BY <1>1, <1>6, AloneLeave DEF AnswersNobody
<1>7. ASSUME NEW a \in Attempts, UsesDeleted(a) PROVE LiveInv' /\ DeadInv' /\ AloneInv' /\ IntactInv'
  BY <1>1, <1>7, AloneCrash
<1> QED
  BY <1>2, <1>3, <1>4, <1>5, <1>6, <1>7, <1>8 DEF Next, ClientStep, ThreadStep, ChildStep, Moves

\* Whatever earlier attempts left in /tmp, an attempt that has the engine to itself and
\* that neither a process they left nor a lack of space has hindered is answered with its
\* own program's whole output and no failure but the program's.
THEOREM RetriesAreIntact == Spec => []AloneIsIntact
<1>1. AInv => AloneIsIntact
  BY DEF AInv, IntactInv, Spoilt, Fine, GoodReply, AloneIsIntact
<1> QED
  BY <1>1, AloneInit, AloneStep, PTL DEF Spec

-----------------------------------------------------------------------------
(* How long both sides can be                                                *)

\* The steps a thread has left at each place, and the adapter at each of its own.
StepsLeft == [idle |-> 20, set |-> 19, swap |-> 18, run |-> 17, compile |-> 16, hit |-> 15,
              compiling |-> 15, copying |-> 14, linking |-> 14, save |-> 13, saving |-> 12,
              reload |-> 11, execute |-> 10, script |-> 9, fork |-> 8, running |-> 7,
              printing |-> 6, read |-> 5, respond |-> 4, done |-> 0, gone |-> 0]
CallsLeft == [probe |-> 3, post |-> 2, wait |-> 1, done |-> 0]
AdapterLeft == 3 * (MaxAttempts - attempt) + CallsLeft[client]

\* A thread goes forward only.
LEMMA MovesForward ==
    ASSUME TypeOK, NEW a \in Attempts, Moves(a)
    PROVE  StepsLeft[pc'[a]] < StepsLeft[pc[a]]
<1>1. /\ pc' = [pc EXCEPT ![a] = pc'[a]] /\ pc[a] \in Labels
      /\ \A x : pc' = [pc EXCEPT ![a] = x] => pc'[a] = x
  BY MoveEffect DEF TypeOK
<1>2. CASE \/ ReadOldStrategy(a) \/ SwapStrategy(a)
           \/ LoadStrategy(a, "run", "compile") \/ LoadStrategy(a, "reload", "execute")
  BY <1>1, <1>2 DEF ReadOldStrategy, SwapStrategy, LoadStrategy, Reply, Goto, StepsLeft
<1>3. CASE Compile(a) \/ HitBegins(a) \/ HitEnds(a) \/ HitFails(a) \/ SaveBegins(a) \/ SaveEnds(a) \/ SaveFails(a)
  <2>1. CASE Compile(a) \/ HitBegins(a) \/ HitEnds(a) \/ HitFails(a)
    BY <1>1, <2>1 DEF Compile, HitBegins, HitEnds, HitFails, Reply, Goto, StepsLeft
  <2>2. CASE SaveBegins(a) \/ SaveEnds(a) \/ SaveFails(a)
    BY <1>1, <2>2 DEF SaveBegins, SaveEnds, SaveFails, Reply, Goto, StepsLeft
  <2> QED
    BY <1>3, <2>1, <2>2
<1>4. CASE CompilerWrites(a) \/ CompilerEnds(a) \/ CompilerFails(a) \/ CompilerKilled(a)
  <2>1. CASE CompilerWrites(a) \/ CompilerEnds(a)
    BY <1>1, <2>1 DEF CompilerWrites, CompilerEnds, Goto, StepsLeft
  <2>2. CASE CompilerFails(a) \/ CompilerKilled(a)
    <3>1. pc[a] \in {"compiling", "linking"} /\ pc' = [pc EXCEPT ![a] = "respond"]
      BY <2>2 DEF CompilerFails, CompilerKilled, Reply, Goto
    <3>2. pc'[a] = "respond"
      BY <1>1, <3>1
    <3> QED
      BY <3>1, <3>2 DEF StepsLeft
  <2> QED
    BY <1>4, <2>1, <2>2
<1>5. CASE Execute(a) \/ WriteScript(a) \/ ReturnBinary(a) \/ ReadOutput(a)
  BY <1>1, <1>5 DEF Execute, WriteScript, ReturnBinary, ReadOutput, Reply, Goto, StepsLeft
<1>6. CASE ChildStarts(a) \/ ChildDies(a)
  BY <1>1, <1>6 DEF ChildStarts, ChildDies, ChildEnds, Goto, StepsLeft
<1>7. CASE PrintHead(a) \/ ProgramExits(a) \/ ProgramFails(a) \/ ProgramKilled(a)
  BY <1>1, <1>7 DEF PrintHead, ProgramExits, ProgramFails, ProgramKilled, ChildEnds, Goto, StepsLeft
<1> QED
  BY <1>2, <1>3, <1>4, <1>5, <1>6, <1>7 DEF Moves

\* No step starts a thread a second time: it stays where it is or goes forward.
Forward == \A a \in Attempts : pc'[a] = pc[a] \/ StepsLeft[pc'[a]] < StepsLeft[pc[a]]

LEMMA ForwardStep ==
    ASSUME TypeOK, Fresh, [Next]_vars
    PROVE  Forward
<1> USE DEF TypeOK, Forward
<1>1. CASE \/ EngineStarts \/ PortNotOpen \/ PortOpen \/ RequestFails \/ LinkerWrites \/ LinkerEnds
           \/ (\E a \in Attempts : LeftoverEnds(a)) \/ UNCHANGED vars
  BY <1>1 DEF EngineStarts, PortNotOpen, PortOpen, RequestFails, LinkerWrites, LinkerEnds, LeftoverEnds, vars
<1>2. CASE Post
  <2>1. pc[attempt] = "idle" /\ pc' = [pc EXCEPT ![attempt] = "set"]
    BY <1>2 DEF Post, Goto, Fresh
  <2> QED
    BY <2>1 DEF StepsLeft
<1>3. ASSUME NEW a \in Attempts, pc[a] = "respond", Leave(a) PROVE Forward
  BY <1>3 DEF Leave, Goto, StepsLeft
<1>4. ASSUME NEW a \in Attempts, Moves(a) PROVE Forward
  BY <1>4, MoveEffect, MovesForward
<1>5. ASSUME NEW a \in Attempts, UsesDeleted(a) PROVE Forward
  <2>1. SUFFICES ASSUME NEW b \in Attempts, pc'[b] # pc[b]
                 PROVE  StepsLeft[pc'[b]] < StepsLeft[pc[b]]
    OBVIOUS
  <2>2. pc[b] \in Labels \ {"idle", "done", "gone"} /\ pc'[b] = "gone"
    BY <1>5, <2>1 DEF UsesDeleted, Crash
  <2> QED
    BY <2>2 DEF Labels, StepsLeft
<1> QED
  BY <1>1, <1>2, <1>3, <1>4, <1>5 DEF Next, ClientStep, ThreadStep, ChildStep, Moves, Answered, AnswersNobody

\* Every step of the adapter takes it closer to its end, and nothing else moves it.
LEMMA AdapterStep ==
    ASSUME TypeOK, [Next]_vars
    PROVE  IF ClientStep THEN AdapterLeft' < AdapterLeft ELSE AdapterLeft' = AdapterLeft
<1>1. /\ MaxAttempts \in Nat /\ attempt \in 1 .. MaxAttempts
      /\ client \in {"probe", "post", "wait", "done"}
  BY BatchAssumption DEF TypeOK, Attempts
<1>2. CASE ClientStep
  <2>1. \/ attempt' = attempt /\ client = "probe" /\ client' = "post"
        \/ attempt' = attempt /\ client = "post" /\ client' = "wait"
        \/ attempt' = attempt /\ client # "done" /\ client' = "done"
        \/ attempt' = attempt + 1 /\ client \in {"post", "wait"} /\ client' = "probe"
    BY <1>2 DEF ClientStep, PortNotOpen, PortOpen, Post, RequestFails, Retry, Answered, Return
  <2>2. AdapterLeft' < AdapterLeft
    BY <1>1, <2>1 DEF AdapterLeft, CallsLeft
  <2> QED
    BY <1>2, <2>2
<1>3. CASE ~ClientStep
  <2>1. UNCHANGED <<client, attempt>>
    <3>1. ASSUME NEW a \in Attempts,
                 ThreadStep(a) \/ ChildStep(a) \/ UsesDeleted(a) \/ ChildDies(a)
          PROVE  UNCHANGED <<client, attempt>>
      <4>1. CASE Moves(a)
        BY <4>1, MoveEffect
      <4>2. CASE AnswersNobody(a) \/ UsesDeleted(a) \/ LeftoverEnds(a)
        BY <4>2 DEF AnswersNobody, UsesDeleted, Crash, LeftoverEnds, clientVars
      <4> QED
        BY <3>1, <4>1, <4>2 DEF ThreadStep, ChildStep, Moves
    <3>2. CASE EngineStarts \/ LinkerWrites \/ LinkerEnds \/ UNCHANGED vars
      BY <3>2 DEF EngineStarts, LinkerWrites, LinkerEnds, vars, clientVars
    <3> QED
      BY <1>3, <3>1, <3>2 DEF Next
  <2> QED
    BY <1>3, <2>1 DEF AdapterLeft
<1> QED
  BY <1>2, <1>3

\* For any number of attempts: the adapter makes at most three calls for each, whatever the
\* engine does, and no thread of the engine visits a place twice, whatever the adapter, the
\* compiler, the program and the other threads do. So both end unless a step never happens.
THEOREM RetriesAreBounded ==
    Spec => /\ [](AdapterLeft \in 0 .. 3 * MaxAttempts)
            /\ [][/\ IF ClientStep THEN AdapterLeft' < AdapterLeft ELSE AdapterLeft' = AdapterLeft
                  /\ Forward]_vars
<1>1. TypeOK => AdapterLeft \in 0 .. 3 * MaxAttempts
  <2> SUFFICES ASSUME TypeOK PROVE AdapterLeft \in 0 .. 3 * MaxAttempts
    OBVIOUS
  <2>1. /\ MaxAttempts \in Nat /\ attempt \in 1 .. MaxAttempts
        /\ client \in {"probe", "post", "wait", "done"}
    BY BatchAssumption DEF TypeOK, Attempts
  <2> QED
    BY <2>1 DEF AdapterLeft, CallsLeft
<1>2. IInv /\ [Next]_vars =>
        [/\ IF ClientStep THEN AdapterLeft' < AdapterLeft ELSE AdapterLeft' = AdapterLeft
         /\ Forward]_vars
  BY AdapterStep, ForwardStep DEF IInv
<1>3. IInv => TypeOK
  BY DEF IInv
<1> QED
  BY <1>1, <1>2, <1>3, InvInit, InvStep, PTL DEF Spec
=============================================================================
