------------------------- MODULE EngineSessionProofs -------------------------
(***************************************************************************)
(* Proofs about EngineSession, for any size of the pipes and any number of *)
(* client messages.                                                        *)
(*                                                                         *)
(* The two threads share the session without a lock, so each fact has to   *)
(* survive the other thread's steps.  The argument: the main thread puts   *)
(* connection_active down before it terminates the child (PlaceInv), so    *)
(* an output thread that still finds it up after its loop has the exit to  *)
(* itself (ExitInv); by then the child is reaped (ReapInv) and read empty  *)
(* (DrainInv), and nothing was sent before (VerdictInv).                   *)
(* Each thread has a rank that its steps lower (ThreadsAreBounded); main   *)
(* returns after the output thread, which no wait can hold (WaitInv).      *)
(***************************************************************************)
EXTENDS EngineSession, TLAPS

Before == {"receive", "compile"}
Ending == {"terminate", "kill", "wait", "killed", "join", "done"}
Killing == {"terminate", "kill", "wait", "killed"}
Report == [status : Terminal, code : Codes, mem : BOOLEAN]

\* The types the arguments need.
BaseInv ==
    /\ pc \in Places
    /\ active \in BOOLEAN /\ exited \in BOOLEAN /\ memKill \in BOOLEAN
    /\ timedOut \in BOOLEAN /\ late \in BOOLEAN
    /\ code \in Codes /\ fate \in Fates /\ found \in Fates \cup {"error"}
    /\ child \in {"none", "running", "zombie", "reaped"}
    /\ verdict \in Seq(Report)

\* The types of the other variables.
RestInv ==
    /\ chunk \in BOOLEAN /\ idle \in BOOLEAN /\ stdinOpen \in BOOLEAN /\ strayKill \in BOOLEAN
    /\ pipe \in 0 .. PipeMax /\ unread \in 0 .. StdinMax /\ asked \in 0 .. Inputs
    /\ socket \in {"open", "closing", "closed"}
    /\ inbox \in Seq(ClientMessages)

\* Where the threads stand as the child is started and the session ends.
PlaceInv ==
    /\ child = "none" <=> pc["out"] = "off"
    /\ pc["main"] \in Before \cup {"artifact"} => child = "none"
    /\ pc["main"] = "dead" <=> pc["out"] = "dead"
    /\ child = "none" => ~active /\ ~exited /\ pc["main"] \in Before \cup {"artifact", "done"}
    /\ pc["main"] \in Ending => ~active

\* Whoever noted the child's end has reaped it.
ReapInv ==
    /\ exited => child = "reaped"
    /\ "killed" \in {pc["main"], pc["out"]} => child = "reaped"
    /\ pc["out"] = "noteExit" => child = "reaped"
    /\ pc["main"] = "done" => child \in {"none", "reaped"}

\* The client has received nothing that ends the run before the output thread closes.
VerdictInv ==
    /\ pc["main"] \in Before \/ pc["out"] \notin {"off", "close", "ended"} => verdict = <<>>
    /\ pc["main"] \in Before => ~late
    /\ VerdictIsLast

\* After the loop of a live connection the child is gone; after the last read the
\* pipe is empty.
DrainInv ==
    /\ pc["out"] = "afterLoop" /\ active => exited
    /\ pc["out"] \in {"final", "verdict", "close"} => exited
    /\ pc["out"] \in {"verdict", "close"} => pipe = 0
    /\ OutputBeforeVerdict

\* What has been noted is how the child ended by itself.
Truth ==
    /\ fate \in {"exit", "oom"}
    /\ code = IF fate = "exit" THEN "own" ELSE "signal"
    /\ memKill = (fate = "oom")

\* While the connection is up and nobody timed out, only has_exited notes the end.
ExitInv ==
    /\ pc["out"] \in Killing => timedOut
    /\ pc["out"] \in {"final", "verdict"} => pc["main"] \notin {"kill", "wait", "killed"}
    /\ child \in {"none", "running"} => fate = "none"
    /\ child = "zombie" => fate # "none"
    /\ memKill => exited
    /\ active /\ ~timedOut =>
          /\ fate # "killed"
          /\ child = "reaped" /\ ~exited => pc["out"] \in {"noteExit", "dead"}
          /\ pc["out"] = "noteExit" => ~exited /\ found = fate /\ fate # "none"
          /\ exited => Truth
    /\ pc["out"] \in {"final", "verdict"} /\ ~timedOut => Truth
    /\ HonestVerdict

IInv == BaseInv /\ PlaceInv /\ ReapInv /\ VerdictInv /\ DrainInv /\ ExitInv

-----------------------------------------------------------------------------
(* Types                                                                     *)

LEMMA VerdictTypes ==
    ASSUME BaseInv, NEW s \in Terminal, SendVerdict(s)
    PROVE  verdict' \in Seq(Report) /\ late' \in BOOLEAN
<1>1. [status |-> s, code |-> code, mem |-> memKill] \in Report
  BY DEF BaseInv, Report
<1>2. QED
  BY <1>1 DEF BaseInv, SendVerdict

\* The types.
LEMMA BaseStep ==
    ASSUME BaseInv, [Next]_vars
    PROVE  BaseInv'
<1> USE DEF BaseInv, Places, Codes, Fates, Goto, At, session, process, client, seen
<1>1. CASE UNCHANGED vars
  BY <1>1 DEF vars
<1>2. CASE Receive
  <2>1. verdict' \in Seq(Report) /\ late' \in BOOLEAN
    <3>1. CASE SendUpdate \/ UNCHANGED seen
      BY <3>1 DEF SendUpdate
    <3>2. CASE SendVerdict("error")
      BY <3>2, VerdictTypes DEF Terminal
    <3>3. QED
      BY <1>2, <3>1, <3>2 DEF Receive
  <2>2. QED
    BY <1>2, <2>1 DEF Receive
<1>3. CASE CompileFails \/ StartFails
  <2>1. PICK s \in Terminal : SendVerdict(s)
    BY <1>3 DEF CompileFails, StartFails, Terminal
  <2>2. QED
    BY <1>3, <2>1, VerdictTypes DEF CompileFails, StartFails
<1>4. CASE CompileOnlyVerdict
  <2>1. SendVerdict("completed") /\ "completed" \in Terminal
    BY <1>4 DEF CompileOnlyVerdict, Terminal
  <2>2. QED
    BY <1>4, <2>1, VerdictTypes DEF CompileOnlyVerdict
<1>5. CASE CompileOnlyOutput
  BY <1>5 DEF CompileOnlyOutput, SendUpdate, CloseSocket
<1>6. CASE StartExecution
  BY <1>6 DEF StartExecution, SendUpdate
<1>7. CASE WhileActive \/ WriteInput
  BY <1>7 DEF WhileActive, WriteInput
<1>8. CASE ReadInput
  BY <1>8 DEF ReadInput
<1>9. CASE ReadFail
  <2>1. active' \in BOOLEAN
    BY <1>9 DEF ReadFail
  <2>2. pc' \in Places
    BY <1>9 DEF ReadFail
  <2>3. QED
    BY <1>9, <2>1, <2>2 DEF ReadFail
<1>10. CASE Join
  <2>1. active' \in BOOLEAN
    BY <1>10 DEF Join
  <2>2. pc' \in Places
    BY <1>10 DEF Join
  <2>3. QED
    BY <1>10, <2>1, <2>2 DEF Join
<1>11. CASE Poll
  BY <1>11 DEF Poll
<1>12. CASE CheckIdle
  BY <1>12 DEF CheckIdle
<1>13. CASE HasExited
  BY <1>13 DEF HasExited
<1>14. CASE NoteExit
  BY <1>14 DEF NoteExit
<1>15. CASE ReadChunk
  BY <1>15 DEF ReadChunk
<1>16. CASE ReadEnds
  <2>1. verdict' = verdict /\ late' \in BOOLEAN
    BY <1>16 DEF ReadEnds, SendUpdate
  <2>2. QED
    BY <1>16, <2>1 DEF ReadEnds
<1>17. CASE SendThrows
  BY <1>17 DEF SendThrows
<1>18. CASE AfterLoop
  BY <1>18 DEF AfterLoop
<1>19. CASE Verdict
  <2>1. PICK s \in Terminal : SendVerdict(s)
    BY <1>19 DEF Verdict, Terminal
  <2>2. QED
    BY <1>19, <2>1, VerdictTypes DEF Verdict
<1>20. CASE OutClose
  <2>1. active' \in BOOLEAN
    BY <1>20 DEF OutClose, CloseSocket
  <2>2. pc' \in Places
    BY <1>20 DEF OutClose, CloseSocket
  <2>3. QED
    BY <1>20, <2>1, <2>2 DEF OutClose, CloseSocket
<1>21. CASE ChildWrites \/ ChildEnds
  BY <1>21 DEF ChildWrites, ChildEnds
<1>22. CASE ChildReads \/ GoIdle \/ ClientSends \/ ClientCloses
  BY <1>22 DEF ChildReads, GoIdle, ClientSends, ClientCloses
<1>23. ASSUME NEW th \in {"main", "out"}, TerminateGuard(th) PROVE BaseInv'
  BY <1>23 DEF TerminateGuard, Return
<1>24. ASSUME NEW th \in {"main", "out"}, Kill(th) PROVE BaseInv'
  BY <1>24 DEF Kill
<1>25. ASSUME NEW th \in {"main", "out"}, Wait(th) PROVE BaseInv'
  BY <1>25 DEF Wait
<1>26. ASSUME NEW th \in {"main", "out"}, Killed(th) PROVE BaseInv'
  BY <1>26 DEF Killed, Return
<1>27. QED
  BY <1>1, <1>2, <1>3, <1>4, <1>5, <1>6, <1>7, <1>8, <1>9, <1>10, <1>11, <1>12, <1>13, <1>14, <1>15, <1>16, <1>17, <1>18, <1>19, <1>20, <1>21, <1>22, <1>23, <1>24, <1>25, <1>26
  DEF Next, MainStep, OutStep, Terminating

-----------------------------------------------------------------------------
(* The inductive invariant, part by part                                     *)

\* Where the threads stand.
LEMMA PlaceStep ==
    ASSUME BaseInv, PlaceInv, [Next]_vars
    PROVE  PlaceInv'
<1> USE DEF BaseInv, Places, PlaceInv, Before, Ending, Goto, At, session, process, client, seen
<1>1. CASE UNCHANGED vars
  BY <1>1 DEF vars
<1>2. CASE Receive
  BY <1>2 DEF Receive, SendUpdate, SendVerdict, CloseSocket
<1>3. CASE CompileFails \/ StartFails
  BY <1>3 DEF CompileFails, StartFails, SendVerdict, CloseSocket
<1>4. CASE CompileOnlyVerdict
  BY <1>4 DEF CompileOnlyVerdict, SendVerdict
<1>5. CASE CompileOnlyOutput
  BY <1>5 DEF CompileOnlyOutput, SendUpdate, CloseSocket
<1>6. CASE StartExecution
  BY <1>6 DEF StartExecution, SendUpdate
<1>7. CASE WhileActive \/ WriteInput
  BY <1>7 DEF WhileActive, WriteInput
<1>8. CASE ReadInput
  BY <1>8 DEF ReadInput
<1>9. CASE ReadFail
  BY <1>9 DEF ReadFail
<1>10. CASE Join
  BY <1>10 DEF Join
<1>11. CASE Poll
  BY <1>11 DEF Poll
<1>12. CASE CheckIdle
  BY <1>12 DEF CheckIdle
<1>13. CASE HasExited
  BY <1>13 DEF HasExited
<1>14. CASE NoteExit
  BY <1>14 DEF NoteExit
<1>15. CASE ReadChunk
  BY <1>15 DEF ReadChunk
<1>16. CASE ReadEnds
  BY <1>16 DEF ReadEnds, SendUpdate
<1>17. CASE SendThrows
  BY <1>17 DEF SendThrows
<1>18. CASE AfterLoop
  BY <1>18 DEF AfterLoop
<1>19. CASE Verdict
  BY <1>19 DEF Verdict, SendVerdict
<1>20. CASE OutClose
  BY <1>20 DEF OutClose, CloseSocket
<1>21. CASE ChildWrites \/ ChildEnds
  BY <1>21 DEF ChildWrites, ChildEnds
<1>22. CASE ChildReads \/ GoIdle \/ ClientSends \/ ClientCloses
  BY <1>22 DEF ChildReads, GoIdle, ClientSends, ClientCloses
<1>23. ASSUME NEW th \in {"main", "out"}, TerminateGuard(th) PROVE PlaceInv'
  BY <1>23 DEF TerminateGuard, Return
<1>24. ASSUME NEW th \in {"main", "out"}, Kill(th) PROVE PlaceInv'
  BY <1>24 DEF Kill
<1>25. ASSUME NEW th \in {"main", "out"}, Wait(th) PROVE PlaceInv'
  BY <1>25 DEF Wait
<1>26. ASSUME NEW th \in {"main", "out"}, Killed(th) PROVE PlaceInv'
  BY <1>26 DEF Killed, Return
<1>27. QED
  BY <1>1, <1>2, <1>3, <1>4, <1>5, <1>6, <1>7, <1>8, <1>9, <1>10, <1>11, <1>12, <1>13, <1>14, <1>15, <1>16, <1>17, <1>18, <1>19, <1>20, <1>21, <1>22, <1>23, <1>24, <1>25, <1>26
  DEF Next, MainStep, OutStep, Terminating

\* Who noted the end has reaped.
LEMMA ReapStep ==
    ASSUME BaseInv, PlaceInv, ReapInv, [Next]_vars
    PROVE  ReapInv'
<1> USE DEF BaseInv, Places, PlaceInv, ReapInv, Before, Ending, Goto, At, session, process, client, seen
<1>1. CASE UNCHANGED vars
  BY <1>1 DEF vars
<1>2. CASE Receive
  BY <1>2 DEF Receive, SendUpdate, SendVerdict, CloseSocket
<1>3. CASE CompileFails \/ StartFails
  BY <1>3 DEF CompileFails, StartFails, SendVerdict, CloseSocket
<1>4. CASE CompileOnlyVerdict
  BY <1>4 DEF CompileOnlyVerdict, SendVerdict
<1>5. CASE CompileOnlyOutput
  BY <1>5 DEF CompileOnlyOutput, SendUpdate, CloseSocket
<1>6. CASE StartExecution
  BY <1>6 DEF StartExecution, SendUpdate
<1>7. CASE WhileActive \/ WriteInput
  BY <1>7 DEF WhileActive, WriteInput
<1>8. CASE ReadInput
  BY <1>8 DEF ReadInput
<1>9. CASE ReadFail
  BY <1>9 DEF ReadFail
<1>10. CASE Join
  BY <1>10 DEF Join
<1>11. CASE Poll
  BY <1>11 DEF Poll
<1>12. CASE CheckIdle
  BY <1>12 DEF CheckIdle
<1>13. CASE HasExited
  BY <1>13 DEF HasExited
<1>14. CASE NoteExit
  BY <1>14 DEF NoteExit
<1>15. CASE ReadChunk
  BY <1>15 DEF ReadChunk
<1>16. CASE ReadEnds
  BY <1>16 DEF ReadEnds, SendUpdate
<1>17. CASE SendThrows
  BY <1>17 DEF SendThrows
<1>18. CASE AfterLoop
  BY <1>18 DEF AfterLoop
<1>19. CASE Verdict
  BY <1>19 DEF Verdict, SendVerdict
<1>20. CASE OutClose
  BY <1>20 DEF OutClose, CloseSocket
<1>21. CASE ChildWrites \/ ChildEnds
  BY <1>21 DEF ChildWrites, ChildEnds
<1>22. CASE ChildReads \/ GoIdle \/ ClientSends \/ ClientCloses
  BY <1>22 DEF ChildReads, GoIdle, ClientSends, ClientCloses
<1>23. ASSUME NEW th \in {"main", "out"}, TerminateGuard(th) PROVE ReapInv'
  BY <1>23 DEF TerminateGuard, Return
<1>24. ASSUME NEW th \in {"main", "out"}, Kill(th) PROVE ReapInv'
  BY <1>24 DEF Kill
<1>25. ASSUME NEW th \in {"main", "out"}, Wait(th) PROVE ReapInv'
  BY <1>25 DEF Wait
<1>26. ASSUME NEW th \in {"main", "out"}, Killed(th) PROVE ReapInv'
  BY <1>26 DEF Killed, Return
<1>27. QED
  BY <1>1, <1>2, <1>3, <1>4, <1>5, <1>6, <1>7, <1>8, <1>9, <1>10, <1>11, <1>12, <1>13, <1>14, <1>15, <1>16, <1>17, <1>18, <1>19, <1>20, <1>21, <1>22, <1>23, <1>24, <1>25, <1>26
  DEF Next, MainStep, OutStep, Terminating

\* The verdict comes last.
LEMMA VerdictStep ==
    ASSUME BaseInv, PlaceInv, VerdictInv, [Next]_vars
    PROVE  VerdictInv'
<1> USE DEF BaseInv, Places, PlaceInv, VerdictInv, VerdictIsLast, Before, Goto, At, session, process, client, seen
<1>1. CASE UNCHANGED vars
  BY <1>1 DEF vars
<1>2. CASE Receive
  <2>1. verdict = <<>> /\ ~late /\ child = "none"
    BY <1>2 DEF Receive
  <2>2. pc' = [pc EXCEPT !["main"] = "compile"] \/ pc' = [pc EXCEPT !["main"] = "done"]
    BY <1>2 DEF Receive
  <2>3. ~late' /\ Len(verdict') <= 1
    <3>1. CASE SendUpdate \/ UNCHANGED seen
      BY <2>1, <3>1 DEF SendUpdate
    <3>2. CASE SendVerdict("error")
      BY <2>1, <3>2 DEF SendVerdict
    <3>3. QED
      BY <1>2, <3>1, <3>2 DEF Receive
  <2>4. pc'["main"] = "compile" => verdict' = <<>>
    BY <1>2, <2>1 DEF Receive, SendUpdate
  <2>5. child' = child /\ pc["out"] = "off"
    BY <1>2, <2>1 DEF Receive
  <2>6. QED
    BY <2>1, <2>2, <2>3, <2>4, <2>5
<1>3. CASE CompileFails \/ StartFails
  BY <1>3 DEF CompileFails, StartFails, SendVerdict, CloseSocket
<1>4. CASE CompileOnlyVerdict
  BY <1>4 DEF CompileOnlyVerdict, SendVerdict
<1>5. CASE CompileOnlyOutput
  BY <1>5 DEF CompileOnlyOutput, SendUpdate, CloseSocket
<1>6. CASE StartExecution
  BY <1>6 DEF StartExecution, SendUpdate
<1>7. CASE WhileActive \/ WriteInput
  BY <1>7 DEF WhileActive, WriteInput
<1>8. CASE ReadInput
  BY <1>8 DEF ReadInput
<1>9. CASE ReadFail
  BY <1>9 DEF ReadFail
<1>10. CASE Join
  BY <1>10 DEF Join
<1>11. CASE Poll
  BY <1>11 DEF Poll
<1>12. CASE CheckIdle
  BY <1>12 DEF CheckIdle
<1>13. CASE HasExited
  BY <1>13 DEF HasExited
<1>14. CASE NoteExit
  BY <1>14 DEF NoteExit
<1>15. CASE ReadChunk
  BY <1>15 DEF ReadChunk
<1>16. CASE ReadEnds
  BY <1>16 DEF ReadEnds, SendUpdate
<1>17. CASE SendThrows
  BY <1>17 DEF SendThrows
<1>18. CASE AfterLoop
  BY <1>18 DEF AfterLoop
<1>19. CASE Verdict
  BY <1>19 DEF Verdict, SendVerdict
<1>20. CASE OutClose
  BY <1>20 DEF OutClose, CloseSocket
<1>21. CASE ChildWrites \/ ChildEnds
  BY <1>21 DEF ChildWrites, ChildEnds
<1>22. CASE ChildReads \/ GoIdle \/ ClientSends \/ ClientCloses
  BY <1>22 DEF ChildReads, GoIdle, ClientSends, ClientCloses
<1>23. ASSUME NEW th \in {"main", "out"}, TerminateGuard(th) PROVE VerdictInv'
  BY <1>23 DEF TerminateGuard, Return
<1>24. ASSUME NEW th \in {"main", "out"}, Kill(th) PROVE VerdictInv'
  BY <1>24 DEF Kill
<1>25. ASSUME NEW th \in {"main", "out"}, Wait(th) PROVE VerdictInv'
  BY <1>25 DEF Wait
<1>26. ASSUME NEW th \in {"main", "out"}, Killed(th) PROVE VerdictInv'
  BY <1>26 DEF Killed, Return
<1>27. QED
  BY <1>1, <1>2, <1>3, <1>4, <1>5, <1>6, <1>7, <1>8, <1>9, <1>10, <1>11, <1>12, <1>13, <1>14, <1>15, <1>16, <1>17, <1>18, <1>19, <1>20, <1>21, <1>22, <1>23, <1>24, <1>25, <1>26
  DEF Next, MainStep, OutStep, Terminating

\* The output comes first.
LEMMA DrainStep ==
    ASSUME BaseInv, PlaceInv, ReapInv, VerdictInv, DrainInv, [Next]_vars
    PROVE  DrainInv'
<1> USE DEF BaseInv, Places, PlaceInv, ReapInv, VerdictInv, DrainInv, OutputBeforeVerdict,
           Before, Ending, Goto, At, session, process, client, seen
<1>1. CASE UNCHANGED vars
  BY <1>1 DEF vars
<1>2. CASE Receive
  BY <1>2 DEF Receive, SendUpdate, SendVerdict, CloseSocket
<1>3. CASE CompileFails \/ StartFails
  BY <1>3 DEF CompileFails, StartFails, SendVerdict, CloseSocket
<1>4. CASE CompileOnlyVerdict
  BY <1>4 DEF CompileOnlyVerdict, SendVerdict
<1>5. CASE CompileOnlyOutput
  BY <1>5 DEF CompileOnlyOutput, SendUpdate, CloseSocket
<1>6. CASE StartExecution
  BY <1>6 DEF StartExecution, SendUpdate
<1>7. CASE WhileActive \/ WriteInput
  BY <1>7 DEF WhileActive, WriteInput
<1>8. CASE ReadInput
  BY <1>8 DEF ReadInput
<1>9. CASE ReadFail
  BY <1>9 DEF ReadFail
<1>10. CASE Join
  BY <1>10 DEF Join
<1>11. CASE Poll
  BY <1>11 DEF Poll
<1>12. CASE CheckIdle
  BY <1>12 DEF CheckIdle
<1>13. CASE HasExited
  BY <1>13 DEF HasExited
<1>14. CASE NoteExit
  BY <1>14 DEF NoteExit
<1>15. CASE ReadChunk
  BY <1>15 DEF ReadChunk
<1>16. CASE ReadEnds
  BY <1>16 DEF ReadEnds, SendUpdate
<1>17. CASE SendThrows
  BY <1>17 DEF SendThrows
<1>18. CASE AfterLoop
  BY <1>18 DEF AfterLoop
<1>19. CASE Verdict
  BY <1>19 DEF Verdict, SendVerdict
<1>20. CASE OutClose
  BY <1>20 DEF OutClose, CloseSocket
<1>21. CASE ChildWrites \/ ChildEnds
  BY <1>21 DEF ChildWrites, ChildEnds
<1>22. CASE ChildReads \/ GoIdle \/ ClientSends \/ ClientCloses
  BY <1>22 DEF ChildReads, GoIdle, ClientSends, ClientCloses
<1>23. ASSUME NEW th \in {"main", "out"}, TerminateGuard(th) PROVE DrainInv'
  BY <1>23 DEF TerminateGuard, Return
<1>24. ASSUME NEW th \in {"main", "out"}, Kill(th) PROVE DrainInv'
  BY <1>24 DEF Kill
<1>25. ASSUME NEW th \in {"main", "out"}, Wait(th) PROVE DrainInv'
  BY <1>25 DEF Wait
<1>26. ASSUME NEW th \in {"main", "out"}, Killed(th) PROVE DrainInv'
  BY <1>26 DEF Killed, Return
<1>27. QED
  BY <1>1, <1>2, <1>3, <1>4, <1>5, <1>6, <1>7, <1>8, <1>9, <1>10, <1>11, <1>12, <1>13, <1>14, <1>15, <1>16, <1>17, <1>18, <1>19, <1>20, <1>21, <1>22, <1>23, <1>24, <1>25, <1>26
  DEF Next, MainStep, OutStep, Terminating

\* What is noted is true.
LEMMA ExitStep ==
    ASSUME BaseInv, PlaceInv, ReapInv, VerdictInv, DrainInv, ExitInv, [Next]_vars
    PROVE  ExitInv'
<1> USE DEF BaseInv, Places, PlaceInv, ReapInv, VerdictInv, DrainInv, ExitInv, HonestVerdict, Truth,
           Before, Ending, Killing, Goto, At, session, process, client, seen
<1>1. CASE UNCHANGED vars
  BY <1>1 DEF vars
<1>2. CASE Receive
  BY <1>2 DEF Receive, SendUpdate, SendVerdict, CloseSocket
<1>3. CASE CompileFails \/ StartFails
  BY <1>3 DEF CompileFails, StartFails, SendVerdict, CloseSocket
<1>4. CASE CompileOnlyVerdict
  BY <1>4 DEF CompileOnlyVerdict, SendVerdict
<1>5. CASE CompileOnlyOutput
  BY <1>5 DEF CompileOnlyOutput, SendUpdate, CloseSocket
<1>6. CASE StartExecution
  <2>1. verdict' = <<>> /\ ~exited' /\ ~memKill' /\ child' = "running"
    BY <1>6 DEF StartExecution, SendUpdate
  <2>2. fate = "none"
    BY <1>6 DEF StartExecution
  <2>3. QED
    BY <1>6, <2>1, <2>2 DEF StartExecution
<1>7. CASE WhileActive \/ WriteInput
  BY <1>7 DEF WhileActive, WriteInput
<1>8. CASE ReadInput
  BY <1>8 DEF ReadInput
<1>9. CASE ReadFail
  BY <1>9 DEF ReadFail
<1>10. CASE Join
  BY <1>10 DEF Join
<1>11. CASE Poll
  BY <1>11 DEF Poll
<1>12. CASE CheckIdle
  BY <1>12 DEF CheckIdle
<1>13. CASE HasExited
  BY <1>13 DEF HasExited
<1>14. CASE NoteExit
  <2>1. child = "reaped" /\ UNCHANGED <<active, timedOut, child, fate, verdict>>
    BY <1>14 DEF NoteExit
  <2>2. pc'["out"] = "afterLoop" /\ pc'["main"] = pc["main"] /\ exited'
    BY <1>14 DEF NoteExit
  <2>3. active /\ ~timedOut => Truth'
    <3>1. SUFFICES ASSUME active, ~timedOut PROVE Truth'
      OBVIOUS
    <3>2. ~memKill /\ found = fate /\ fate \in {"exit", "oom"}
      <4>1. ~exited /\ found = fate /\ fate # "none" /\ fate # "killed"
        BY <3>1, <1>14 DEF NoteExit
      <4>2. QED
        BY <4>1 DEF Fates
    <3>3. memKill' = (found \in {"oom", "killed"})
      BY <3>2, <1>14 DEF NoteExit
    <3>4. code' = IF fate = "exit" THEN "own" ELSE "signal"
      BY <3>2, <1>14 DEF NoteExit
    <3>5. QED
      BY <2>1, <3>2, <3>3, <3>4
  <2>4. verdict = <<>>
    BY <1>14 DEF NoteExit
  <2>5. QED
    BY <2>1, <2>2, <2>3, <2>4
<1>15. CASE ReadChunk
  BY <1>15 DEF ReadChunk
<1>16. CASE ReadEnds
  BY <1>16 DEF ReadEnds, SendUpdate
<1>17. CASE SendThrows
  BY <1>17 DEF SendThrows
<1>18. CASE AfterLoop
  BY <1>18 DEF AfterLoop
<1>19. CASE Verdict
  BY <1>19 DEF Verdict, SendVerdict
<1>20. CASE OutClose
  BY <1>20 DEF OutClose, CloseSocket
<1>21. CASE ChildWrites \/ ChildEnds
  BY <1>21 DEF ChildWrites, ChildEnds
<1>22. CASE ChildReads \/ GoIdle \/ ClientSends \/ ClientCloses
  BY <1>22 DEF ChildReads, GoIdle, ClientSends, ClientCloses
<1>23. ASSUME NEW th \in {"main", "out"}, TerminateGuard(th) PROVE ExitInv'
  BY <1>23 DEF TerminateGuard, Return
<1>24. ASSUME NEW th \in {"main", "out"}, Kill(th) PROVE ExitInv'
  BY <1>24 DEF Kill
<1>25. ASSUME NEW th \in {"main", "out"}, Wait(th) PROVE ExitInv'
  BY <1>25 DEF Wait
<1>26. ASSUME NEW th \in {"main", "out"}, Killed(th) PROVE ExitInv'
  BY <1>26 DEF Killed, Return
<1>27. QED
  BY <1>1, <1>2, <1>3, <1>4, <1>5, <1>6, <1>7, <1>8, <1>9, <1>10, <1>11, <1>12, <1>13, <1>14, <1>15, <1>16, <1>17, <1>18, <1>19, <1>20, <1>21, <1>22, <1>23, <1>24, <1>25, <1>26
  DEF Next, MainStep, OutStep, Terminating

\* The types of the other variables.
LEMMA RestStep ==
    ASSUME RestInv, [Next]_vars
    PROVE  RestInv'
<1> USE EngineAssumption DEF RestInv, Goto, At, session, process, client, seen
<1>1. CASE UNCHANGED vars
  BY <1>1 DEF vars
<1>2. CASE Receive
  BY <1>2 DEF Receive, SendUpdate, SendVerdict, CloseSocket
<1>3. CASE CompileFails \/ StartFails
  BY <1>3 DEF CompileFails, StartFails, SendVerdict, CloseSocket
<1>4. CASE CompileOnlyVerdict
  BY <1>4 DEF CompileOnlyVerdict, SendVerdict
<1>5. CASE CompileOnlyOutput
  BY <1>5 DEF CompileOnlyOutput, SendUpdate, CloseSocket
<1>6. CASE StartExecution
  BY <1>6 DEF StartExecution, SendUpdate
<1>7. CASE WhileActive \/ WriteInput
  <2>1. unread' \in 0 .. StdinMax
    BY <1>7 DEF WhileActive, WriteInput
  <2>2. stdinOpen' \in BOOLEAN
    BY <1>7 DEF WhileActive, WriteInput
  <2>3. QED
    BY <1>7, <2>1, <2>2 DEF WhileActive, WriteInput
<1>8. CASE ReadInput
  <2>1. inbox' \in Seq(ClientMessages)
    BY <1>8 DEF ReadInput
  <2>2. idle' \in BOOLEAN
    <3>1. CASE idle' = FALSE
      BY <3>1
    <3>2. CASE idle' = idle
      BY <3>2
    <3>3. QED
      BY <1>8, <3>1, <3>2 DEF ReadInput
  <2>3. stdinOpen' \in BOOLEAN
    BY <1>8 DEF ReadInput
  <2>4. QED
    BY <1>8, <2>1, <2>2, <2>3 DEF ReadInput
<1>9. CASE ReadFail
  BY <1>9 DEF ReadFail
<1>10. CASE Join
  BY <1>10 DEF Join
<1>11. CASE Poll
  BY <1>11 DEF Poll
<1>12. CASE CheckIdle
  BY <1>12 DEF CheckIdle
<1>13. CASE HasExited
  BY <1>13 DEF HasExited
<1>14. CASE NoteExit
  BY <1>14 DEF NoteExit
<1>15. CASE ReadChunk
  <2>1. pipe - 1 \in 0 .. PipeMax
    BY <1>15 DEF ReadChunk
  <2>2. QED
    BY <1>15, <2>1 DEF ReadChunk
<1>16. CASE ReadEnds
  BY <1>16 DEF ReadEnds, SendUpdate
<1>17. CASE SendThrows
  BY <1>17 DEF SendThrows
<1>18. CASE AfterLoop
  BY <1>18 DEF AfterLoop
<1>19. CASE Verdict
  BY <1>19 DEF Verdict, SendVerdict
<1>20. CASE OutClose
  BY <1>20 DEF OutClose, CloseSocket
<1>21. CASE ChildWrites \/ ChildEnds
  BY <1>21 DEF ChildWrites, ChildEnds
<1>22. CASE ChildReads \/ GoIdle \/ ClientSends \/ ClientCloses
  <2>1. unread' \in 0 .. StdinMax /\ asked' \in 0 .. Inputs
    BY <1>22 DEF ChildReads, GoIdle, ClientSends, ClientCloses
  <2>2. inbox' \in Seq(ClientMessages)
    BY <1>22 DEF ChildReads, GoIdle, ClientSends, ClientCloses
  <2>3. QED
    BY <1>22, <2>1, <2>2 DEF ChildReads, GoIdle, ClientSends, ClientCloses
<1>23. ASSUME NEW th \in {"main", "out"}, TerminateGuard(th) PROVE RestInv'
  BY <1>23 DEF TerminateGuard, Return
<1>24. ASSUME NEW th \in {"main", "out"}, Kill(th) PROVE RestInv'
  BY <1>24 DEF Kill
<1>25. ASSUME NEW th \in {"main", "out"}, Wait(th) PROVE RestInv'
  BY <1>25 DEF Wait
<1>26. ASSUME NEW th \in {"main", "out"}, Killed(th) PROVE RestInv'
  BY <1>26 DEF Killed, Return
<1>27. QED
  BY <1>1, <1>2, <1>3, <1>4, <1>5, <1>6, <1>7, <1>8, <1>9, <1>10, <1>11, <1>12, <1>13, <1>14, <1>15, <1>16, <1>17, <1>18, <1>19, <1>20, <1>21, <1>22, <1>23, <1>24, <1>25, <1>26
  DEF Next, MainStep, OutStep, Terminating

-----------------------------------------------------------------------------
(* The theorems                                                              *)

LEMMA InitHolds == Init => IInv
<1>1. ASSUME Init PROVE BaseInv /\ PlaceInv /\ ReapInv
  <2>1. pc \in Places /\ verdict \in Seq(Report)
    BY <1>1 DEF Init, Places
  <2>2. QED
    BY <1>1, <2>1 DEF Init, BaseInv, Codes, Fates, PlaceInv, ReapInv, Before, Ending
<1>2. ASSUME Init PROVE VerdictInv /\ DrainInv /\ ExitInv
  BY <1>2 DEF Init, VerdictInv, VerdictIsLast, DrainInv, OutputBeforeVerdict, ExitInv,
              HonestVerdict, Before, Killing
<1>3. QED
  BY <1>1, <1>2 DEF IInv

LEMMA Inductive == Spec => []IInv
<1>1. IInv /\ [Next]_vars => IInv'
  BY BaseStep, PlaceStep, ReapStep, VerdictStep, DrainStep, ExitStep DEF IInv
<1>2. QED
  BY <1>1, InitHolds, PTL DEF Spec

\* The client of a run with a process receives at most one terminal status and nothing
\* after it (main.cpp's output_thread sends it and closes).
THEOREM OneVerdict == Spec => []VerdictIsLast
<1>1. IInv => VerdictIsLast
  BY DEF IInv, VerdictInv
<1>2. QED
  BY <1>1, Inductive, PTL

\* When the verdict reaches the client, the child is reaped and its pipe read empty
\* (the final reads behind output_thread's loop).
THEOREM OutputIsComplete == Spec => []OutputBeforeVerdict
<1>1. IInv => OutputBeforeVerdict
  BY DEF IInv, DrainInv
<1>2. QED
  BY <1>1, Inductive, PTL

\* "completed" tells the child's own exit or the kernel's kill, never the engine's
\* (has_exited and terminate race for the same child).
THEOREM VerdictIsHonest == Spec => []HonestVerdict
<1>1. IInv => HonestVerdict
  BY DEF IInv, ExitInv
<1>2. QED
  BY <1>1, Inductive, PTL

\* When the handler returns there is no zombie, whichever thread ended the run.
THEOREM NoZombie == Spec => []ReapedAtEnd
<1>1. IInv => ReapedAtEnd
  BY DEF IInv, ReapInv, ReapedAtEnd
<1>2. QED
  BY <1>1, Inductive, PTL

LEMMA RestInvariant == Spec => []RestInv
<1>1. RestInv /\ [Next]_vars => RestInv'
  BY RestStep
<1>2. Init => RestInv
  <2>1. ASSUME Init PROVE inbox \in Seq(ClientMessages)
    BY <2>1 DEF Init
  <2>2. 0 \in 0 .. PipeMax /\ 0 \in 0 .. StdinMax /\ 0 \in 0 .. Inputs
    BY EngineAssumption
  <2>3. QED
    BY <2>1, <2>2 DEF Init, RestInv
<1>3. QED
  BY <1>1, <1>2, PTL DEF Spec

\* Every variable keeps its type, for any size of the pipes.
THEOREM Typed == Spec => []TypeOK
<1>1. IInv /\ RestInv => TypeOK
  BY DEF IInv, BaseInv, RestInv, TypeOK, Report
<1>2. QED
  BY <1>1, Inductive, RestInvariant, PTL

-----------------------------------------------------------------------------
(* How long both threads can be, and what they wait for                      *)

\* The steps main has left at each place, without its input loop, and the output thread.
\* terminate() comes before and after join: the second time exited_ is set.
MainStage(place, ex) ==
    IF place = "join" THEN (IF ex THEN 1 ELSE 7)
    ELSE [receive |-> 20, compile |-> 19, artifact |-> 18, write |-> 13, writeRaw |-> 13,
          while |-> 12, read |-> 11, terminate |-> 6, kill |-> 5, wait |-> 4, killed |-> 3,
          done |-> 0, dead |-> 0][place]
OutStage == [readOut |-> 16, loop |-> 15, checkIdle |-> 14, terminate |-> 13, kill |-> 12,
             wait |-> 11, killed |-> 10, hasExited |-> 9, noteExit |-> 8, afterLoop |-> 7,
             final |-> 6, verdict |-> 5, close |-> 4, ended |-> 0, off |-> 0, dead |-> 0]

\* Each message the client has not been read costs main three steps, and the output
\* thread reads each chunk once, after the child has stopped to write more.
Messages == Len(inbox) + (Inputs - asked)
MainRank == MainStage(pc["main"], exited) + 3 * Messages
OutRank == OutStage[pc["out"]] + pipe
Ended == child \in {"zombie", "reaped"}

\* A waitpid that blocks has a child that is over; main returns last.
WaitInv ==
    /\ "wait" \in {pc["main"], pc["out"]} => Ended
    /\ pc["main"] = "done" => pc["out"] \in {"off", "ended"}
    /\ Len(inbox) <= asked

LEMMA RankTypes ==
    ASSUME BaseInv, RestInv, WaitInv
    PROVE  /\ Messages \in 0 .. Inputs
           /\ MainRank \in 0 .. 20 + 3 * Inputs
           /\ OutRank \in 0 .. 16 + PipeMax
<1>1. Inputs \in Nat /\ PipeMax \in Nat /\ Len(inbox) \in Nat
  BY EngineAssumption DEF RestInv
<1>2. Messages \in 0 .. Inputs
  BY <1>1 DEF RestInv, WaitInv, Messages
<1>3. MainStage(pc["main"], exited) \in 0 .. 20
  BY DEF BaseInv, Places, MainStage
<1>4. MainRank \in 0 .. 20 + 3 * Inputs
  <2>1. \A a \in 0 .. 20, b \in 0 .. Inputs : a + 3 * b \in 0 .. 20 + 3 * Inputs
    BY <1>1
  <2>2. QED
    BY <1>2, <1>3, <2>1 DEF MainRank
<1>5. OutStage[pc["out"]] \in 0 .. 16
  BY DEF BaseInv, Places, OutStage
<1>6. pipe \in 0 .. PipeMax
  BY DEF RestInv
<1>7. OutRank \in 0 .. 16 + PipeMax
  <2>1. \A a \in 0 .. 16, b \in 0 .. PipeMax : a + b \in 0 .. 16 + PipeMax
    BY <1>1
  <2>2. QED
    BY <1>5, <1>6, <2>1 DEF OutRank
<1>8. QED
  BY <1>2, <1>4, <1>7

\* The blocking calls have what they wait for, through every action.
LEMMA WaitStep ==
    ASSUME BaseInv, PlaceInv, RestInv, WaitInv, [Next]_vars
    PROVE  WaitInv'
<1> USE DEF BaseInv, Places, PlaceInv, RestInv, WaitInv, Ended, Before, Ending, Goto, At,
           session, process, client
<1>0. Len(inbox) \in Nat /\ Inputs \in Nat /\ asked \in Nat
  BY EngineAssumption
<1>1. ASSUME NEW th \in {"main", "out"}, Terminating(th)
      PROVE  WaitInv'
  <2>1. CASE TerminateGuard(th)
    BY <1>1, <2>1 DEF TerminateGuard, Return
  <2>2. CASE Kill(th)
    BY <1>1, <2>2 DEF Kill
  <2>3. CASE Wait(th)
    BY <1>1, <2>3 DEF Wait
  <2>4. CASE Killed(th)
    BY <1>1, <2>4 DEF Killed, Return
  <2>5. QED
    BY <1>1, <2>1, <2>2, <2>3, <2>4 DEF Terminating
<1>2. CASE Receive \/ CompileFails \/ CompileOnlyVerdict \/ CompileOnlyOutput \/ StartFails
  BY <1>2 DEF Receive, CompileFails, CompileOnlyVerdict, CompileOnlyOutput, StartFails
<1>3. CASE StartExecution \/ WhileActive
  BY <1>3 DEF StartExecution, WhileActive
<1>4. CASE ReadInput
  <2>1. Len(inbox') = Len(inbox) - 1 /\ asked' = asked
    BY <1>4 DEF ReadInput
  <2>2. pc["main"] = "read" /\ pc'["main"] \in {"write", "writeRaw", "while"}
        /\ pc'["out"] = pc["out"] /\ child' = child
    BY <1>4 DEF ReadInput
  <2>3. QED
    BY <1>0, <2>1, <2>2
<1>5. CASE WriteInput \/ ReadFail \/ Join
  BY <1>5 DEF WriteInput, ReadFail, Join
<1>6. CASE Poll \/ CheckIdle \/ HasExited \/ NoteExit
  BY <1>6 DEF Poll, CheckIdle, HasExited, NoteExit
<1>7. CASE ReadChunk \/ ReadEnds \/ SendThrows \/ AfterLoop \/ Verdict \/ OutClose
  BY <1>7 DEF ReadChunk, ReadEnds, SendThrows, AfterLoop, Verdict, OutClose
<1>8. CASE ChildWrites \/ ChildReads \/ ChildEnds \/ GoIdle \/ ClientCloses \/ UNCHANGED vars
  BY <1>8 DEF ChildWrites, ChildReads, ChildEnds, GoIdle, ClientCloses, vars
<1>9. CASE ClientSends
  <2>1. Len(inbox') = Len(inbox) + 1 /\ asked' = asked + 1 /\ UNCHANGED <<pc, child>>
    BY <1>9 DEF ClientSends
  <2>2. QED
    BY <1>0, <2>1
<1>10. QED
  BY <1>1, <1>2, <1>3, <1>4, <1>5, <1>6, <1>7, <1>8, <1>9 DEF Next, MainStep, OutStep

\* Reading a message takes main three steps forward, so that it may go back two.
LEMMA MainGoesDown ==
    ASSUME BaseInv, PlaceInv, RestInv, WaitInv, MainStep
    PROVE  MainRank' < MainRank
<1> USE DEF BaseInv, Places, RestInv, Goto, At, session, process, client
<1>0. Messages \in Nat /\ asked \in Nat /\ Inputs \in Nat /\ Len(inbox) \in Nat
  BY RankTypes, EngineAssumption
<1>1. ASSUME NEW k \in {0, 1}, Messages' = Messages - k,
             MainStage(pc["main"], exited) \in Nat, MainStage(pc'["main"], exited') \in Nat,
             MainStage(pc'["main"], exited') < MainStage(pc["main"], exited) + 3 * k
      PROVE  MainRank' < MainRank
  BY <1>0, <1>1 DEF MainRank
<1>2. ASSUME UNCHANGED <<inbox, asked>> PROVE Messages' = Messages - 0
  BY <1>0, <1>2 DEF Messages
<1>3. CASE Terminating("main")
  <2>1. UNCHANGED <<inbox, asked>>
    BY <1>3 DEF Terminating, TerminateGuard, Kill, Wait, Killed
  <2>2. \/ pc["main"] = "terminate" /\ exited /\ pc'["main"] = "join" /\ exited' = exited
        \/ pc["main"] = "terminate" /\ ~exited /\ pc'["main"] = "kill" /\ exited' = exited
        \/ pc["main"] = "kill" /\ pc'["main"] = "wait"
        \/ pc["main"] = "wait" /\ pc'["main"] = "killed"
        \/ pc["main"] = "killed" /\ pc'["main"] = "join" /\ exited'
    BY <1>3 DEF Terminating, TerminateGuard, Kill, Wait, Killed, Return
  <2>3. QED
    BY <1>1, <1>2, <2>1, <2>2 DEF MainStage
<1>4. CASE Receive \/ CompileFails \/ CompileOnlyVerdict \/ CompileOnlyOutput \/ StartFails
  <2>1. UNCHANGED <<inbox, asked>>
    BY <1>4 DEF Receive, CompileFails, CompileOnlyVerdict, CompileOnlyOutput, StartFails
  <2>2. \/ pc["main"] = "receive" /\ pc'["main"] \in {"compile", "done"}
        \/ pc["main"] = "compile" /\ pc'["main"] \in {"artifact", "done"}
        \/ pc["main"] = "artifact" /\ pc'["main"] = "done"
    BY <1>4 DEF Receive, CompileFails, CompileOnlyVerdict, CompileOnlyOutput, StartFails
  <2>3. QED
    BY <1>1, <1>2, <2>1, <2>2 DEF MainStage
<1>5. CASE StartExecution \/ WhileActive \/ WriteInput \/ ReadFail
  <2>1. UNCHANGED <<inbox, asked>>
    BY <1>5 DEF StartExecution, WhileActive, WriteInput, ReadFail
  <2>2. \/ pc["main"] = "compile" /\ pc'["main"] = "while"
        \/ pc["main"] = "while" /\ pc'["main"] \in {"read", "join"}
        \/ pc["main"] \in {"write", "writeRaw"} /\ pc'["main"] = "while"
        \/ pc["main"] = "read" /\ pc'["main"] = "terminate"
    BY <1>5 DEF StartExecution, WhileActive, WriteInput, ReadFail
  <2>3. QED
    BY <1>1, <1>2, <2>1, <2>2 DEF MainStage
<1>6. CASE ReadInput
  <2>1. Messages' = Messages - 1
    BY <1>0, <1>6 DEF ReadInput, Messages
  <2>2. pc["main"] = "read" /\ pc'["main"] \in {"write", "writeRaw", "while"}
    BY <1>6 DEF ReadInput
  <2>3. QED
    BY <1>1, <2>1, <2>2 DEF MainStage
<1>7. CASE Join
  <2>1. UNCHANGED <<inbox, asked>>
    BY <1>7 DEF Join
  <2>2. /\ pc["main"] = "join" /\ exited' = exited
        /\ pc'["main"] = IF exited THEN "done" ELSE "terminate"
    BY <1>7 DEF Join
  <2>3. QED
    BY <1>1, <1>2, <2>1, <2>2 DEF MainStage
<1>8. QED
  BY <1>3, <1>4, <1>5, <1>6, <1>7 DEF MainStep

\* Once the child is over it writes nothing more, and a poll leads out of the loop.
LEMMA OutGoesDown ==
    ASSUME BaseInv, RestInv, Ended, OutStep
    PROVE  OutRank' < OutRank
<1> USE DEF BaseInv, Places, Goto, At, session, process, client, Ended
<1>0. pipe \in Nat
  BY EngineAssumption DEF RestInv
<1>1. ASSUME pipe' = pipe, OutStage[pc["out"]] \in Nat, OutStage[pc'["out"]] \in Nat,
             OutStage[pc'["out"]] < OutStage[pc["out"]]
      PROVE  OutRank' < OutRank
  BY <1>0, <1>1 DEF OutRank
<1>2. CASE Terminating("out")
  <2>1. pipe' = pipe
    BY <1>2 DEF Terminating, TerminateGuard, Kill, Wait, Killed
  <2>2. \/ pc["out"] = "terminate" /\ pc'["out"] \in {"kill", "hasExited"}
        \/ pc["out"] = "kill" /\ pc'["out"] = "wait"
        \/ pc["out"] = "wait" /\ pc'["out"] = "killed"
        \/ pc["out"] = "killed" /\ pc'["out"] = "hasExited"
    BY <1>2 DEF Terminating, TerminateGuard, Kill, Wait, Killed, Return
  <2>3. QED
    BY <1>1, <2>1, <2>2 DEF OutStage
<1>3. CASE Poll \/ CheckIdle \/ HasExited \/ NoteExit
  <2>1. pipe' = pipe
    BY <1>3 DEF Poll, CheckIdle, HasExited, NoteExit
  <2>2. \/ pc["out"] = "loop" /\ pc'["out"] \in {"checkIdle", "afterLoop"}
        \/ pc["out"] = "checkIdle" /\ pc'["out"] \in {"terminate", "hasExited"}
        \/ pc["out"] = "hasExited" /\ pc'["out"] \in {"noteExit", "afterLoop"}
        \/ pc["out"] = "noteExit" /\ pc'["out"] = "afterLoop"
    BY <1>3 DEF Poll, CheckIdle, HasExited, NoteExit
  <2>3. QED
    BY <1>1, <2>1, <2>2 DEF OutStage
<1>4. CASE ReadChunk
  <2>1. pc["out"] \in {"readOut", "final"} /\ pc' = pc /\ pipe' = pipe - 1 /\ pipe > 0
    BY <1>4 DEF ReadChunk
  <2>2. QED
    BY <1>0, <2>1 DEF OutRank, OutStage
<1>5. CASE ReadEnds \/ SendThrows
  <2>1. pipe' = pipe
    BY <1>5 DEF ReadEnds, SendThrows
  <2>2. \/ pc["out"] = "readOut" /\ pc'["out"] \in {"loop", "dead"}
        \/ pc["out"] = "final" /\ pc'["out"] \in {"verdict", "dead"}
    BY <1>5 DEF ReadEnds, SendThrows
  <2>3. QED
    BY <1>1, <2>1, <2>2 DEF OutStage
<1>6. CASE AfterLoop \/ Verdict \/ OutClose
  <2>1. pipe' = pipe
    BY <1>6 DEF AfterLoop, Verdict, OutClose
  <2>2. \/ pc["out"] = "afterLoop" /\ pc'["out"] \in {"final", "ended"}
        \/ pc["out"] = "verdict" /\ pc'["out"] = "close"
        \/ pc["out"] = "close" /\ pc'["out"] = "ended"
    BY <1>6 DEF AfterLoop, Verdict, OutClose
  <2>3. QED
    BY <1>1, <2>1, <2>2 DEF OutStage
<1>7. QED
  BY <1>2, <1>3, <1>4, <1>5, <1>6 DEF OutStep

\* Neither thread, nor the child, nor the client takes the other thread back.
LEMMA OthersDoNotRaise ==
    ASSUME BaseInv, PlaceInv, RestInv, WaitInv, [Next]_vars
    PROVE  /\ ~MainStep => MainRank' <= MainRank
           /\ Ended => Ended' /\ (~OutStep => OutRank' <= OutRank)
<1> USE DEF BaseInv, Places, PlaceInv, RestInv, Goto, At, session, process, client
<1>0. /\ Messages \in Nat /\ MainRank \in Nat /\ OutRank \in Nat
      /\ asked \in Nat /\ Inputs \in Nat /\ Len(inbox) \in Nat
  BY RankTypes, EngineAssumption
<1>1. CASE OutStep
  <2>1. UNCHANGED <<inbox, asked>> /\ (pc'["main"] = pc["main"] \/ pc'["main"] = "dead")
    BY <1>1 DEF OutStep, Poll, CheckIdle, HasExited, NoteExit, ReadChunk, ReadEnds, SendThrows,
       AfterLoop, Verdict, OutClose, Terminating, TerminateGuard, Kill, Wait, Killed
  <2>2. exited => exited'
    BY <1>1 DEF OutStep, Poll, CheckIdle, HasExited, NoteExit, ReadChunk, ReadEnds, SendThrows,
       AfterLoop, Verdict, OutClose, Terminating, TerminateGuard, Kill, Wait, Killed
  <2>3. MainStage(pc'["main"], exited') <= MainStage(pc["main"], exited)
        /\ MainStage(pc'["main"], exited') \in Nat /\ MainStage(pc["main"], exited) \in Nat
    BY <2>1, <2>2 DEF MainStage
  <2>4. MainRank' <= MainRank
    BY <1>0, <2>1, <2>3 DEF MainRank, Messages
  <2>5. Ended => Ended'
    BY <1>1 DEF OutStep, Poll, CheckIdle, HasExited, NoteExit, ReadChunk, ReadEnds, SendThrows,
       AfterLoop, Verdict, OutClose, Terminating, TerminateGuard, Kill, Wait, Killed, Ended
  <2>6. QED
    BY <1>1, <2>4, <2>5
<1>2. CASE MainStep
  <2>1. Ended => Ended' /\ pc'["out"] = pc["out"] /\ pipe' = pipe
    BY <1>2 DEF MainStep, Receive, CompileFails, CompileOnlyVerdict, CompileOnlyOutput, StartFails,
       StartExecution, WhileActive, ReadInput, WriteInput, ReadFail, Join, Terminating,
       TerminateGuard, Kill, Wait, Killed, Ended, Before
  <2>2. QED
    BY <1>0, <1>2, <2>1 DEF OutRank
<1>3. CASE ChildWrites \/ ChildReads \/ ChildEnds \/ GoIdle \/ ClientCloses \/ UNCHANGED vars
  <2>1. UNCHANGED <<pc, exited, inbox, asked>>
    BY <1>3 DEF ChildWrites, ChildReads, ChildEnds, GoIdle, ClientCloses, vars
  <2>2. Ended => Ended' /\ pipe' = pipe
    BY <1>3 DEF ChildWrites, ChildReads, ChildEnds, GoIdle, ClientCloses, vars, Ended
  <2>3. QED
    BY <1>0, <2>1, <2>2 DEF MainRank, Messages, OutRank
<1>4. CASE ClientSends
  <2>1. Len(inbox') = Len(inbox) + 1 /\ asked' = asked + 1 /\ UNCHANGED <<pc, exited, child, pipe>>
    BY <1>4 DEF ClientSends
  <2>2. Messages' = Messages
    BY <1>0, <2>1 DEF Messages
  <2>3. QED
    BY <1>0, <2>1, <2>2 DEF MainRank, OutRank, Ended
<1>5. QED
  BY <1>1, <1>2, <1>3, <1>4 DEF Next

LEMMA WaitInvariant == Spec => [](BaseInv /\ PlaceInv /\ RestInv /\ WaitInv)
<1>1. Init => WaitInv
  BY DEF Init, WaitInv
<1>2. BaseInv /\ PlaceInv /\ RestInv /\ WaitInv /\ [Next]_vars => WaitInv'
  BY WaitStep
<1>3. IInv => BaseInv /\ PlaceInv
  BY DEF IInv
<1>4. QED
  BY <1>1, <1>2, <1>3, Inductive, RestInvariant, PTL DEF Spec

\* For any number of messages and any pipe: main makes at most 20 + 3 * Inputs steps, and
\* once the child is over the output thread makes at most 16 + PipeMax.  Neither the other
\* thread, nor the client, nor the clock can take a thread back, so no order of input,
\* output and timeouts keeps the handler going round.
THEOREM ThreadsAreBounded ==
    Spec => /\ [](MainRank \in 0 .. 20 + 3 * Inputs /\ OutRank \in 0 .. 16 + PipeMax)
            /\ [][/\ IF MainStep THEN MainRank' < MainRank ELSE MainRank' <= MainRank
                  /\ Ended => /\ Ended'
                              /\ IF OutStep THEN OutRank' < OutRank
                                            ELSE OutRank' <= OutRank]_vars
<1> DEFINE Bounds == MainRank \in 0 .. 20 + 3 * Inputs /\ OutRank \in 0 .. 16 + PipeMax
           Nearer == /\ IF MainStep THEN MainRank' < MainRank ELSE MainRank' <= MainRank
                     /\ Ended => /\ Ended'
                                 /\ IF OutStep THEN OutRank' < OutRank
                                               ELSE OutRank' <= OutRank
           Facts == BaseInv /\ PlaceInv /\ RestInv /\ WaitInv
<1>1. Facts => Bounds
  BY RankTypes
<1>2. Facts /\ [Next]_vars => [Nearer]_vars
  BY MainGoesDown, OutGoesDown, OthersDoNotRaise
<1> HIDE DEF Bounds, Nearer, Facts
<1>3. Spec => []Facts
  BY WaitInvariant DEF Facts
<1>4. Spec => []Bounds /\ [][Nearer]_vars
  BY <1>1, <1>2, <1>3, PTL DEF Spec
<1>5. QED
  BY <1>4 DEF Bounds, Nearer

\* A thread in the blocking waitpid has a child that is over, and main, whose locals the
\* output thread uses, returns after that thread: it never leaves one behind.
THEOREM WaitsAreOver ==
    Spec => [](/\ "wait" \in {pc["main"], pc["out"]} => Ended
               /\ pc["main"] = "done" => pc["out"] \in {"off", "ended"})
<1>1. WaitInv => /\ "wait" \in {pc["main"], pc["out"]} => Ended
                 /\ pc["main"] = "done" => pc["out"] \in {"off", "ended"}
  BY DEF WaitInv
<1>2. QED
  BY <1>1, WaitInvariant, PTL
=============================================================================
