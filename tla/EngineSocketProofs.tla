-------------------------- MODULE EngineSocketProofs --------------------------
(***************************************************************************)
(* Proofs about EngineSocket, for any number of client frames and pings.   *)
(*                                                                         *)
(* The writers' argument is the mutex: the thread inside a frame holds it  *)
(* (LockInv), so a head meets half a frame only where a write has failed   *)
(* (WholeInv), and the right to write the Close passes from closed_        *)
(* through one thread (CloseInv).  The reader's argument is arithmetic:    *)
(* until the output thread closes, what is given to main, left in the      *)
(* buffer and on the wire carries consecutive numbers (DataInv).  The end  *)
(* of a session is bounded by a rank for each thread (MainLeft, OutLeft,   *)
(* BeatLeft) and by the order in which they return (LifeInv).              *)
(***************************************************************************)
EXTENDS EngineSocket, TLAPS

MainPlaces == {"loop", "reading", "feed", "rest", "echo", "failed", "join", "destroy", "notify",
               "joinBeat", "ended"}
OutPlaces == {"run", "verdict", "rest", "close", "farewell", "drain", "ended"}
BeatPlaces == {"test", "toWait", "waiting", "wake", "rest", "refused", "ended"}
ReaderPlaces == {"off", "check", "copied", "poll", "reset", "recv", "settle"}
Past == {"join", "destroy", "notify", "joinBeat", "ended"}

-----------------------------------------------------------------------------
(* The writers *)

\* Types of what the writers use.
WriterInv ==
    /\ pc \in [main : MainPlaces, out : OutPlaces, beat : BeatPlaces]
    /\ active \in BOOLEAN /\ closed \in BOOLEAN /\ stalled \in BOOLEAN
    /\ halfway \in BOOLEAN /\ torn \in BOOLEAN
    /\ client \in {"open", "closing", "gone"}
    /\ wlock \in Writers \cup {Nobody}
    /\ seen \in Seq(DownKinds) /\ pings \in Nat

\* The thread inside a frame holds the mutex, and writes a frame of its own.
LockInv ==
    /\ pc["main"] = "rest" <=> wlock = "main"
    /\ pc["out"] = "rest" <=> wlock = "out"
    /\ pc["beat"] = "rest" <=> wlock = "beat"
    /\ wlock = "main" => writing \in {"pong", "close"}
    /\ wlock = "out" => writing \in {"verdict", "close"}
    /\ wlock = "beat" => writing = "ping"
    /\ wlock = Nobody => writing = "none"

\* Half a frame at the client is being completed, unless its writing has failed.
WholeInv ==
    /\ halfway => wlock # Nobody \/ stalled \/ client = "gone"
    /\ FramesWhole

\* One thread writes the Close, at most, and only pongs may come after it.
CloseInv ==
    /\ pc["main"] = "echo" \/ pc["out"] = "farewell" \/ writing = "close" \/ seen # <<>> => closed
    /\ pc["main"] = "echo" => pc["out"] # "farewell" /\ writing # "close" /\ seen = <<>>
    /\ pc["out"] = "farewell" => writing # "close" /\ seen = <<>>
    /\ writing = "close" => seen = <<>>
    /\ seen # <<>> => writing \in {"none", "pong"}
    /\ CloseIsLast

\* Once the object is being destroyed the heartbeat cannot begin to wait.
BeatInv ==
    /\ pc["main"] \in {"notify", "joinBeat"} => closed /\ ~At("beat", "toWait")
    /\ HeartbeatJoins

-----------------------------------------------------------------------------
(* The readers *)

ReaderInv ==
    /\ reader \in [Readers -> ReaderPlaces]
    /\ result \in [Readers -> Frames \cup {None, Fail}]
    /\ wire \in Seq(Frames) /\ buf \in Seq(Frames)
    /\ off \in Nat /\ size \in 0 .. Len(buf)
    /\ received \in [Readers -> Nat]
    /\ \A r \in Readers : received[r] <= Len(buf) /\ (reader[r] = "settle" => received[r] > 0)
    /\ sent \in Nat /\ heard \in Nat /\ mangled \in BOOLEAN

\* A frame that was read and not handled yet.
Held == result["main"].kind \in UpKinds

\* Main reads in "reading" only, and has handled its frame when it leaves it.
MainInv ==
    /\ reader["main"] # "off" => pc["main"] = "reading"
    /\ Held => pc["main"] = "reading" /\ reader["main"] \in {"off", "copied"}
    /\ pc["main"] # "reading" => result["main"] = None

\* The output thread reads only in close(), and the connection goes down only by its
\* close() or with main's loop.
QuitInv ==
    /\ ~active => pc["main"] \in Past \/ pc["out"] \in {"farewell", "rest", "drain", "ended"}
    /\ ~active /\ pc["main"] \notin Past /\ pc["out"] = "rest" => writing = "close"
    /\ active => pc["out"] \notin {"farewell", "drain", "ended"}
    /\ active /\ pc["out"] = "rest" => writing = "verdict"
    /\ active => reader["out"] = "off"

\* The window of the buffer that is still to be read, and the last number before it.
Settling == reader["main"] = "settle"
Lo == IF Settling THEN 0 ELSE off
Left == IF Settling THEN received["main"] ELSE IF off < size THEN size - off ELSE 0
Base == IF Held /\ reader["main"] # "copied" THEN heard + 1 ELSE heard

DataInv == active =>
    /\ Held => result["main"].id = heard + 1
    /\ reader["main"] \in {"poll", "reset", "recv"} => Left = 0
    /\ reader["main"] = "copied" => Held /\ off < size
    /\ reader["main"] \in {"recv", "settle"} => off = 0 /\ size = 0
    /\ \A i \in 1 .. Left : buf[Lo + i].id = Base + i
    /\ \A i \in 1 .. Len(wire) : wire[i].id = Base + Left + i
    /\ client = "open" => sent = Base + Left + Len(wire)

\* A frame out of order is handled only beside an output thread that closes.
IntactInv ==
    mangled => ~active /\ (pc["out"] \in {"farewell", "drain", "ended"}
                              \/ (pc["out"] = "rest" /\ writing = "close"))

IInv ==
    /\ WriterInv /\ LockInv /\ WholeInv /\ CloseInv /\ BeatInv
    /\ ReaderInv /\ MainInv /\ QuitInv /\ DataInv /\ IntactInv

-----------------------------------------------------------------------------
(* What a write does *)

LEMMA AfterValues ==
    /\ \A ok : After("main", "pong", ok) = "loop" /\ After("main", "close", ok) = "failed"
    /\ \A ok : After("out", "verdict", ok) = "close" /\ After("out", "close", ok) = "drain"
    /\ After("beat", "ping", TRUE) = "test" /\ After("beat", "ping", FALSE) = "refused"
BY DEF After

\* The frames each thread writes.
Own(th) == CASE th = "main" -> {"pong", "close"}
             [] th = "out" -> {"verdict", "close"}
             [] th = "beat" -> {"ping"}

\* A head goes out and the thread is inside the frame, or nothing is written.
HeadSent(th, k) ==
    /\ wlock = Nobody /\ wlock' = th /\ writing' = k
    /\ pc' = [pc EXCEPT ![th] = "rest"] /\ client # "gone"
    /\ torn' = (torn \/ halfway) /\ halfway' = TRUE
    /\ seen' = seen /\ stalled' = stalled /\ pings' \in {pings, pings + 1}
NothingSent(th, k) ==
    /\ wlock = Nobody /\ wlock' = Nobody /\ writing' = "none"
    /\ pc' = [pc EXCEPT ![th] = After(th, k, FALSE)]
    /\ stalled' \in {stalled, TRUE}
    /\ UNCHANGED <<torn, halfway, seen, pings>>

LEMMA WriteCases ==
    ASSUME WriterInv, LockInv, NEW th \in Writers, NEW k \in Own(th), Write(th, k)
    PROVE  HeadSent(th, k) \/ NothingSent(th, k)
<1>1. k # "none"
  BY DEF Own, Writers, Readers
<1>2. wlock = Nobody /\ writing # k
  BY <1>1 DEF Write, LockInv
<1>3. CASE HeadWritten(th, k)
  BY <1>2, <1>3 DEF HeadWritten, HeadSent, Goto
<1>4. CASE WriteFails(th, k)
  <2>1. PICK ok \in BOOLEAN : (ok => writing = k) /\ Goto(th, After(th, k, ok))
    BY <1>4 DEF WriteFails
  <2>2. ok = FALSE
    BY <1>2, <2>1
  <2>3. stalled' \in {stalled, TRUE}
    BY <1>4 DEF WriteFails, WriterInv
  <2>4. QED
    BY <1>2, <1>4, <2>1, <2>2, <2>3 DEF WriteFails, NothingSent, Goto
<1>5. QED
  BY <1>3, <1>4 DEF Write

LEMMA SendCases ==
    ASSUME WriterInv, LockInv, NEW th \in Writers, NEW k \in Own(th), SendFrame(th, k)
    PROVE  (~closed /\ HeadSent(th, k)) \/ NothingSent(th, k)
<1>1. CASE ~closed /\ Write(th, k)
  BY <1>1, WriteCases
<1>2. CASE /\ closed /\ wlock = Nobody /\ Goto(th, After(th, k, FALSE))
           /\ UNCHANGED writeVars
  BY <1>2 DEF NothingSent, Goto, writeVars, LockInv
<1>3. QED
  BY <1>1, <1>2 DEF SendFrame

\* The frame is finished, or half of it stays behind a failure.
FrameEnds(th) ==
    /\ wlock = th /\ wlock' = Nobody /\ writing' = "none"
    /\ \E ok \in BOOLEAN : pc' = [pc EXCEPT ![th] = After(th, writing, ok)]
    /\ torn' = torn /\ stalled' \in {stalled, TRUE} /\ pings' = pings
    /\ \/ /\ halfway' = FALSE
          /\ seen' = IF seen # <<>> \/ writing = "close" THEN Append(seen, writing) ELSE seen
       \/ (client = "gone" \/ stalled') /\ halfway' = halfway /\ seen' = seen

LEMMA RestCases ==
    ASSUME WriterInv, LockInv, NEW th \in Writers, WriteRest(th)
    PROVE  FrameEnds(th) /\ writing \in Own(th)
<1>1. wlock = th /\ writing \in Own(th)
  BY DEF WriteRest, At, LockInv, Own, Writers, Readers
<1>2. CASE WriteFails(th, writing)
  <2>1. PICK ok \in BOOLEAN : Goto(th, After(th, writing, ok))
    BY <1>2 DEF WriteFails
  <2>2. stalled' \in {stalled, TRUE} /\ (client = "gone" \/ stalled')
    BY <1>2 DEF WriteFails, WriterInv
  <2>3. QED
    BY <1>1, <1>2, <2>1, <2>2 DEF WriteFails, FrameEnds, Goto
<1>3. CASE ~WriteFails(th, writing)
  BY <1>1, <1>3 DEF WriteRest, FrameEnds, Goto
<1>4. QED
  BY <1>2, <1>3

-----------------------------------------------------------------------------
(* The steps, as the writers see them *)

Quiet == UNCHANGED <<pc, active, closed, writeVars>> /\ (client = "gone" => client' = "gone")

\* The places where each thread begins a frame.
Begins(th, k) ==
    \/ th = "main" /\ k = "pong" /\ pc["main"] = "reading"
    \/ th = "main" /\ k = "close" /\ pc["main"] = "echo"
    \/ th = "out" /\ k = "verdict" /\ pc["out"] = "verdict"
    \/ th = "out" /\ k = "close" /\ pc["out"] = "farewell"
    \/ th = "beat" /\ k = "ping" /\ pc["beat"] = "wake"
Writing(th, k) ==
    /\ Begins(th, k) /\ UNCHANGED <<active, closed, client>>
    /\ \/ HeadSent(th, k) /\ (k \in {"verdict", "ping"} => ~closed)
       \/ NothingSent(th, k)
Finishing(th) ==
    FrameEnds(th) /\ writing \in Own(th) /\ UNCHANGED <<active, closed, client>>

\* Every other step only moves threads, and may close.
MainMoves ==
    \/ /\ At("main", "loop") /\ UNCHANGED <<active, closed>>
       /\ \/ ~active /\ Goto("main", "join")
          \/ closed /\ Goto("main", "failed")
          \/ active /\ Goto("main", "reading")
    \/ /\ At("main", "reading") /\ UNCHANGED <<active, closed>>
       /\ Goto("main", "loop") \/ Goto("main", "feed")
    \/ At("main", "feed") /\ Goto("main", "loop") /\ UNCHANGED <<active, closed>>
    \/ /\ At("main", "reading") /\ active' = active /\ closed' = TRUE
       /\ Goto("main", "failed") \/ (~closed /\ Goto("main", "echo"))
    \/ At("main", "failed") /\ Goto("main", "join") /\ active' = FALSE /\ closed' = closed
    \/ At("main", "join") /\ At("out", "ended") /\ Goto("main", "destroy") /\ UNCHANGED <<active, closed>>
    \/ /\ At("main", "destroy") /\ ~At("beat", "toWait") /\ Goto("main", "notify")
       /\ active' = active /\ closed' = TRUE
    \/ /\ At("main", "notify") /\ pc' = [pc EXCEPT !.main = "joinBeat", !.beat = Notified]
       /\ UNCHANGED <<active, closed>>
    \/ At("main", "joinBeat") /\ At("beat", "ended") /\ Goto("main", "ended") /\ UNCHANGED <<active, closed>>

OutMoves ==
    \/ /\ At("out", "run") /\ UNCHANGED <<active, closed>>
       /\ Goto("out", IF active THEN "verdict" ELSE "ended")
    \/ /\ At("out", "close") /\ active' = FALSE /\ closed' = TRUE
       /\ \/ closed /\ pc' = [pc EXCEPT !.out = "ended"]
          \/ ~closed /\ pc' = [pc EXCEPT !.out = "farewell", !.beat = Notified]
    \/ /\ At("out", "drain") /\ UNCHANGED <<active, closed>>
       /\ Goto("out", "ended") \/ pc' = pc

BeatMoves ==
    \/ /\ At("beat", "test") /\ UNCHANGED <<active, closed>>
       /\ Goto("beat", IF closed THEN "ended" ELSE "toWait")
    \/ At("beat", "toWait") /\ Goto("beat", "waiting") /\ UNCHANGED <<active, closed>>
    \/ At("beat", "waiting") /\ Goto("beat", "wake") /\ UNCHANGED <<active, closed>>
    \/ At("beat", "wake") /\ closed /\ Goto("beat", "ended") /\ UNCHANGED <<active, closed>>
    \/ At("beat", "refused") /\ Goto("beat", "ended") /\ active' = active /\ closed' = TRUE

Moving == (MainMoves \/ OutMoves \/ BeatMoves) /\ UNCHANGED <<writeVars, client>>

LEMMA StepCases ==
    ASSUME WriterInv, LockInv, [Next]_vars
    PROVE  \/ Quiet \/ Moving
           \/ \E th \in Writers : Finishing(th) \/ \E k \in Own(th) : Writing(th, k)
<1> DEFINE Case == \/ Quiet \/ Moving
                   \/ \E th \in Writers : Finishing(th) \/ \E k \in Own(th) : Writing(th, k)
<1> USE DEF At, KeepIO, clientVars
<1>1. /\ "main" \in Writers /\ "out" \in Writers /\ "beat" \in Writers
      /\ "pong" \in Own("main") /\ "close" \in Own("main")
      /\ "verdict" \in Own("out") /\ "close" \in Own("out") /\ "ping" \in Own("beat")
  BY DEF Writers, Readers, Own
<1>2. CASE UNCHANGED vars \/ Client \/ \E r \in Readers : Reading(r)
  BY <1>2 DEF vars, Client, ClientSends, ClientCloses, ClientGone, KeepEngine, Quiet, Reading,
              CopyBuffered, SkipBuffered, Poll, Reset, Recv, Settle, KeepRest
<1>3. ASSUME NEW th \in Writers, WriteRest(th) PROVE Case
  BY <1>3, RestCases DEF WriteRest, Finishing
<1>4. CASE ReadLoop \/ Feed \/ EndRun \/ Join \/ Destroy \/ Notify \/ JoinBeat
  BY <1>4 DEF ReadLoop, Feed, EndRun, Join, Destroy, Notify, JoinBeat, Moving, MainMoves
<1>5. CASE HandleFrame
  <2>1. CASE HandlePing
    <3>1. Write("main", "pong") /\ Begins("main", "pong") /\ UNCHANGED <<active, closed, client>>
      BY <1>5, <2>1 DEF HandleFrame, HandlePing, Begins
    <3>2. Writing("main", "pong")
      BY <1>1, <3>1, WriteCases DEF Writing
    <3>3. QED
      BY <1>1, <3>2
  <2>2. CASE HandleText \/ HandleClose \/ HandleFail
    BY <1>5, <2>2 DEF HandleFrame, HandleText, HandleClose, HandleFail, Moving, MainMoves
  <2>3. QED
    BY <1>5, <2>1, <2>2 DEF HandleFrame
<1>6. CASE Echo
  <2>1. Write("main", "close") /\ Begins("main", "close") /\ UNCHANGED <<active, closed, client>>
    BY <1>6 DEF Echo, Begins
  <2>2. Writing("main", "close")
    BY <1>1, <2>1, WriteCases DEF Writing
  <2>3. QED
    BY <1>1, <2>2
<1>7. CASE Output \/ Close \/ Drain
  BY <1>7 DEF Output, Close, Drain, Moving, OutMoves
<1>8. CASE SendVerdict
  <2>1. SendFrame("out", "verdict") /\ Begins("out", "verdict") /\ UNCHANGED <<active, closed, client>>
    BY <1>8 DEF SendVerdict, Begins
  <2>2. Writing("out", "verdict")
    BY <1>1, <2>1, SendCases DEF Writing
  <2>3. QED
    BY <1>1, <2>2
<1>9. CASE Farewell
  <2>1. Write("out", "close") /\ Begins("out", "close") /\ UNCHANGED <<active, closed, client>>
    BY <1>9 DEF Farewell, Begins
  <2>2. Writing("out", "close")
    BY <1>1, <2>1, WriteCases DEF Writing
  <2>3. QED
    BY <1>1, <2>2
<1>10. CASE BeatWake /\ SendFrame("beat", "ping")
  <2>1. Begins("beat", "ping") /\ UNCHANGED <<active, closed, client>>
    BY <1>10 DEF BeatWake, Begins
  <2>2. Writing("beat", "ping")
    BY <1>1, <1>10, <2>1, SendCases DEF Writing
  <2>3. QED
    BY <1>1, <2>2
<1>11. CASE BeatTest \/ BeatWait \/ BeatTimer \/ BeatRefused \/ (BeatWake /\ ~SendFrame("beat", "ping"))
  BY <1>11 DEF BeatTest, BeatWait, BeatTimer, BeatRefused, BeatWake, Moving, BeatMoves
<1>12. QED
  BY <1>1, <1>2, <1>3, <1>4, <1>5, <1>6, <1>7, <1>8, <1>9, <1>10, <1>11
  DEF Next, Main, Out, Beat, Over, Readers

-----------------------------------------------------------------------------
(* The writers' invariants *)

LEMMA WritingMoves ==
    ASSUME NEW th \in Writers, NEW k \in Own(th), Writing(th, k)
    PROVE  \/ /\ th = "main" /\ k = "pong" /\ pc["main"] = "reading"
              /\ pc' \in {[pc EXCEPT !["main"] = "rest"], [pc EXCEPT !["main"] = "loop"]}
           \/ /\ th = "main" /\ k = "close" /\ pc["main"] = "echo"
              /\ pc' \in {[pc EXCEPT !["main"] = "rest"], [pc EXCEPT !["main"] = "failed"]}
           \/ /\ th = "out" /\ k = "verdict" /\ pc["out"] = "verdict"
              /\ pc' \in {[pc EXCEPT !["out"] = "rest"], [pc EXCEPT !["out"] = "close"]}
           \/ /\ th = "out" /\ k = "close" /\ pc["out"] = "farewell"
              /\ pc' \in {[pc EXCEPT !["out"] = "rest"], [pc EXCEPT !["out"] = "drain"]}
           \/ /\ th = "beat" /\ k = "ping" /\ pc["beat"] = "wake"
              /\ pc' \in {[pc EXCEPT !["beat"] = "rest"], [pc EXCEPT !["beat"] = "refused"]}
<1>1. pc' = [pc EXCEPT ![th] = "rest"] \/ pc' = [pc EXCEPT ![th] = After(th, k, FALSE)]
  BY DEF Writing, HeadSent, NothingSent
<1>2. Begins(th, k)
  BY DEF Writing
<1>3. CASE th = "main" /\ k = "pong"
  BY <1>1, <1>2, <1>3, AfterValues DEF Begins
<1>4. CASE th = "main" /\ k = "close"
  BY <1>1, <1>2, <1>4, AfterValues DEF Begins
<1>5. CASE th = "out" /\ k = "verdict"
  BY <1>1, <1>2, <1>5, AfterValues DEF Begins
<1>6. CASE th = "out" /\ k = "close"
  BY <1>1, <1>2, <1>6, AfterValues DEF Begins
<1>7. CASE th = "beat" /\ k = "ping"
  BY <1>1, <1>2, <1>7, AfterValues DEF Begins
<1>8. QED
  BY <1>2, <1>3, <1>4, <1>5, <1>6, <1>7 DEF Begins

LEMMA FinishingMoves ==
    ASSUME NEW th \in Writers, Finishing(th)
    PROVE  \/ /\ th = "main"
              /\ \/ writing = "pong" /\ pc' = [pc EXCEPT !["main"] = "loop"]
                 \/ writing = "close" /\ pc' = [pc EXCEPT !["main"] = "failed"]
           \/ /\ th = "out"
              /\ \/ writing = "verdict" /\ pc' = [pc EXCEPT !["out"] = "close"]
                 \/ writing = "close" /\ pc' = [pc EXCEPT !["out"] = "drain"]
           \/ /\ th = "beat" /\ writing = "ping"
              /\ pc' \in {[pc EXCEPT !["beat"] = "test"], [pc EXCEPT !["beat"] = "refused"]}
<1>1. PICK ok \in BOOLEAN : pc' = [pc EXCEPT ![th] = After(th, writing, ok)]
  BY DEF Finishing, FrameEnds
<1>2. writing \in Own(th)
  BY DEF Finishing
<1>3. CASE th = "main"
  <2>1. writing = "pong" \/ writing = "close"
    BY <1>2, <1>3 DEF Own
  <2>2. After("main", "pong", ok) = "loop" /\ After("main", "close", ok) = "failed"
    BY AfterValues
  <2>3. QED
    BY <1>1, <1>3, <2>1, <2>2
<1>4. CASE th = "out"
  <2>1. writing = "verdict" \/ writing = "close"
    BY <1>2, <1>4 DEF Own
  <2>2. After("out", "verdict", ok) = "close" /\ After("out", "close", ok) = "drain"
    BY AfterValues
  <2>3. QED
    BY <1>1, <1>4, <2>1, <2>2
<1>5. CASE th = "beat"
  <2>1. writing = "ping"
    BY <1>2, <1>5 DEF Own
  <2>2. ok = TRUE \/ ok = FALSE
    OBVIOUS
  <2>3. QED
    BY <1>1, <1>5, <2>1, <2>2, AfterValues
<1>6. QED
  BY <1>3, <1>4, <1>5 DEF Writers, Readers

LEMMA WriterStep ==
    ASSUME WriterInv, LockInv, [Next]_vars
    PROVE  WriterInv'
<1> USE DEF WriterInv, MainPlaces, OutPlaces, BeatPlaces
<1>0. client' \in {"open", "closing", "gone"}
  BY DEF vars, Next, Main, Out, Beat, Client, clientVars, ReadLoop, HandleFrame, Feed, Echo, EndRun, Join,
         Destroy, Notify, JoinBeat, WriteRest, Reading, CopyBuffered, SkipBuffered, Poll, Reset, Recv,
         Settle, KeepRest, KeepIO, Output, SendVerdict, Close, Farewell, Drain, BeatTest, BeatWait,
         BeatWake, BeatRefused, BeatTimer, ClientSends, ClientCloses, ClientGone, Over
<1>1. CASE Quiet
  BY <1>0, <1>1 DEF Quiet, writeVars
<1>2. CASE MainMoves /\ UNCHANGED writeVars
  <2>1. pc' \in [main : MainPlaces, out : OutPlaces, beat : BeatPlaces]
    BY <1>2 DEF MainMoves, Goto, At, Notified
  <2>2. active' \in BOOLEAN /\ closed' \in BOOLEAN
    BY <1>2 DEF MainMoves
  <2>3. QED
    BY <1>0, <1>2, <2>1, <2>2 DEF writeVars
<1>3. CASE OutMoves /\ UNCHANGED writeVars
  BY <1>0, <1>3 DEF OutMoves, Goto, At, Notified, writeVars
<1>4. CASE BeatMoves /\ UNCHANGED writeVars
  BY <1>0, <1>4 DEF BeatMoves, Goto, At, writeVars
<1>5. ASSUME NEW th \in Writers, NEW k \in Own(th), Writing(th, k) PROVE WriterInv'
  <2>1. pc' \in [main : MainPlaces, out : OutPlaces, beat : BeatPlaces]
    BY <1>5, WritingMoves
  <2>2. wlock' \in Writers \cup {Nobody} /\ seen' = seen /\ UNCHANGED <<active, closed>>
    BY <1>5 DEF Writing, HeadSent, NothingSent
  <2>5. pings' \in Nat
    <3>1. pings' = pings \/ pings' = pings + 1
      BY <1>5 DEF Writing, HeadSent, NothingSent
    <3>2. QED
      BY <3>1
  <2>3. stalled' \in BOOLEAN /\ halfway' \in BOOLEAN /\ torn' \in BOOLEAN
    BY <1>5 DEF Writing, HeadSent, NothingSent
  <2>4. QED
    BY <1>0, <2>1, <2>2, <2>3, <2>5
<1>6. ASSUME NEW th \in Writers, Finishing(th) PROVE WriterInv'
  <2>1. pc' \in [main : MainPlaces, out : OutPlaces, beat : BeatPlaces]
    BY <1>6, FinishingMoves
  <2>2. seen' \in Seq(DownKinds)
    <3>1. writing \in DownKinds
      BY <1>6, FinishingMoves DEF DownKinds
    <3>2. seen' = seen \/ seen' = Append(seen, writing)
      BY <1>6 DEF Finishing, FrameEnds
    <3>3. QED
      BY <3>1, <3>2
  <2>3. /\ wlock' = Nobody /\ pings' = pings /\ torn' = torn /\ stalled' \in {stalled, TRUE}
        /\ halfway' \in {halfway, FALSE} /\ UNCHANGED <<active, closed>>
    BY <1>6 DEF Finishing, FrameEnds
  <2>4. stalled' \in BOOLEAN /\ halfway' \in BOOLEAN
    BY <2>3
  <2>5. QED
    BY <1>0, <2>1, <2>2, <2>3, <2>4
<1>7. QED
  BY <1>1, <1>2, <1>3, <1>4, <1>5, <1>6, StepCases DEF Moving

LEMMA LockStep ==
    ASSUME WriterInv, LockInv, [Next]_vars
    PROVE  LockInv'
<1> USE DEF WriterInv, LockInv, MainPlaces, OutPlaces, BeatPlaces, Writers, Readers, Nobody
<1>1. CASE Quiet
  BY <1>1 DEF Quiet, writeVars
<1>2. CASE MainMoves /\ UNCHANGED writeVars
  BY <1>2 DEF MainMoves, Goto, At, Notified, writeVars
<1>3. CASE OutMoves /\ UNCHANGED writeVars
  BY <1>3 DEF OutMoves, Goto, At, Notified, writeVars
<1>4. CASE BeatMoves /\ UNCHANGED writeVars
  BY <1>4 DEF BeatMoves, Goto, At, writeVars
<1>5. ASSUME NEW th \in Writers, NEW k \in Own(th), Writing(th, k) PROVE LockInv'
  <2>1. \/ /\ wlock = Nobody /\ wlock' = th /\ writing' = k /\ pc' = [pc EXCEPT ![th] = "rest"]
        \/ /\ wlock = Nobody /\ wlock' = Nobody /\ writing' = "none"
           /\ pc' = [pc EXCEPT ![th] = After(th, k, FALSE)] /\ After(th, k, FALSE) # "rest"
    BY <1>5, AfterValues DEF Writing, HeadSent, NothingSent, Begins
  <2>2. th \in {"main", "out", "beat"} /\ k # "none"
    BY DEF Writers, Readers, Own
  <2>3. QED
    BY <1>5, <2>1, <2>2, WritingMoves
<1>6. ASSUME NEW th \in Writers, Finishing(th) PROVE LockInv'
  <2>1. wlock = th /\ wlock' = Nobody /\ writing' = "none"
    BY <1>6 DEF Finishing, FrameEnds
  <2>2. QED
    BY <1>6, <2>1, FinishingMoves
<1>7. QED
  BY <1>1, <1>2, <1>3, <1>4, <1>5, <1>6, StepCases DEF Moving

LEMMA WholeStep ==
    ASSUME WriterInv, LockInv, WholeInv, [Next]_vars
    PROVE  WholeInv'
<1> USE DEF WholeInv, FramesWhole
<1>1. CASE Quiet
  BY <1>1 DEF Quiet, writeVars
<1>2. CASE Moving
  BY <1>2 DEF Moving, writeVars
<1>3. ASSUME NEW th \in Writers, NEW k \in Own(th), Writing(th, k) PROVE WholeInv'
  <2>1. th # Nobody
    BY DEF Writers, Readers, Nobody
  <2>2. CASE HeadSent(th, k)
    BY <1>3, <2>1, <2>2 DEF HeadSent
  <2>3. CASE NothingSent(th, k)
    BY <1>3, <2>3 DEF NothingSent, Writing
  <2>4. QED
    BY <1>3, <2>2, <2>3 DEF Writing
<1>4. ASSUME NEW th \in Writers, Finishing(th) PROVE WholeInv'
  <2>1. torn' = torn /\ stalled' \in {stalled, TRUE} /\ client' = client
    BY <1>4 DEF Finishing, FrameEnds
  <2>2. (~halfway' \/ client = "gone" \/ stalled')
    BY <1>4 DEF Finishing, FrameEnds
  <2>3. QED
    BY <2>1, <2>2
<1>5. QED
  BY <1>1, <1>2, <1>3, <1>4, StepCases

LEMMA CloseStep ==
    ASSUME WriterInv, LockInv, CloseInv, [Next]_vars
    PROVE  CloseInv'
<1> USE DEF CloseInv, WriterInv, MainPlaces, OutPlaces, BeatPlaces, CloseIsLast
<1>1. CASE Quiet
  BY <1>1 DEF Quiet, writeVars
<1>2. CASE MainMoves /\ UNCHANGED writeVars
  BY <1>2 DEF MainMoves, Goto, At, Notified, writeVars
<1>3. CASE OutMoves /\ UNCHANGED writeVars
  BY <1>3 DEF OutMoves, Goto, At, Notified, writeVars
<1>4. CASE BeatMoves /\ UNCHANGED writeVars
  BY <1>4 DEF BeatMoves, Goto, At, writeVars
<1>5. ASSUME NEW th \in Writers, NEW k \in Own(th), Writing(th, k) PROVE CloseInv'
  <2>1. seen' = seen /\ closed' = closed
    BY <1>5 DEF Writing, HeadSent, NothingSent
  <2>2. CASE NothingSent(th, k)
    BY <1>5, <2>1, <2>2, WritingMoves DEF NothingSent
  <2>3. CASE HeadSent(th, k) /\ (k \in {"verdict", "ping"} => ~closed)
    BY <1>5, <2>1, <2>3, WritingMoves DEF HeadSent, LockInv
  <2>4. QED
    BY <1>5, <2>2, <2>3 DEF Writing
<1>6. ASSUME NEW th \in Writers, Finishing(th) PROVE CloseInv'
  <2>1. wlock = th /\ writing' = "none" /\ writing \in Own(th) /\ closed' = closed
    BY <1>6 DEF Finishing, FrameEnds
  <2>2. writing # "none"
    BY <1>6, FinishingMoves
  <2>3. pc'["main"] = "echo" => pc["main"] = "echo"
    BY <1>6, FinishingMoves
  <2>4. pc'["out"] = "farewell" => pc["out"] = "farewell"
    BY <1>6, FinishingMoves
  <2>5. CASE seen' = seen
    BY <2>1, <2>3, <2>4, <2>5
  <2>6. CASE seen' = Append(seen, writing) /\ (seen # <<>> \/ writing = "close")
    <3>1. closed
      BY <2>6
    <3>2. pc["main"] # "echo" /\ pc["out"] # "farewell"
      BY <2>6
    <3>4. \A i \in 2 .. Len(seen') : seen'[i] = "pong"
      <4>1. CASE seen = <<>>
        BY <2>6, <4>1
      <4>2. CASE seen # <<>>
        BY <2>2, <2>6, <4>2
      <4>3. QED
        BY <4>1, <4>2
    <3>5. QED
      BY <2>1, <2>3, <2>4, <3>1, <3>2, <3>4
  <2>7. QED
    BY <1>6, <2>5, <2>6 DEF Finishing, FrameEnds
<1>7. QED
  BY <1>1, <1>2, <1>3, <1>4, <1>5, <1>6, StepCases DEF Moving

LEMMA BeatStep ==
    ASSUME WriterInv, LockInv, BeatInv, [Next]_vars
    PROVE  BeatInv'
<1> USE DEF BeatInv, HeartbeatJoins, At, WriterInv, MainPlaces, OutPlaces, BeatPlaces
<1>1. CASE Quiet
  BY <1>1 DEF Quiet
<1>2. CASE MainMoves
  BY <1>2 DEF MainMoves, Goto, Notified
<1>3. CASE OutMoves
  BY <1>3 DEF OutMoves, Goto, Notified
<1>4. CASE BeatMoves
  BY <1>4 DEF BeatMoves, Goto
<1>5. ASSUME NEW th \in Writers, NEW k \in Own(th), Writing(th, k) PROVE BeatInv'
  BY <1>5, WritingMoves DEF Writing
<1>6. ASSUME NEW th \in Writers, Finishing(th) PROVE BeatInv'
  BY <1>6, FinishingMoves DEF Finishing
<1>7. QED
  BY <1>1, <1>2, <1>3, <1>4, <1>5, <1>6, StepCases DEF Moving

-----------------------------------------------------------------------------
(* The steps, as the readers see them *)

\* A step that leaves the frames alone: nobody begins or ends a read.
Calm ==
    /\ UNCHANGED <<readVars, wire, sent, heardVars>> /\ client' \in {client, "gone"}
    /\ pc'["main"] = "reading" <=> pc["main"] = "reading"

LEMMA ReadCases ==
    ASSUME WriterInv, LockInv, [Next]_vars
    PROVE  \/ Calm \/ ReadLoop \/ HandleFrame \/ Drain
           \/ \E r \in Readers : Reading(r)
           \/ ClientCloses \/ \E k \in {"text", "ping"} : ClientSends(k)
<1> USE DEF KeepIO, clientVars, readVars, heardVars
<1>1. CASE UNCHANGED vars \/ ClientGone
  BY <1>1 DEF vars, ClientGone, KeepEngine, Calm
<1>2. ASSUME NEW th \in Writers, WriteRest(th) PROVE Calm
  <2>1. Finishing(th) /\ pc[th] = "rest"
    BY <1>2, RestCases DEF WriteRest, Finishing, At
  <2>2. pc'["main"] = "reading" <=> pc["main"] = "reading"
    BY <2>1, FinishingMoves DEF WriterInv
  <2>3. QED
    BY <1>2, <2>2 DEF WriteRest, Calm
<1>3. CASE Feed \/ EndRun \/ Join \/ Destroy \/ Notify \/ JoinBeat
  BY <1>3 DEF Feed, EndRun, Join, Destroy, Notify, JoinBeat, Calm, Goto, At, WriterInv
<1>4. CASE Echo
  <2>1. Write("main", "close") /\ "main" \in Writers /\ "close" \in Own("main") /\ pc["main"] = "echo"
    BY <1>4 DEF Echo, At, Writers, Readers, Own
  <2>2. pc' = [pc EXCEPT !["main"] = "rest"] \/ pc' = [pc EXCEPT !["main"] = "failed"]
    <3>1. HeadSent("main", "close") \/ NothingSent("main", "close")
      BY <2>1, WriteCases
    <3>2. After("main", "close", FALSE) = "failed"
      BY AfterValues
    <3>3. QED
      BY <3>1, <3>2 DEF HeadSent, NothingSent
  <2>3. QED
    BY <1>4, <2>1, <2>2 DEF Echo, Calm, WriterInv
<1>5. CASE Output \/ Close
  BY <1>5 DEF Output, Close, Goto, At, Calm, WriterInv
<1>6. CASE SendVerdict \/ Farewell
  <2>1. pc'["main"] = pc["main"]
    BY <1>6 DEF SendVerdict, Farewell, SendFrame, Write, HeadWritten, WriteFails, Goto, WriterInv
  <2>2. QED
    BY <1>6, <2>1 DEF SendVerdict, Farewell, Calm
<1>7. CASE BeatTest \/ BeatWait \/ BeatTimer \/ BeatWake \/ BeatRefused
  <2>1. pc'["main"] = pc["main"]
    BY <1>7 DEF BeatTest, BeatWait, BeatTimer, BeatWake, BeatRefused, SendFrame, Write, HeadWritten,
                WriteFails, Goto, WriterInv
  <2>2. QED
    BY <1>7, <2>1 DEF BeatTest, BeatWait, BeatTimer, BeatWake, BeatRefused, Calm
<1>8. QED
  BY <1>1, <1>2, <1>3, <1>4, <1>5, <1>6, <1>7
  DEF Next, Main, Out, Beat, Client, Over, Writers, Readers

-----------------------------------------------------------------------------
(* The readers' types and places *)

\* What recv does to a buffer.
LEMMA Overwrite ==
    ASSUME NEW S, NEW w \in Seq(S), NEW b \in Seq(S)
    PROVE  LET c == w \o SubSeq(b, Len(w) + 1, Len(b))
           IN  /\ c \in Seq(S) /\ Len(c) >= Len(w) /\ Len(c) >= Len(b)
               /\ \A i \in 1 .. Len(w) : c[i] = w[i]
<1> DEFINE rest == SubSeq(b, Len(w) + 1, Len(b))
<1>1. rest \in Seq(S) /\ Len(rest) = IF Len(w) + 1 <= Len(b) THEN Len(b) - Len(w) ELSE 0
  OBVIOUS
<1> HIDE DEF rest
<1>2. w \o rest \in Seq(S) /\ Len(w \o rest) = Len(w) + Len(rest) /\ \A i \in 1 .. Len(w) : (w \o rest)[i] = w[i]
  BY <1>1
<1>3. QED
  BY <1>1, <1>2 DEF rest

Results == Frames \cup {None, Fail}

LEMMA GiveTyped ==
    ASSUME ReaderInv, NEW r \in Readers, NEW f \in Frames, Give(r, f)
    PROVE  result' \in [Readers -> Results]
BY DEF Give, ReaderInv, Results

LEMMA FailTyped ==
    ASSUME ReaderInv, NEW r \in Readers, ReadFails(r)
    PROVE  result' \in [Readers -> Results] /\ reader' \in [Readers -> ReaderPlaces]
BY DEF ReadFails, ReaderInv, Results, ReaderPlaces

LEMMA ReaderStep ==
    ASSUME WriterInv, LockInv, ReaderInv, [Next]_vars
    PROVE  ReaderInv'
<1> USE DEF ReaderPlaces, Results
<1>1. CASE Calm
  BY <1>1 DEF ReaderInv, Calm, readVars, heardVars
<1>2. CASE ReadLoop \/ Drain
  <2>1. reader' \in [Readers -> ReaderPlaces] /\ \A r \in Readers : reader'[r] = "settle" => reader[r] = "settle"
    <3>1. reader' = reader \/ BeginRead("main") \/ BeginRead("out")
      BY <1>2 DEF ReadLoop, Drain
    <3>2. QED
      BY <3>1 DEF BeginRead, ReaderInv
  <2>2. result' \in [Readers -> Results]
    BY <1>2 DEF ReadLoop, Drain, ReaderInv
  <2>3. UNCHANGED <<wire, buf, off, size, received, sent, heard, mangled>>
    BY <1>2 DEF ReadLoop, Drain, KeepIO, clientVars, heardVars
  <2>4. QED
    BY <2>1, <2>2, <2>3 DEF ReaderInv
<1>3. CASE HandleFrame
  <2>1. heard' \in Nat /\ mangled' \in BOOLEAN
    <3>1. heard' = heard \/ heard' = heard + 1
      BY <1>3 DEF HandleFrame, heardVars
    <3>2. mangled' = mangled \/ mangled' = TRUE
      BY <1>3 DEF HandleFrame, heardVars
    <3>3. heard' \in Nat
      BY <3>1 DEF ReaderInv
    <3>4. CASE mangled' = mangled
      BY <3>3, <3>4 DEF ReaderInv
    <3>5. CASE mangled' = TRUE
      BY <3>3, <3>5
    <3>6. QED
      BY <3>2, <3>4, <3>5
  <2>2. result' \in [Readers -> Results]
    BY <1>3 DEF HandleFrame, ReaderInv
  <2>3. UNCHANGED <<reader, wire, buf, off, size, received, sent>>
    BY <1>3 DEF HandleFrame, KeepIO, clientVars
  <2>4. QED
    BY <2>1, <2>2, <2>3 DEF ReaderInv
<1>4. CASE ClientCloses \/ \E k \in {"text", "ping"} : ClientSends(k)
  <2>1. PICK k \in UpKinds : wire' = Append(wire, [kind |-> k, id |-> sent + 1])
    BY <1>4 DEF ClientCloses, ClientSends, UpKinds
  <2>2. sent' = sent \/ sent' = sent + 1
    BY <1>4 DEF ClientCloses, ClientSends
  <2>3. [kind |-> k, id |-> sent + 1] \in Frames
    BY DEF Frames, ReaderInv
  <2>4. wire' \in Seq(Frames) /\ sent' \in Nat
    BY <2>1, <2>2, <2>3 DEF ReaderInv
  <2>5. UNCHANGED <<readVars, heardVars>>
    BY <1>4 DEF ClientCloses, ClientSends, KeepEngine
  <2>6. QED
    BY <2>4, <2>5 DEF ReaderInv, readVars, heardVars
<1>5. ASSUME NEW r \in Readers, Reading(r) PROVE ReaderInv'
  <2>0. UNCHANGED <<sent, heard, mangled>>
    BY <1>5 DEF Reading, CopyBuffered, SkipBuffered, Poll, Reset, Recv, Settle, KeepRest, clientVars, heardVars
  <2>1. CASE CopyBuffered(r)
    <3>1. UNCHANGED <<wire, buf, off, size, received>>
      BY <2>1 DEF CopyBuffered
    <3>2. /\ reader' \in [Readers -> ReaderPlaces]
          /\ \A q \in Readers : reader'[q] = "settle" => reader[q] = "settle"
      BY <2>1 DEF CopyBuffered, ReaderInv
    <3>3. result' \in [Readers -> Results]
      <4>1. CASE off < size
        <5>1. buf[off + 1] \in Frames
          BY <4>1 DEF ReaderInv
        <5>2. QED
          BY <2>1, <4>1, <5>1, GiveTyped DEF CopyBuffered
      <4>2. CASE ~(off < size)
        BY <2>1, <4>2 DEF CopyBuffered, ReaderInv
      <4>3. QED
        BY <4>1, <4>2
    <3>4. QED
      BY <2>0, <3>1, <3>2, <3>3 DEF ReaderInv
  <2>2. CASE SkipBuffered(r) \/ Reset(r)
    <3>1. UNCHANGED <<wire, buf, received, result>>
      BY <2>2 DEF SkipBuffered, Reset
    <3>2. /\ reader' \in [Readers -> ReaderPlaces]
          /\ \A q \in Readers : reader'[q] = "settle" => reader[q] = "settle"
      BY <2>2 DEF SkipBuffered, Reset, ReaderInv
    <3>3. off' \in Nat /\ size' \in 0 .. Len(buf)
      BY <2>2 DEF SkipBuffered, Reset, ReaderInv
    <3>4. QED
      BY <2>0, <3>1, <3>2, <3>3 DEF ReaderInv
  <2>3. CASE Poll(r)
    <3>1. UNCHANGED <<wire, buf, off, size, received>>
      BY <2>3 DEF Poll
    <3>2. reader' \in [Readers -> ReaderPlaces] /\ result' \in [Readers -> Results]
      BY <2>3, FailTyped DEF Poll, ReaderInv
    <3>3. \A q \in Readers : reader'[q] = "settle" => reader[q] = "settle"
      BY <2>3 DEF Poll, ReadFails, ReaderInv
    <3>4. QED
      BY <2>0, <3>1, <3>2, <3>3 DEF ReaderInv
  <2>4. CASE Recv(r)
    <3>1. CASE wire = <<>>
      <4>1. ReadFails(r) /\ UNCHANGED <<wire, buf, off, size, received>>
        BY <2>4, <3>1 DEF Recv
      <4>2. reader' \in [Readers -> ReaderPlaces] /\ result' \in [Readers -> Results]
        BY <4>1, FailTyped
      <4>3. \A q \in Readers : reader'[q] = "settle" => reader[q] = "settle"
        BY <4>1 DEF ReadFails, ReaderInv
      <4>4. QED
        BY <2>0, <4>1, <4>2, <4>3 DEF ReaderInv
    <3>2. CASE wire # <<>>
      <4>1. /\ buf' = wire \o SubSeq(buf, Len(wire) + 1, Len(buf)) /\ wire' = <<>>
            /\ received' = [received EXCEPT ![r] = Len(wire)]
            /\ reader' = [reader EXCEPT ![r] = "settle"] /\ UNCHANGED <<result, off, size>>
        BY <2>4, <3>2 DEF Recv
      <4>2. buf' \in Seq(Frames) /\ Len(buf') >= Len(wire) /\ Len(buf') >= Len(buf)
        BY <4>1, Overwrite DEF ReaderInv
      <4>3. Len(wire) \in Nat /\ Len(wire) > 0 /\ wire' \in Seq(Frames)
        BY <3>2, <4>1 DEF ReaderInv
      <4>4. received' \in [Readers -> Nat] /\ reader' \in [Readers -> ReaderPlaces]
        BY <4>1, <4>3 DEF ReaderInv
      <4>5. size \in 0 .. Len(buf')
        BY <4>2 DEF ReaderInv
      <4>6. ASSUME NEW q \in Readers
            PROVE  received'[q] <= Len(buf') /\ (reader'[q] = "settle" => received'[q] > 0)
        <5>1. CASE q = r
          BY <4>1, <4>2, <4>3, <5>1 DEF ReaderInv
        <5>2. CASE q # r
          <6>1. received'[q] = received[q] /\ reader'[q] = reader[q]
            BY <4>1, <5>2 DEF ReaderInv
          <6>2. QED
            BY <4>2, <6>1 DEF ReaderInv
        <5>3. QED
          BY <5>1, <5>2
      <4>7. result' \in [Readers -> Results] /\ off' \in Nat /\ sent' \in Nat /\ heard' \in Nat /\ mangled' \in BOOLEAN
        BY <2>0, <4>1 DEF ReaderInv
      <4>8. QED
        BY <4>1, <4>2, <4>3, <4>4, <4>5, <4>6, <4>7 DEF ReaderInv
    <3>3. QED
      BY <3>1, <3>2
  <2>5. CASE Settle(r)
    <3>1. /\ UNCHANGED <<wire, buf>> /\ received' = [received EXCEPT ![r] = 0]
          /\ reader' = [reader EXCEPT ![r] = "off"] /\ reader[r] = "settle"
      BY <2>5 DEF Settle
    <3>2. received[r] > 0 /\ received[r] <= Len(buf) /\ buf[1] \in Frames
      BY <3>1 DEF ReaderInv
    <3>3. result' \in [Readers -> Results]
      BY <2>5, <3>2, GiveTyped DEF Settle
    <3>4. off' \in Nat /\ size' \in 0 .. Len(buf)
      BY <2>5, <3>2 DEF Settle, ReaderInv
    <3>5. \A q \in Readers : received'[q] \in Nat /\ received'[q] <= Len(buf) /\ (reader'[q] = "settle" => received'[q] > 0)
      BY <3>1 DEF ReaderInv
    <3>6. QED
      BY <2>0, <3>1, <3>3, <3>4, <3>5 DEF ReaderInv
  <2>6. QED
    BY <1>5, <2>1, <2>2, <2>3, <2>4, <2>5 DEF Reading
<1>6. QED
  BY <1>1, <1>2, <1>3, <1>4, <1>5, ReadCases

LEMMA MainStep ==
    ASSUME WriterInv, LockInv, ReaderInv, MainInv, [Next]_vars
    PROVE  MainInv'
<1> USE DEF MainInv, Held, UpKinds
<1>0. None.kind \notin UpKinds /\ Fail.kind \notin UpKinds
  BY DEF None, Fail
<1>1. CASE Calm
  BY <1>1 DEF Calm, readVars
<1>2. CASE ReadLoop
  <2>1. pc["main"] = "loop" /\ result' = result
    BY <1>2 DEF ReadLoop, At
  <2>2. \/ reader' = reader /\ pc'["main"] # "reading"
        \/ reader'["main"] = "check" /\ pc'["main"] = "reading"
    BY <1>2 DEF ReadLoop, Goto, BeginRead, WriterInv, ReaderInv, Readers
  <2>3. QED
    BY <1>0, <2>1, <2>2
<1>3. CASE HandleFrame
  <2>1. result'["main"] = None /\ reader' = reader /\ reader["main"] = "off"
    BY <1>3 DEF HandleFrame, ReaderInv, Readers
  <2>2. QED
    BY <1>0, <2>1
<1>4. CASE Drain
  <2>1. /\ result'["main"] = result["main"] /\ reader'["main"] = reader["main"]
        /\ pc'["main"] = pc["main"]
    BY <1>4 DEF Drain, BeginRead, Goto, ReaderInv, WriterInv, Readers
  <2>2. QED
    BY <2>1
<1>5. CASE ClientCloses \/ \E k \in {"text", "ping"} : ClientSends(k)
  BY <1>5 DEF ClientCloses, ClientSends, KeepEngine, readVars
<1>6. CASE Reading("main")
  <2>1. pc' = pc /\ pc["main"] = "reading"
    BY <1>6 DEF Reading, CopyBuffered, SkipBuffered, Poll, Reset, Recv, Settle, KeepRest
  <2>2. CASE CopyBuffered("main")
    <3>1. reader'["main"] = "copied" \/ (reader'["main"] = "poll" /\ result' = result /\ ~Held)
      BY <2>2 DEF CopyBuffered, ReaderInv, Readers
    <3>2. QED
      BY <2>1, <3>1
  <2>3. CASE SkipBuffered("main") \/ Settle("main")
    <3>1. reader'["main"] = "off"
      BY <2>3 DEF SkipBuffered, Settle, ReaderInv, Readers
    <3>2. QED
      BY <2>1, <3>1
  <2>4. CASE Poll("main") \/ Reset("main") \/ Recv("main")
    <3>1. ~Held
      BY <2>4 DEF Poll, Reset, Recv
    <3>2. result' = result \/ result'["main"] = Fail
      BY <2>4 DEF Poll, Reset, Recv, ReadFails, ReaderInv, Readers
    <3>3. QED
      BY <1>0, <2>1, <3>1, <3>2
  <2>5. QED
    BY <1>6, <2>2, <2>3, <2>4 DEF Reading
<1>7. CASE Reading("out")
  <2>1. pc' = pc
    BY <1>7 DEF Reading, CopyBuffered, SkipBuffered, Poll, Reset, Recv, Settle, KeepRest
  <2>2. reader'["main"] = reader["main"] /\ result'["main"] = result["main"]
    BY <1>7 DEF Reading, CopyBuffered, SkipBuffered, Poll, Reset, Recv, Settle, Give, ReadFails,
                ReaderInv, Readers
  <2>3. QED
    BY <2>1, <2>2
<1>8. QED
  BY <1>1, <1>2, <1>3, <1>4, <1>5, <1>6, <1>7, ReadCases DEF Readers

\* Only the output thread that closes reads beside main.
LEMMA SoleReader ==
    ASSUME WriterInv, LockInv, ReaderInv, QuitInv, active, [Next]_vars
    PROVE  reader'["out"] = "off" /\ ~Drain /\ ~Reading("out")
<1>1. reader["out"] = "off" /\ pc["out"] # "drain"
  BY DEF QuitInv
<1>2. ~Drain /\ ~Reading("out")
  BY <1>1 DEF Drain, At, Reading, CopyBuffered, SkipBuffered, Poll, Reset, Recv, Settle
<1>3. CASE Reading("main")
  BY <1>1, <1>2, <1>3 DEF Reading, CopyBuffered, SkipBuffered, Poll, Reset, Recv, Settle, ReadFails, ReaderInv, Readers
<1>4. CASE ReadLoop \/ HandleFrame
  BY <1>1, <1>2, <1>4 DEF ReadLoop, HandleFrame, BeginRead, ReaderInv, Readers
<1>5. CASE Calm \/ ClientCloses \/ \E k \in {"text", "ping"} : ClientSends(k)
  BY <1>1, <1>2, <1>5 DEF Calm, ClientCloses, ClientSends, KeepEngine, readVars
<1>6. QED
  BY <1>2, <1>3, <1>4, <1>5, ReadCases DEF Readers

LEMMA QuitStep ==
    ASSUME WriterInv, LockInv, ReaderInv, QuitInv, [Next]_vars
    PROVE  QuitInv'
<1> DEFINE Ends == {"farewell", "rest", "drain", "ended"}
           Places5 == /\ ~active => pc["main"] \in Past \/ pc["out"] \in Ends
                      /\ ~active /\ pc["main"] \notin Past /\ pc["out"] = "rest" => writing = "close"
                      /\ active => pc["out"] \notin {"farewell", "drain", "ended"}
                      /\ active /\ pc["out"] = "rest" => writing = "verdict"
<1>0. Places5
  BY DEF QuitInv
<1> USE DEF WriterInv, MainPlaces, OutPlaces, BeatPlaces, Past
<1>1. Places5' /\ (active' => active)
  <2>1. CASE Quiet
    BY <1>0, <2>1 DEF Quiet, writeVars
  <2>2. CASE MainMoves /\ UNCHANGED writeVars
    <3>1. pc'["out"] = pc["out"] /\ writing' = writing
      BY <2>2 DEF MainMoves, Goto, Notified, writeVars
    <3>2. pc["main"] \in Past => pc'["main"] \in Past
      BY <2>2 DEF MainMoves, Goto, At
    <3>3. active' = active \/ (active' = FALSE /\ pc'["main"] \in Past)
      BY <2>2 DEF MainMoves, Goto, At
    <3>4. QED
      BY <1>0, <3>1, <3>2, <3>3
  <2>3. CASE OutMoves /\ UNCHANGED writeVars
    <3>1. pc'["main"] = pc["main"] /\ pc["out"] # "rest" /\ pc'["out"] # "rest"
      BY <2>3 DEF OutMoves, Goto, At, Notified
    <3>2. CASE active' = active
      <4>1. pc["out"] \in Ends => pc'["out"] \in Ends
        BY <2>3 DEF OutMoves, Goto, At
      <4>2. active => pc'["out"] \notin Ends
        BY <1>0, <2>3, <3>2 DEF OutMoves, Goto, At
      <4>3. QED
        BY <1>0, <3>1, <3>2, <4>1, <4>2
    <3>3. CASE active' = FALSE /\ pc'["out"] \in Ends
      BY <3>1, <3>3
    <3>4. active' = active \/ (active' = FALSE /\ pc'["out"] \in Ends)
      BY <2>3 DEF OutMoves
    <3>5. QED
      BY <3>2, <3>3, <3>4
  <2>4. CASE BeatMoves /\ UNCHANGED writeVars
    BY <1>0, <2>4 DEF BeatMoves, Goto, At, writeVars
  <2>5. ASSUME NEW th \in Writers, NEW k \in Own(th), Writing(th, k) PROVE Places5' /\ active' = active
    <3>1. active' = active /\ wlock = Nobody /\ (wlock' = Nobody \/ (wlock' = th /\ writing' = k))
      BY <2>5 DEF Writing, HeadSent, NothingSent
    <3>2. pc["out"] # "rest"
      BY <3>1 DEF LockInv, Nobody
    <3>3. pc'["out"] = "rest" => th = "out" /\ writing' = k
      <4>1. CASE HeadSent(th, k)
        BY <2>5, <3>2, <4>1, WritingMoves DEF HeadSent
      <4>2. CASE NothingSent(th, k)
        BY <2>5, <3>2, <4>2, WritingMoves, AfterValues DEF NothingSent
      <4>3. QED
        BY <2>5, <4>1, <4>2 DEF Writing
    <3>4. QED
      BY <1>0, <2>5, <3>1, <3>2, <3>3, WritingMoves
  <2>6. ASSUME NEW th \in Writers, Finishing(th) PROVE Places5' /\ active' = active
    <3>1. active' = active /\ wlock = th
      BY <2>6 DEF Finishing, FrameEnds
    <3>2. pc'["out"] # "rest"
      BY <2>6, <3>1, FinishingMoves DEF LockInv
    <3>3. QED
      BY <1>0, <2>6, <3>1, <3>2, FinishingMoves DEF LockInv
  <2>7. QED
    BY <2>1, <2>2, <2>3, <2>4, <2>5, <2>6, StepCases DEF Moving
<1>2. active' => reader'["out"] = "off"
  BY <1>1, SoleReader
<1>3. QED
  BY <1>1, <1>2 DEF QuitInv

-----------------------------------------------------------------------------
(* The frames main is given *)

LEMMA DataStep ==
    ASSUME WriterInv, LockInv, ReaderInv, MainInv, QuitInv, DataInv, [Next]_vars
    PROVE  DataInv'
<1> SUFFICES ASSUME active' PROVE DataInv'
  BY DEF DataInv
<1>a. active
  BY StepCases DEF Quiet, Moving, MainMoves, OutMoves, BeatMoves, Writing, Finishing, WriterInv
<1>b. ~Drain /\ ~Reading("out")
  BY <1>a, SoleReader
<1> DEFINE M == "main"
<1>t. /\ Len(buf) \in Nat /\ Len(wire) \in Nat /\ off \in Nat /\ size \in Nat /\ size <= Len(buf)
      /\ received["main"] \in Nat /\ received["main"] <= Len(buf)
      /\ (Settling => received["main"] > 0) /\ heard \in Nat /\ sent \in Nat
      /\ "main" \in Readers
  BY DEF ReaderInv, Readers, Settling
<1>u. /\ "text" \in UpKinds /\ "ping" \in UpKinds /\ "close" \in UpKinds
      /\ Fail.kind \notin UpKinds /\ None.kind \notin UpKinds
  BY DEF UpKinds, None, Fail
<1>d. /\ Held => result["main"].id = heard + 1
      /\ reader["main"] \in {"poll", "reset", "recv"} => Left = 0
      /\ reader["main"] = "copied" => Held /\ off < size
      /\ reader["main"] \in {"recv", "settle"} => off = 0 /\ size = 0
      /\ \A i \in 1 .. Left : buf[Lo + i].id = Base + i
      /\ \A i \in 1 .. Len(wire) : wire[i].id = Base + Left + i
      /\ client = "open" => sent = Base + Left + Len(wire)
  BY <1>a DEF DataInv
<1>n. Lo \in Nat /\ Left \in Nat /\ Base \in Nat
  BY <1>t DEF Lo, Left, Base
<1>1. CASE Calm
  BY <1>1, <1>d DEF Calm, readVars, heardVars, DataInv, Held, Left, Lo, Base, Settling
<1>2. CASE ReadLoop
  <2>1. /\ reader["main"] = "off" /\ ~Held
    BY <1>2, <1>u DEF ReadLoop, At, MainInv
  <2>2. reader'["main"] = "off" \/ reader'["main"] = "check"
    BY <1>2, <1>t, <2>1 DEF ReadLoop, BeginRead, ReaderInv
  <2>3. UNCHANGED <<result, wire, buf, off, size, received, client, sent, heard>>
    BY <1>2 DEF ReadLoop, KeepIO, clientVars, heardVars
  <2>4. Left' = Left /\ Lo' = Lo /\ Base' = Base /\ ~Held'
    BY <2>1, <2>2, <2>3 DEF Left, Lo, Base, Held, Settling
  <2>5. QED
    BY <1>d, <2>2, <2>3, <2>4 DEF DataInv
<1>3. CASE HandleFrame
  <2>1. reader["main"] = "off" /\ UNCHANGED <<reader, wire, buf, off, size, received, client, sent>>
    BY <1>3 DEF HandleFrame, KeepIO, clientVars
  <2>2. result'["main"] = None
    BY <1>3, <1>t DEF HandleFrame, ReaderInv
  <2>3. Left' = Left /\ Lo' = Lo
    BY <2>1 DEF Left, Lo, Settling
  <2>4. Base' = Base /\ ~Held'
    <3>1. CASE result["main"].kind = "fail"
      <4>1. heard' = heard /\ ~Held
        BY <1>3, <3>1 DEF HandleFrame, heardVars, Held, UpKinds
      <4>2. QED
        BY <1>u, <2>2, <4>1 DEF Base, Held
    <3>2. CASE result["main"].kind # "fail"
      <4>1. Held
        BY <1>3, <3>2 DEF HandleFrame, HandlePing, HandleText, HandleClose, HandleFail, Held, UpKinds
      <4>2. heard' = heard + 1
        BY <1>3, <1>d, <3>2, <4>1 DEF HandleFrame
      <4>3. QED
        BY <1>u, <2>1, <2>2, <4>1, <4>2 DEF Base, Held
    <3>3. QED
      BY <3>1, <3>2
  <2>5. QED
    BY <1>d, <2>1, <2>3, <2>4 DEF DataInv
<1>4. CASE ClientCloses \/ \E k \in {"text", "ping"} : ClientSends(k)
  <2>1. UNCHANGED <<reader, result, buf, off, size, received, heard>>
    BY <1>4 DEF ClientCloses, ClientSends, KeepEngine, readVars, heardVars
  <2>2. Left' = Left /\ Lo' = Lo /\ Base' = Base /\ Held' = Held
    BY <2>1 DEF Left, Lo, Base, Held, Settling
  <2>3. PICK f : f.id = sent + 1 /\ wire' = Append(wire, f)
    BY <1>4 DEF ClientCloses, ClientSends
  <2>4. client = "open" /\ (client' = "open" => sent' = sent + 1)
    BY <1>4 DEF ClientCloses, ClientSends
  <2>5. Len(wire') = Len(wire) + 1
    BY <2>3 DEF ReaderInv
  <2>6. \A i \in 1 .. Len(wire') : wire'[i].id = Base + Left + i
    <3>1. TAKE i \in 1 .. Len(wire')
    <3>2. CASE i \in 1 .. Len(wire)
      <4>1. wire'[i] = wire[i]
        BY <2>3, <3>2 DEF ReaderInv
      <4>2. QED
        BY <1>d, <3>2, <4>1
    <3>3. CASE i = Len(wire) + 1
      <4>1. wire'[i] = f
        BY <2>3, <3>3 DEF ReaderInv
      <4>2. QED
        BY <1>d, <1>t, <1>n, <2>3, <2>4, <3>3, <4>1
    <3>4. QED
      BY <1>t, <2>5, <3>1, <3>2, <3>3
  <2>7. client' = "open" => sent' = Base + Left + Len(wire')
    BY <1>d, <1>t, <1>n, <2>4, <2>5
  <2>8. QED
    BY <1>d, <2>1, <2>2, <2>6, <2>7 DEF DataInv
<1>5. CASE Reading("main")
  <2>0. UNCHANGED <<client, sent, heard>>
    BY <1>5 DEF Reading, CopyBuffered, SkipBuffered, Poll, Reset, Recv, Settle, KeepRest, clientVars, heardVars
  <2>1. CASE CopyBuffered("main")
    <3>1. /\ reader["main"] = "check" /\ ~Held /\ UNCHANGED <<wire, buf, off, size, received>>
      BY <2>1 DEF CopyBuffered, MainInv
    <3>2. Base = heard /\ Lo = off /\ Left = IF off < size THEN size - off ELSE 0
      BY <3>1 DEF Base, Lo, Left, Settling
    <3>3. CASE off < size
      <4>1. reader'["main"] = "copied"
        BY <2>1, <1>t, <3>3 DEF CopyBuffered, ReaderInv
      <4>2. result'["main"] = buf[off + 1]
        BY <1>a, <1>t, <2>1, <3>3 DEF CopyBuffered, Give, ReaderInv
      <4>3. buf[off + 1] \in Frames /\ buf[off + 1].id = heard + 1
        BY <1>t, <1>d, <3>2, <3>3 DEF ReaderInv
      <4>4. Held' /\ result'["main"].id = heard' + 1
        BY <2>0, <4>2, <4>3 DEF Held, Frames
      <4>5. Left' = Left /\ Lo' = Lo /\ Base' = Base
        BY <2>0, <3>1, <3>2, <4>1 DEF Left, Lo, Base, Settling
      <4>6. QED
        BY <1>d, <2>0, <3>1, <3>3, <4>1, <4>4, <4>5 DEF DataInv
    <3>4. CASE ~(off < size)
      <4>1. reader'["main"] = "poll" /\ result' = result
        BY <2>1, <1>t, <3>4 DEF CopyBuffered, ReaderInv
      <4>2. Left' = Left /\ Lo' = Lo /\ Base' = Base /\ ~Held' /\ Left' = 0
        BY <2>0, <3>1, <3>2, <3>4, <4>1 DEF Left, Lo, Base, Settling, Held
      <4>3. QED
        BY <1>d, <2>0, <3>1, <4>1, <4>2 DEF DataInv
    <3>5. QED
      BY <3>3, <3>4
  <2>2. CASE SkipBuffered("main")
    <3>1. /\ reader["main"] = "copied" /\ reader'["main"] = "off" /\ off' = off + 1
          /\ UNCHANGED <<result, wire, buf, size, received>>
      BY <2>2, <1>t DEF SkipBuffered, ReaderInv
    <3>2. Held /\ off < size /\ Base = heard /\ Lo = off /\ Left = size - off
      BY <1>d, <3>1 DEF Base, Lo, Left, Settling
    <3>3. Held' /\ Base' = heard + 1 /\ Lo' = off + 1 /\ Left' = size - off - 1
      BY <1>t, <2>0, <3>1, <3>2 DEF Held, Base, Lo, Left, Settling
    <3>4. \A i \in 1 .. Left' : buf[Lo' + i].id = Base' + i
      <4>1. TAKE i \in 1 .. Left'
      <4>2. i + 1 \in 1 .. Left /\ Lo' + i = Lo + (i + 1) /\ Base' + i = Base + (i + 1)
        BY <1>t, <3>2, <3>3, <4>1
      <4>3. QED
        BY <1>d, <4>2
    <3>5. Base' + Left' = Base + Left
      BY <1>t, <3>2, <3>3
    <3>6. QED
      BY <1>d, <2>0, <3>1, <3>2, <3>3, <3>4, <3>5 DEF DataInv
  <2>3. CASE Poll("main") \/ Reset("main")
    <3>1. /\ reader["main"] \in {"poll", "reset"} /\ UNCHANGED <<wire, buf, received>>
          /\ ~Held /\ Left = 0 /\ Base = heard
      BY <2>3, <1>d DEF Poll, Reset, MainInv, Base
    <3>2. /\ reader'["main"] \in {"reset", "off", "recv"}
          /\ ~Held'
      BY <1>t, <1>u, <2>3, <3>1 DEF Poll, Reset, ReadFails, ReaderInv, Held
    <3>3. (off' = off /\ size' = size /\ reader'["main"] # "recv") \/ (off' = 0 /\ size' = 0)
      BY <1>t, <2>3 DEF Poll, Reset, ReadFails, ReaderInv
    <3>4. Left' = 0 /\ Base' = heard
      BY <1>t, <2>0, <3>1, <3>2, <3>3 DEF Left, Base, Settling
    <3>5. QED
      BY <1>d, <2>0, <3>1, <3>2, <3>3, <3>4 DEF DataInv
  <2>4. CASE Recv("main")
    <3>1. reader["main"] = "recv" /\ ~Held /\ Left = 0 /\ Base = heard /\ off = 0 /\ size = 0
      BY <2>4, <1>d DEF Recv, MainInv, Base
    <3>2. CASE wire = <<>>
      <4>1. /\ reader'["main"] = "off" /\ result'["main"] = Fail
            /\ UNCHANGED <<wire, buf, off, size, received>>
        BY <1>t, <2>4, <3>2 DEF Recv, ReadFails, ReaderInv
      <4>2. ~Held' /\ Left' = 0 /\ Base' = heard
        BY <1>u, <2>0, <3>1, <4>1 DEF Held, Left, Base, Settling
      <4>3. QED
        BY <1>d, <2>0, <3>1, <4>1, <4>2 DEF DataInv
    <3>3. CASE wire # <<>>
      <4>1. /\ buf' = wire \o SubSeq(buf, Len(wire) + 1, Len(buf)) /\ wire' = <<>>
            /\ received'["main"] = Len(wire) /\ reader'["main"] = "settle"
            /\ UNCHANGED <<result, off, size>>
        BY <1>t, <2>4, <3>3 DEF Recv, ReaderInv
      <4>2. \A i \in 1 .. Len(wire) : buf'[i] = wire[i]
        BY <4>1, Overwrite DEF ReaderInv
      <4>3. ~Held' /\ Left' = Len(wire) /\ Lo' = 0 /\ Base' = heard
        BY <2>0, <3>1, <4>1 DEF Held, Left, Lo, Base, Settling
      <4>4. \A i \in 1 .. Left' : buf'[Lo' + i].id = Base' + i
        BY <1>d, <1>t, <3>1, <4>2, <4>3
      <4>5. Len(wire') = 0
        BY <4>1
      <4>6. QED
        BY <1>d, <1>t, <2>0, <3>1, <4>1, <4>3, <4>4, <4>5 DEF DataInv
    <3>4. QED
      BY <3>2, <3>3
  <2>5. CASE Settle("main")
    <3>1. /\ reader["main"] = "settle" /\ reader'["main"] = "off" /\ UNCHANGED <<wire, buf>>
          /\ IF received["main"] > 1 THEN off' = 1 /\ size' = received["main"] ELSE UNCHANGED <<off, size>>
      BY <1>t, <2>5 DEF Settle, ReaderInv
    <3>2. /\ ~Held /\ Base = heard /\ Lo = 0 /\ Left = received["main"] /\ Left > 0
          /\ off = 0 /\ size = 0
      BY <1>d, <1>t, <3>1 DEF MainInv, Base, Lo, Left, Settling
    <3>3. result'["main"] = buf[1]
      BY <1>a, <1>t, <2>5 DEF Settle, Give, ReaderInv
    <3>4. buf[1] \in Frames /\ buf[1].id = heard + 1
      <4>1. buf[1] \in Frames
        BY <1>t, <3>2 DEF ReaderInv
      <4>2. 1 \in 1 .. Left /\ Lo + 1 = 1
        BY <1>n, <3>2
      <4>3. QED
        BY <1>d, <3>2, <4>1, <4>2
    <3>5. Held' /\ result'["main"].id = heard' + 1 /\ Base' = heard + 1
      BY <2>0, <3>1, <3>3, <3>4 DEF Held, Base, Frames
    <3>6. Left' = Left - 1 /\ (Left' > 0 => Lo' = 1)
      BY <1>t, <3>1, <3>2 DEF Left, Lo, Settling
    <3>7. \A i \in 1 .. Left' : buf[Lo' + i].id = Base' + i
      <4>1. TAKE i \in 1 .. Left'
      <4>2. i + 1 \in 1 .. Left /\ Lo' + i = Lo + (i + 1) /\ Base' + i = Base + (i + 1)
        BY <1>t, <1>n, <3>2, <3>5, <3>6, <4>1
      <4>3. QED
        BY <1>d, <4>2
    <3>8. Base' + Left' = Base + Left
      BY <1>t, <1>n, <3>2, <3>5, <3>6
    <3>9. QED
      BY <1>d, <2>0, <3>1, <3>5, <3>7, <3>8 DEF DataInv
  <2>6. QED
    BY <1>5, <2>1, <2>2, <2>3, <2>4, <2>5 DEF Reading
<1>6. QED
  BY <1>b, <1>1, <1>2, <1>3, <1>4, <1>5, ReadCases DEF Readers

LEMMA IntactStep ==
    ASSUME WriterInv, LockInv, ReaderInv, MainInv, QuitInv, DataInv, IntactInv, [Next]_vars
    PROVE  IntactInv'
<1> DEFINE Closes == pc["out"] \in {"farewell", "drain", "ended"}
                        \/ (pc["out"] = "rest" /\ writing = "close")
<1>1. ~active /\ Closes => ~active' /\ Closes'
  <2> SUFFICES ASSUME ~active, Closes PROVE ~active' /\ Closes'
    OBVIOUS
  <2> USE DEF WriterInv, MainPlaces, OutPlaces, BeatPlaces
  <2>1. CASE Quiet
    BY <2>1 DEF Quiet, writeVars
  <2>2. CASE MainMoves /\ UNCHANGED writeVars
    <3>1. pc'["out"] = pc["out"] /\ writing' = writing
      BY <2>2 DEF MainMoves, Goto, Notified, writeVars
    <3>2. active' = active \/ active' = FALSE
      BY <2>2 DEF MainMoves
    <3>3. QED
      BY <3>1, <3>2
  <2>3. CASE OutMoves /\ UNCHANGED writeVars
    <3>1. pc["out"] = "drain" /\ active' = active
      BY <2>3 DEF OutMoves, At
    <3>2. pc'["out"] = "ended" \/ pc' = pc
      BY <2>3, <3>1 DEF OutMoves, At, Goto
    <3>3. QED
      BY <3>1, <3>2
  <2>4. CASE BeatMoves /\ UNCHANGED writeVars
    BY <2>4 DEF BeatMoves, Goto, At, writeVars
  <2>5. ASSUME NEW th \in Writers, NEW k \in Own(th), Writing(th, k) PROVE ~active' /\ Closes'
    <3>1. active' = active /\ wlock = Nobody
      BY <2>5 DEF Writing, HeadSent, NothingSent
    <3>2. pc["out"] # "rest"
      BY <3>1 DEF LockInv, Nobody
    <3>3. CASE HeadSent(th, k)
      BY <2>5, <3>1, <3>2, <3>3, WritingMoves DEF HeadSent
    <3>4. CASE NothingSent(th, k)
      <4>1. th = "out" => pc'["out"] # "rest"
        BY <2>5, <3>4, WritingMoves, AfterValues DEF NothingSent
      <4>2. QED
        BY <2>5, <3>1, <3>2, <4>1, WritingMoves
    <3>5. QED
      BY <2>5, <3>3, <3>4 DEF Writing
  <2>6. ASSUME NEW th \in Writers, Finishing(th) PROVE ~active' /\ Closes'
    <3>1. active' = active /\ wlock = th
      BY <2>6 DEF Finishing, FrameEnds
    <3>2. CASE th = "out"
      <4>1. pc["out"] = "rest" /\ writing = "close"
        BY <3>1, <3>2 DEF LockInv
      <4>2. pc'["out"] = "drain"
        BY <2>6, <3>2, <4>1, FinishingMoves
      <4>3. QED
        BY <3>1, <4>2
    <3>3. CASE th # "out"
      <4>1. pc["out"] # "rest" /\ pc'["out"] = pc["out"]
        BY <2>6, <3>1, <3>3, FinishingMoves DEF LockInv
      <4>2. QED
        BY <3>1, <4>1
    <3>4. QED
      BY <3>2, <3>3
  <2>7. QED
    BY <2>1, <2>2, <2>3, <2>4, <2>5, <2>6, StepCases DEF Moving
<1>2. mangled' => mangled \/ (~active /\ Closes)
  <2>1. CASE HandleFrame
    <3>1. pc["main"] = "reading"
      BY <2>1 DEF HandleFrame, At
    <3>2. CASE ~active
      BY <3>1, <3>2 DEF QuitInv, Past
    <3>3. CASE active
      <4>1. CASE result["main"].kind = "fail"
        BY <2>1, <4>1 DEF HandleFrame, heardVars
      <4>2. CASE result["main"].kind # "fail"
        <5>1. Held
          BY <2>1, <4>2 DEF HandleFrame, HandlePing, HandleText, HandleClose, HandleFail, Held, UpKinds
        <5>2. result["main"].id = heard + 1
          BY <3>3, <5>1 DEF DataInv
        <5>3. QED
          BY <2>1, <4>2, <5>2 DEF HandleFrame
      <4>3. QED
        BY <4>1, <4>2
    <3>4. QED
      BY <3>2, <3>3
  <2>2. CASE ~HandleFrame
    <3>1. mangled' = mangled
      <4>1. CASE Calm \/ ReadLoop \/ Drain \/ ClientCloses \/ \E k \in {"text", "ping"} : ClientSends(k)
        BY <4>1 DEF Calm, ReadLoop, Drain, ClientCloses, ClientSends, KeepEngine, heardVars
      <4>2. CASE \E r \in Readers : Reading(r)
        BY <4>2 DEF Reading, CopyBuffered, SkipBuffered, Poll, Reset, Recv, Settle, KeepRest, heardVars
      <4>3. QED
        BY <2>2, <4>1, <4>2, ReadCases
    <3>2. QED
      BY <3>1
  <2>3. QED
    BY <2>1, <2>2
<1>3. QED
  BY <1>1, <1>2 DEF IntactInv


-----------------------------------------------------------------------------
(* The theorems *)

LEMMA Invariant == Spec => []IInv
<1>1. Init => IInv
  <2> SUFFICES ASSUME Init PROVE IInv
    OBVIOUS
  <2>1. WriterInv
    <3>1. pc \in [main : MainPlaces, out : OutPlaces, beat : BeatPlaces]
      BY DEF Init, MainPlaces, OutPlaces, BeatPlaces
    <3>2. <<>> \in Seq(DownKinds)
      OBVIOUS
    <3>3. QED
      BY <3>1, <3>2 DEF Init, WriterInv
  <2>2. LockInv
    BY DEF Init, LockInv, Nobody
  <2>3. WholeInv
    BY DEF Init, WholeInv, FramesWhole
  <2>4. CloseInv
    BY DEF Init, CloseInv, CloseIsLast
  <2>5. BeatInv
    BY DEF Init, BeatInv, HeartbeatJoins, At
  <2>6. ReaderInv
    <3>1. <<>> \in Seq(Frames) /\ Len(<<>>) = 0
      OBVIOUS
    <3>2. reader \in [Readers -> ReaderPlaces] /\ result \in [Readers -> Frames \cup {None, Fail}]
      BY DEF Init, ReaderPlaces
    <3>3. received \in [Readers -> Nat] /\ \A r \in Readers : received[r] = 0 /\ reader[r] = "off"
      BY DEF Init
    <3>4. /\ wire = <<>> /\ buf = <<>> /\ off = 0 /\ size = 0 /\ sent = 0 /\ heard = 0
          /\ mangled \in BOOLEAN
      BY DEF Init
    <3>5. \A r \in Readers : received[r] <= Len(buf) /\ (reader[r] = "settle" => received[r] > 0)
      BY <3>1, <3>3, <3>4
    <3>6. QED
      BY <3>1, <3>2, <3>3, <3>4, <3>5 DEF ReaderInv
  <2>7. ~Held
    BY DEF Init, Held, None, UpKinds, Readers
  <2>8. MainInv /\ QuitInv
    BY <2>7 DEF Init, MainInv, QuitInv, Readers
  <2>9. DataInv
    <3>1. Left = 0 /\ Base = 0
      BY <2>7 DEF Init, Left, Base, Settling, Readers
    <3>2. QED
      BY <2>7, <3>1 DEF Init, DataInv, Readers
  <2>10. QED
    BY <2>1, <2>2, <2>3, <2>4, <2>5, <2>6, <2>8, <2>9 DEF IInv, IntactInv, Init
<1>2. IInv /\ [Next]_vars => IInv'
  BY WriterStep, LockStep, WholeStep, CloseStep, BeatStep, ReaderStep, MainStep, QuitStep, DataStep,
     IntactStep DEF IInv
<1>3. QED
  BY <1>1, <1>2, PTL DEF Spec

\* Three threads send the client whole frames, one after the other, over one socket.
THEOREM WholeFrames == Spec => []FramesWhole
<1>1. IInv => FramesWhole
  BY DEF IInv, WholeInv
<1>2. QED
  BY <1>1, Invariant, PTL

\* The client is sent one Close, and nothing but pongs after it.
THEOREM OneClose == Spec => []CloseIsLast
<1>1. IInv => CloseIsLast
  BY DEF IInv, CloseInv
<1>2. QED
  BY <1>1, Invariant, PTL

\* The destructor never joins a heartbeat that still waits out its 30 s.
THEOREM HeartbeatIsJoined == Spec => []HeartbeatJoins
<1>1. IInv => HeartbeatJoins
  BY DEF IInv, BeatInv
<1>2. QED
  BY <1>1, Invariant, PTL

\* The socket's unlocked read buffer gives main the client's frames in order until the
\* output thread closes.
THEOREM InputIsIntact == Spec => []InputIntact
<1>1. IInv => InputIntact
  BY DEF IInv, IntactInv, InputIntact
<1>2. QED
  BY <1>1, Invariant, PTL

\* Types; and what is left to be read lies in the buffer.
THEOREM Typed == Spec => []TypeOK
<1>1. IInv => TypeOK
  <2> SUFFICES ASSUME IInv PROVE TypeOK
    OBVIOUS
  <2>1. pc \in [Writers -> Places]
    <3>1. pc = [th \in {"main", "out", "beat"} |-> pc[th]]
      BY DEF IInv, WriterInv
    <3>2. pc["main"] \in Places /\ pc["out"] \in Places /\ pc["beat"] \in Places
      BY DEF IInv, WriterInv, MainPlaces, OutPlaces, BeatPlaces, Places
    <3>3. QED
      BY <3>1, <3>2 DEF Writers, Readers
  <2>2. writing \in DownKinds \cup {"none"}
    BY DEF IInv, WriterInv, LockInv, Writers, Readers, DownKinds
  <2>3. mangled \in BOOLEAN /\ active \in BOOLEAN /\ closed \in BOOLEAN
    BY DEF IInv, WriterInv, ReaderInv
  <2>4. reader \in [Readers -> {"off", "check", "copied", "poll", "reset", "recv", "settle"}]
    BY DEF IInv, ReaderInv, ReaderPlaces
  <2>5. stalled \in BOOLEAN /\ halfway \in BOOLEAN /\ torn \in BOOLEAN
    BY DEF IInv, WriterInv
  <2>6. QED
    BY <2>1, <2>2, <2>3, <2>4, <2>5 DEF IInv, WriterInv, ReaderInv, TypeOK
<1>2. QED
  BY <1>1, Invariant, PTL

-----------------------------------------------------------------------------
(* The end of a session: who outlives whom, and in how many steps            *)

Destroying == {"destroy", "notify", "joinBeat", "ended"}

\* The object goes with the main thread, after the threads that use it.
LifeInv ==
    /\ pc["main"] \in Destroying => pc["out"] = "ended"
    /\ pc["main"] = "ended" => pc["beat"] = "ended"
    /\ pc["out"] # "drain" => reader["out"] = "off"
    /\ sent <= MaxUp

\* The steps left to each thread.  A read takes six at most; main begins none once the
\* connection is down, but the output thread, in close(), one for each frame that may still
\* come.
ReadStage == [off |-> 0, copied |-> 1, settle |-> 2, recv |-> 3, reset |-> 4, poll |-> 5,
              check |-> 6]
MainStage == [reading |-> 8, echo |-> 7, feed |-> 6, rest |-> 6, loop |-> 5, failed |-> 5,
              join |-> 4, destroy |-> 3, notify |-> 2, joinBeat |-> 1, ended |-> 0]
BeatStage == [toWait |-> 5, waiting |-> 4, wake |-> 3, rest |-> 2, test |-> 1, refused |-> 1,
              ended |-> 0]
MainLeft == MainStage[pc["main"]] + ReadStage[reader["main"]]
BeatLeft == BeatStage[pc["beat"]]

ToCome == IF client = "open" THEN 1 + MaxUp - sent ELSE 0
Buffered == IF off < size THEN size - off ELSE 0
Pending == Len(wire) + ToCome + received["out"] + Buffered

\* A read the two readers disturbed may skip what is no longer there.
DrainStage ==
    CASE reader["out"] = "off" -> IF result["out"].kind \in {"close", "fail"} THEN 1 ELSE 8
      [] reader["out"] = "copied" -> IF off < size THEN 2 ELSE 9
      [] OTHER -> 1 + ReadStage[reader["out"]]
OutStage ==
    CASE pc["out"] = "drain" -> DrainStage
      [] pc["out"] = "rest" -> IF writing = "close" THEN 11 ELSE 14
      [] OTHER -> [run |-> 16, verdict |-> 15, close |-> 13, farewell |-> 12, ended |-> 0][pc["out"]]
OutLeft == 10 * Pending + OutStage

LEMMA MainMovesOnly ==
    ASSUME WriterInv, LockInv, ReaderInv, Main
    PROVE  \/ /\ reader'["main"] = reader["main"]
              /\ \/ pc["main"] = "loop" /\ ~active /\ pc'["main"] = "join"
                 \/ pc["main"] = "loop" /\ active /\ pc'["main"] = "failed"
                 \/ /\ pc["main"] = "reading" /\ reader["main"] = "off"
                    /\ pc'["main"] \in {"rest", "feed", "loop", "failed", "echo"}
                 \/ pc["main"] = "feed" /\ pc'["main"] = "loop"
                 \/ pc["main"] = "echo" /\ pc'["main"] \in {"rest", "failed"}
                 \/ pc["main"] = "rest" /\ pc'["main"] \in {"loop", "failed"}
                 \/ pc["main"] = "failed" /\ pc'["main"] = "join"
                 \/ pc["main"] = "join" /\ pc["out"] = "ended" /\ pc'["main"] = "destroy"
                 \/ pc["main"] = "destroy" /\ pc'["main"] = "notify"
                 \/ pc["main"] = "notify" /\ pc'["main"] = "joinBeat"
                 \/ pc["main"] = "joinBeat" /\ pc["beat"] = "ended" /\ pc'["main"] = "ended"
           \/ active /\ pc["main"] = "loop" /\ pc'["main"] = "reading"
           \/ /\ pc' = pc /\ Reading("main")
              /\ ReadStage[reader'["main"]] < ReadStage[reader["main"]]
<1> USE DEF WriterInv, At, Goto
<1>1. CASE ReadLoop
  BY <1>1 DEF ReadLoop
<1>2. CASE HandleFrame
  <2>1. pc["main"] = "reading" /\ reader["main"] = "off" /\ reader' = reader
    BY <1>2 DEF HandleFrame
  <2>2. CASE HandlePing
    <3>1. Write("main", "pong") /\ "main" \in Writers /\ "pong" \in Own("main")
      BY <2>2 DEF HandlePing, Writers, Readers, Own
    <3>2. HeadSent("main", "pong") \/ NothingSent("main", "pong")
      BY <3>1, WriteCases
    <3>3. pc'["main"] \in {"rest", "loop"}
      BY <3>2, AfterValues DEF HeadSent, NothingSent
    <3>4. QED
      BY <2>1, <3>3
  <2>3. CASE HandleText \/ HandleClose \/ HandleFail
    BY <2>1, <2>3 DEF HandleText, HandleClose, HandleFail
  <2>4. QED
    BY <1>2, <2>2, <2>3 DEF HandleFrame
<1>3. CASE Echo
  <2>1. Write("main", "close") /\ "main" \in Writers /\ "close" \in Own("main")
    BY <1>3 DEF Echo, Writers, Readers, Own
  <2>2. HeadSent("main", "close") \/ NothingSent("main", "close")
    BY <2>1, WriteCases
  <2>3. pc'["main"] \in {"rest", "failed"}
    BY <2>2, AfterValues DEF HeadSent, NothingSent
  <2>4. QED
    BY <1>3, <2>3 DEF Echo, readVars
<1>4. CASE Feed \/ EndRun \/ Join \/ Destroy \/ Notify \/ JoinBeat
  BY <1>4 DEF Feed, EndRun, Join, Destroy, Notify, JoinBeat
<1>5. CASE WriteRest("main")
  <2>1. Finishing("main") /\ pc["main"] = "rest" /\ reader' = reader /\ "main" \in Writers
    BY <1>5, RestCases DEF WriteRest, Finishing, readVars, clientVars, Writers, Readers
  <2>2. pc'["main"] \in {"loop", "failed"}
    BY <2>1, FinishingMoves
  <2>3. QED
    BY <2>1, <2>2
<1>6. CASE Reading("main")
  <2>1. pc' = pc
    BY <1>6 DEF Reading, CopyBuffered, SkipBuffered, Poll, Reset, Recv, Settle, KeepRest
  <2>2. \/ reader["main"] = "check" /\ reader'["main"] \in {"copied", "poll"}
        \/ reader["main"] = "copied" /\ reader'["main"] = "off"
        \/ reader["main"] = "poll" /\ reader'["main"] \in {"reset", "off"}
        \/ reader["main"] = "reset" /\ reader'["main"] = "recv"
        \/ reader["main"] = "recv" /\ reader'["main"] \in {"settle", "off"}
        \/ reader["main"] = "settle" /\ reader'["main"] = "off"
    BY <1>6 DEF Reading, CopyBuffered, SkipBuffered, Poll, Reset, Recv, Settle, ReadFails, ReaderInv, Readers
  <2>3. ReadStage[reader'["main"]] < ReadStage[reader["main"]]
    BY <2>2 DEF ReadStage
  <2>4. QED
    BY <1>6, <2>1, <2>3
<1>7. QED
  BY <1>1, <1>2, <1>3, <1>4, <1>5, <1>6 DEF Main

\* What a thread leaves alone in the steps of the others.
LEMMA OthersLeaveMain ==
    ASSUME WriterInv, ReaderInv, ~Main, [Next]_vars
    PROVE  pc'["main"] = pc["main"] /\ reader'["main"] = reader["main"]
<1> USE DEF WriterInv, At, Goto
<1>1. CASE Output \/ Close
  BY <1>1 DEF Output, Close, readVars
<1>2. CASE SendVerdict \/ Farewell
  BY <1>2 DEF SendVerdict, Farewell, SendFrame, Write, HeadWritten, WriteFails, readVars
<1>3. CASE Drain
  BY <1>3 DEF Drain, BeginRead, ReaderInv, Readers
<1>4. CASE WriteRest("out") \/ WriteRest("beat")
  BY <1>4 DEF WriteRest, WriteFails, readVars
<1>5. CASE Reading("out")
  BY <1>5 DEF Reading, CopyBuffered, SkipBuffered, Poll, Reset, Recv, Settle, ReadFails, KeepRest,
              ReaderInv, Readers
<1>6. CASE BeatTest \/ BeatWait \/ BeatTimer \/ BeatWake \/ BeatRefused
  BY <1>6 DEF BeatTest, BeatWait, BeatTimer, BeatWake, BeatRefused, SendFrame, Write, HeadWritten,
              WriteFails, readVars
<1>7. CASE Client \/ UNCHANGED vars
  BY <1>7 DEF Client, ClientSends, ClientCloses, ClientGone, KeepEngine, vars, readVars
<1>8. QED
  BY <1>1, <1>2, <1>3, <1>4, <1>5, <1>6, <1>7 DEF Next, Out, Beat, Over

LEMMA OthersLeaveOut ==
    ASSUME WriterInv, LockInv, ReaderInv, ~Out, [Next]_vars
    PROVE  /\ pc'["out"] = pc["out"] /\ reader'["out"] = reader["out"]
           /\ result'["out"] = result["out"] /\ received'["out"] = received["out"]
           /\ pc["out"] = "rest" => writing' = writing
           /\ ~Reading("main") => UNCHANGED <<off, size>>
           /\ ~Client => UNCHANGED <<client, sent>> /\ (~Reading("main") => wire' = wire)
<1> USE DEF WriterInv, At, Goto, KeepIO, clientVars
<1>0. pc["out"] = "rest" => wlock # Nobody /\ pc["main"] # "rest" /\ pc["beat"] # "rest"
  BY DEF LockInv, Nobody
<1>1. CASE ReadLoop \/ Feed \/ EndRun \/ Join \/ Destroy \/ Notify \/ JoinBeat
  BY <1>1 DEF ReadLoop, Feed, EndRun, Join, Destroy, Notify, JoinBeat, BeginRead, writeVars, ReaderInv, Readers
<1>2. CASE HandleFrame
  <2>1. /\ pc'["out"] = pc["out"] /\ (pc["out"] = "rest" => writing' = writing)
    BY <1>0, <1>2 DEF HandleFrame, HandlePing, HandleText, HandleClose, HandleFail, Write, HeadWritten,
                WriteFails, writeVars
  <2>2. QED
    BY <1>2, <2>1 DEF HandleFrame, ReaderInv, Readers
<1>3. CASE Echo
  BY <1>0, <1>3 DEF Echo, Write, HeadWritten, WriteFails, readVars
<1>4. CASE WriteRest("main") \/ WriteRest("beat")
  BY <1>0, <1>4 DEF WriteRest, WriteFails, readVars
<1>5. CASE Reading("main")
  BY <1>5 DEF Reading, CopyBuffered, SkipBuffered, Poll, Reset, Recv, Settle, Give, ReadFails, KeepRest,
              writeVars, ReaderInv, Readers
<1>6. CASE BeatTest \/ BeatWait \/ BeatTimer \/ BeatRefused
  BY <1>6 DEF BeatTest, BeatWait, BeatTimer, BeatRefused, readVars, writeVars
<1>7. CASE BeatWake
  BY <1>0, <1>7 DEF BeatWake, SendFrame, Write, HeadWritten, WriteFails, readVars, writeVars
<1>8. CASE Client \/ UNCHANGED vars
  BY <1>8 DEF Client, ClientSends, ClientCloses, ClientGone, KeepEngine, vars, readVars, writeVars
<1>9. QED
  BY <1>1, <1>2, <1>3, <1>4, <1>5, <1>6, <1>7, <1>8 DEF Next, Main, Beat, Over

LEMMA OthersLeaveBeat ==
    ASSUME WriterInv, ~Beat, [Next]_vars
    PROVE  pc'["beat"] = pc["beat"] \/ (pc["beat"] = "waiting" /\ pc'["beat"] = "wake")
<1> USE DEF WriterInv, At, Goto
<1>1. CASE ReadLoop \/ Feed \/ EndRun \/ Join \/ Destroy \/ Notify \/ JoinBeat
  BY <1>1 DEF ReadLoop, Feed, EndRun, Join, Destroy, Notify, JoinBeat, Notified
<1>2. CASE HandleFrame
  BY <1>2 DEF HandleFrame, HandlePing, HandleText, HandleClose, HandleFail, Write, HeadWritten,
              WriteFails
<1>3. CASE Echo \/ SendVerdict \/ Farewell
  BY <1>3 DEF Echo, SendVerdict, Farewell, SendFrame, Write, HeadWritten, WriteFails
<1>4. CASE WriteRest("main") \/ WriteRest("out")
  BY <1>4 DEF WriteRest, WriteFails
<1>5. CASE \E r \in Readers : Reading(r)
  BY <1>5 DEF Reading, CopyBuffered, SkipBuffered, Poll, Reset, Recv, Settle, KeepRest
<1>6. CASE Output \/ Close \/ Drain \/ BeatTimer
  BY <1>6 DEF Output, Close, Drain, BeatTimer, Notified
<1>7. CASE Client \/ UNCHANGED vars
  BY <1>7 DEF Client, ClientSends, ClientCloses, ClientGone, KeepEngine, vars
<1>8. QED
  BY <1>1, <1>2, <1>3, <1>4, <1>5, <1>6, <1>7 DEF Next, Main, Out, Over, Readers

\* How the output thread moves: to the next place, or within close() by a read.
LEMMA OutMovesOnly ==
    ASSUME WriterInv, LockInv, ReaderInv, LifeInv, Out
    PROVE  \/ /\ reader'["out"] = "off" /\ reader["out"] = "off"
              /\ UNCHANGED <<wire, off, size, received, client, sent>>
              /\ \/ pc["out"] = "run" /\ pc'["out"] \in {"verdict", "ended"}
                 \/ pc["out"] = "verdict" /\ pc'["out"] = "rest" /\ writing' = "verdict"
                 \/ pc["out"] = "verdict" /\ pc'["out"] = "close"
                 \/ pc["out"] = "rest" /\ writing = "verdict" /\ pc'["out"] = "close"
                 \/ pc["out"] = "rest" /\ writing = "close" /\ pc'["out"] = "drain"
                 \/ pc["out"] = "close" /\ pc'["out"] \in {"farewell", "ended"}
                 \/ pc["out"] = "farewell" /\ pc'["out"] = "rest" /\ writing' = "close"
                 \/ pc["out"] = "farewell" /\ pc'["out"] = "drain"
                 \/ pc["out"] = "drain" /\ pc'["out"] = "ended"
           \/ Drain /\ pc' = pc /\ reader'["out"] = "check" /\ result["out"].kind \notin {"close", "fail"}
           \/ Reading("out") /\ pc' = pc /\ pc["out"] = "drain" /\ UNCHANGED <<client, sent>>
<1> USE DEF WriterInv, At, Goto, KeepIO, clientVars
<1>0. pc["out"] # "drain" => reader["out"] = "off"
  BY DEF LifeInv
<1>1. CASE Output \/ Close
  BY <1>0, <1>1 DEF Output, Close, readVars
<1>2. CASE SendVerdict
  <2>1. /\ pc["out"] = "verdict" /\ SendFrame("out", "verdict") /\ "out" \in Writers
        /\ "verdict" \in Own("out") /\ UNCHANGED <<reader, wire, off, size, received, client, sent>>
    BY <1>2 DEF SendVerdict, readVars, Writers, Readers, Own
  <2>2. HeadSent("out", "verdict") \/ NothingSent("out", "verdict")
    BY <2>1, SendCases
  <2>3. \/ pc'["out"] = "rest" /\ writing' = "verdict"
        \/ pc'["out"] = "close"
    BY <2>2, AfterValues DEF HeadSent, NothingSent
  <2>4. QED
    BY <1>0, <2>1, <2>3
<1>3. CASE Farewell
  <2>1. /\ pc["out"] = "farewell" /\ Write("out", "close") /\ "out" \in Writers
        /\ "close" \in Own("out") /\ UNCHANGED <<reader, wire, off, size, received, client, sent>>
    BY <1>3 DEF Farewell, readVars, Writers, Readers, Own
  <2>2. HeadSent("out", "close") \/ NothingSent("out", "close")
    BY <2>1, WriteCases
  <2>3. \/ pc'["out"] = "rest" /\ writing' = "close"
        \/ pc'["out"] = "drain"
    BY <2>2, AfterValues DEF HeadSent, NothingSent
  <2>4. QED
    BY <1>0, <2>1, <2>3
<1>4. CASE WriteRest("out")
  <2>1. /\ Finishing("out") /\ pc["out"] = "rest" /\ "out" \in Writers
        /\ UNCHANGED <<reader, wire, off, size, received, client, sent>>
    BY <1>4, RestCases DEF WriteRest, Finishing, readVars, Writers, Readers
  <2>2. QED
    BY <1>0, <2>1, FinishingMoves
<1>5. CASE Drain
  <2>1. CASE result["out"].kind \in {"close", "fail"}
    BY <1>5, <2>1 DEF Drain
  <2>2. CASE result["out"].kind \notin {"close", "fail"}
    BY <1>5, <2>2 DEF Drain, BeginRead, ReaderInv, Readers
  <2>3. QED
    BY <2>1, <2>2
<1>6. CASE Reading("out")
  <2>1. reader["out"] # "off" /\ pc' = pc /\ UNCHANGED <<client, sent>>
    BY <1>6 DEF Reading, CopyBuffered, SkipBuffered, Poll, Reset, Recv, Settle, KeepRest
  <2>2. QED
    BY <1>0, <1>6, <2>1
<1>7. QED
  BY <1>1, <1>2, <1>3, <1>4, <1>5, <1>6 DEF Out

LEMMA BeatMovesOnly ==
    ASSUME WriterInv, LockInv, Beat
    PROVE  \/ pc["beat"] = "test" /\ pc'["beat"] \in {"ended", "toWait"} /\ (closed => pc'["beat"] = "ended")
           \/ pc["beat"] = "toWait" /\ pc'["beat"] = "waiting"
           \/ pc["beat"] = "wake" /\ pc'["beat"] \in {"ended", "rest", "refused"}
           \/ pc["beat"] = "rest" /\ pc'["beat"] \in {"test", "refused"}
           \/ pc["beat"] = "refused" /\ pc'["beat"] = "ended"
<1> USE DEF WriterInv, At, Goto
<1>1. CASE BeatTest \/ BeatWait \/ BeatRefused
  BY <1>1 DEF BeatTest, BeatWait, BeatRefused
<1>2. CASE BeatWake
  <2>1. CASE SendFrame("beat", "ping")
    <3>1. pc["beat"] = "wake" /\ "beat" \in Writers /\ "ping" \in Own("beat")
      BY <1>2 DEF BeatWake, Writers, Readers, Own
    <3>2. HeadSent("beat", "ping") \/ NothingSent("beat", "ping")
      BY <2>1, <3>1, SendCases
    <3>3. pc'["beat"] \in {"rest", "refused"}
      BY <3>2, AfterValues DEF HeadSent, NothingSent
    <3>4. QED
      BY <3>1, <3>3
  <2>2. CASE ~SendFrame("beat", "ping")
    BY <1>2, <2>2 DEF BeatWake
  <2>3. QED
    BY <2>1, <2>2
<1>3. CASE WriteRest("beat")
  <2>1. Finishing("beat") /\ pc["beat"] = "rest" /\ "beat" \in Writers
    BY <1>3, RestCases DEF WriteRest, Finishing, clientVars, Writers, Readers
  <2>2. QED
    BY <2>1, FinishingMoves
<1>4. QED
  BY <1>1, <1>2, <1>3 DEF Beat

\* Nothing takes active up or closed back.
LEMMA FlagsStay ==
    ASSUME WriterInv, LockInv, [Next]_vars
    PROVE  (~active => ~active') /\ (closed => closed')
<1>1. CASE Quiet \/ Moving
  BY <1>1 DEF Quiet, Moving, MainMoves, OutMoves, BeatMoves
<1>2. CASE \E th \in Writers : Finishing(th) \/ \E k \in Own(th) : Writing(th, k)
  BY <1>2 DEF Finishing, Writing
<1>3. QED
  BY <1>1, <1>2, StepCases

LEMMA LifeStep ==
    ASSUME WriterInv, LockInv, ReaderInv, MainInv, LifeInv, [Next]_vars
    PROVE  LifeInv'
<1>1. pc["out"] = "ended" => pc'["out"] = "ended"
  <2>1. CASE Out
    BY <2>1, OutMovesOnly DEF Drain, At
  <2>2. CASE ~Out
    BY <2>2, OthersLeaveOut
  <2>3. QED
    BY <2>1, <2>2
<1>2. pc["beat"] = "ended" => pc'["beat"] = "ended"
  <2>1. CASE Beat
    BY <2>1, BeatMovesOnly
  <2>2. CASE ~Beat
    BY <2>2, OthersLeaveBeat
  <2>3. QED
    BY <2>1, <2>2
<1>3. /\ pc'["main"] \in Destroying => pc'["out"] = "ended"
      /\ pc'["main"] = "ended" => pc'["beat"] = "ended"
  <2>1. CASE Main
    BY <1>1, <1>2, <2>1, MainMovesOnly DEF LifeInv, Destroying
  <2>2. CASE ~Main
    BY <1>1, <1>2, <2>2, OthersLeaveMain DEF LifeInv
  <2>3. QED
    BY <2>1, <2>2
<1>4. pc'["out"] # "drain" => reader'["out"] = "off"
  <2>1. CASE Out
    BY <2>1, OutMovesOnly DEF Drain, At
  <2>2. CASE ~Out
    BY <2>2, OthersLeaveOut DEF LifeInv
  <2>3. QED
    BY <2>1, <2>2
<1>5. sent' <= MaxUp
  <2>1. CASE Client
    BY <2>1, SocketAssumption DEF Client, ClientSends, ClientCloses, ClientGone, LifeInv, ReaderInv
  <2>2. CASE ~Client
    <3>1. sent' = sent
      <4>1. CASE Out
        <5>1. Drain => sent' = sent
          BY DEF Drain, KeepIO, clientVars
        <5>2. QED
          BY <4>1, <5>1, OutMovesOnly
      <4>2. CASE ~Out
        BY <2>2, <4>2, OthersLeaveOut
      <4>3. QED
        BY <4>1, <4>2
    <3>2. QED
      BY <3>1 DEF LifeInv
  <2>3. QED
    BY <2>1, <2>2
<1>6. QED
  BY <1>3, <1>4, <1>5 DEF LifeInv

LEMMA MainGoesOn ==
    ASSUME WriterInv, LockInv, ReaderInv, MainInv, [Next]_vars
    PROVE  /\ Main /\ ~active => MainLeft' < MainLeft
           /\ ~Main => MainLeft' = MainLeft
           /\ pc["main"] \in Past => pc'["main"] \in Past
<1>1. ReadStage[reader["main"]] \in Nat /\ ReadStage["off"] = 0
  BY DEF ReaderInv, ReaderPlaces, Readers, ReadStage
<1>2. ~Main => pc'["main"] = pc["main"] /\ reader'["main"] = reader["main"]
  BY OthersLeaveMain
<1>3. ASSUME Main, ~active PROVE MainLeft' < MainLeft
  <2>1. MainStage[pc["main"]] \in Nat
    BY DEF WriterInv, MainPlaces, MainStage
  <2>2. CASE Reading("main") /\ pc' = pc /\ ReadStage[reader'["main"]] < ReadStage[reader["main"]]
    <3>1. ReadStage[reader'["main"]] \in Nat
      BY <1>3, ReaderStep DEF ReaderInv, ReaderPlaces, Readers, ReadStage
    <3>2. QED
      BY <1>1, <2>1, <2>2, <3>1 DEF MainLeft
  <2>3. CASE /\ reader'["main"] = reader["main"]
             /\ MainStage[pc'["main"]] \in Nat /\ MainStage[pc'["main"]] < MainStage[pc["main"]]
    BY <1>1, <2>1, <2>3 DEF MainLeft
  <2>4. QED
    BY <1>3, <2>2, <2>3, MainMovesOnly DEF MainStage
<1>4. pc["main"] \in Past => pc'["main"] \in Past
  <2>1. CASE Main
    <3>1. ~Reading("main") \/ pc' = pc
      BY DEF Reading, CopyBuffered, SkipBuffered, Poll, Reset, Recv, Settle, KeepRest
    <3>2. QED
      BY <2>1, <3>1, MainMovesOnly DEF Past
  <2>2. QED
    BY <1>2, <2>1
<1>5. QED
  BY <1>2, <1>3, <1>4 DEF MainLeft

LEMMA BeatGoesOn ==
    ASSUME WriterInv, LockInv, closed, [Next]_vars
    PROVE  (Beat => BeatLeft' < BeatLeft) /\ (~Beat => BeatLeft' <= BeatLeft)
<1>1. BeatStage[pc["beat"]] \in Nat
  BY DEF WriterInv, BeatPlaces, BeatStage
<1>2. Beat => BeatLeft' < BeatLeft
  BY BeatMovesOnly DEF BeatLeft, BeatStage
<1>3. ASSUME ~Beat PROVE BeatLeft' <= BeatLeft
  <2>1. CASE pc'["beat"] = pc["beat"]
    BY <1>1, <2>1 DEF BeatLeft
  <2>2. CASE pc["beat"] = "waiting" /\ pc'["beat"] = "wake"
    BY <2>2 DEF BeatLeft, BeatStage
  <2>3. QED
    BY <1>3, <2>1, <2>2, OthersLeaveBeat
<1>4. QED
  BY <1>2, <1>3

LEMMA PendingTypes ==
    ASSUME ReaderInv, LifeInv
    PROVE  /\ Len(wire) \in Nat /\ ToCome \in Nat /\ received["out"] \in Nat /\ Buffered \in Nat
           /\ Pending \in Nat
<1>1. Len(wire) \in Nat /\ received["out"] \in Nat /\ Buffered \in Nat
  BY DEF ReaderInv, Readers, Buffered
<1>2. ToCome \in Nat
  BY SocketAssumption DEF ReaderInv, LifeInv, ToCome
<1>3. QED
  BY <1>1, <1>2 DEF Pending

LEMMA StageTypes ==
    ASSUME WriterInv, ReaderInv
    PROVE  DrainStage \in 1 .. 9 /\ OutStage \in 0 .. 16
<1>1. reader["out"] \in ReaderPlaces /\ pc["out"] \in OutPlaces
  BY DEF ReaderInv, WriterInv, Readers
<1>2. DrainStage \in 1 .. 9
  BY <1>1 DEF DrainStage, ReaderPlaces, ReadStage
<1>3. QED
  BY <1>1, <1>2 DEF OutStage, OutPlaces

LEMMA TypesAfter ==
    ASSUME WriterInv', ReaderInv', LifeInv'
    PROVE  /\ Len(wire') \in Nat /\ ToCome' \in Nat /\ received'["out"] \in Nat
           /\ Buffered' \in Nat /\ Pending' \in Nat
           /\ DrainStage' \in 1 .. 9 /\ OutStage' \in 0 .. 16
<1>0. /\ wire' \in Seq(Frames) /\ received' \in [Readers -> Nat] /\ off' \in Nat
      /\ size' \in 0 .. Len(buf') /\ buf' \in Seq(Frames) /\ sent' \in Nat /\ sent' <= MaxUp
  BY DEF ReaderInv, LifeInv
<1>1. Len(wire') \in Nat /\ received'["out"] \in Nat /\ Buffered' \in Nat
  <2>1. Len(wire') \in Nat /\ Len(buf') \in Nat /\ received'["out"] \in Nat
    BY <1>0 DEF Readers
  <2>2. size' \in Nat
    BY <1>0, <2>1
  <2>3. CASE off' < size'
    <3>1. Buffered' = size' - off'
      BY <2>3 DEF Buffered
    <3>2. \A a, b \in Nat : a < b => b - a \in Nat
      OBVIOUS
    <3>3. off' \in Nat
      BY <1>0
    <3>4. size' - off' \in Nat
      BY <2>2, <2>3, <3>2, <3>3
    <3>5. QED
      BY <2>1, <3>1, <3>4
  <2>4. CASE ~(off' < size')
    <3>1. Buffered' = 0
      BY <2>4 DEF Buffered
    <3>2. QED
      BY <2>1, <3>1
  <2>5. QED
    BY <2>3, <2>4
<1>2. ToCome' \in Nat
  <2>1. CASE client' = "open"
    <3>1. ToCome' = 1 + MaxUp - sent'
      BY <2>1 DEF ToCome
    <3>2. \A a, b \in Nat : b <= a => 1 + a - b \in Nat
      OBVIOUS
    <3>3. sent' \in Nat /\ sent' <= MaxUp /\ MaxUp \in Nat
      BY <1>0, SocketAssumption
    <3>4. 1 + MaxUp - sent' \in Nat
      BY <3>2, <3>3
    <3>5. QED
      BY <3>1, <3>4
  <2>2. CASE client' # "open"
    BY <2>2 DEF ToCome
  <2>3. QED
    BY <2>1, <2>2
<1>3. reader'["out"] \in ReaderPlaces /\ pc'["out"] \in OutPlaces
  BY DEF ReaderInv, WriterInv, Readers
<1>4. DrainStage' \in 1 .. 9
  BY <1>3 DEF DrainStage, ReaderPlaces, ReadStage
<1>5. OutStage' \in 0 .. 16
  BY <1>3, <1>4 DEF OutStage, OutPlaces
<1>6. QED
  BY <1>1, <1>2, <1>4, <1>5 DEF Pending

LEMMA Weighted ==
    /\ \A a \in Nat, c \in 0 .. 16 : 10 * a + c \in Nat
    /\ \A a, b \in Nat, c, d \in 0 .. 16 : a <= b /\ c < d => 10 * a + c < 10 * b + d
    /\ \A a, b \in Nat, c \in 0 .. 16 : a <= b => 10 * a + c <= 10 * b + c
    /\ \A a, b \in Nat, c, d \in 1 .. 9 : a < b => 10 * a + c < 10 * b + d
BY SMTT(30)

\* Each read of close() takes a frame or fails.
LEMMA DrainGoesOn ==
    ASSUME WriterInv, LockInv, ReaderInv, MainInv, LifeInv, pc["out"] = "drain", pc' = pc, [Next]_vars,
           Reading("out"), UNCHANGED <<client, sent>>
    PROVE  OutLeft' < OutLeft
<1>1. /\ Len(wire) \in Nat /\ ToCome \in Nat /\ received["out"] \in Nat /\ Buffered \in Nat
  BY PendingTypes
<1>2. ToCome' = ToCome
  BY DEF ToCome
<1>3. ReaderInv' /\ WriterInv' /\ LifeInv'
  BY ReaderStep, WriterStep, LifeStep
<1>4. DrainStage \in 1 .. 9 /\ DrainStage' \in 1 .. 9
  BY <1>3, StageTypes, TypesAfter
<1>5. OutStage = DrainStage /\ OutStage' = DrainStage'
  BY DEF OutStage
<1>6. received'["out"] \in Nat /\ Len(wire') \in Nat /\ Buffered' \in Nat
  BY <1>3, TypesAfter
<1> DEFINE Sum == Len(wire) + received["out"] + Buffered
<1>7. \/ Sum' < Sum
      \/ Sum' <= Sum /\ DrainStage' < DrainStage
  <2> USE DEF ReaderInv, Readers
  <2>1. CASE CopyBuffered("out")
    <3>1. /\ UNCHANGED <<wire, received, off, size>> /\ reader["out"] = "check"
          /\ \/ reader'["out"] = "copied" /\ off < size
             \/ reader'["out"] = "poll"
      BY <2>1 DEF CopyBuffered
    <3>2. Sum' <= Sum
      BY <1>1, <3>1 DEF Buffered
    <3>3. DrainStage' < DrainStage
      BY <3>1 DEF DrainStage, ReadStage
    <3>4. QED
      BY <3>2, <3>3
  <2>2. CASE SkipBuffered("out")
    <3>1. /\ UNCHANGED <<wire, received, size>> /\ reader["out"] = "copied" /\ reader'["out"] = "off"
          /\ off' = off + 1
      BY <2>2 DEF SkipBuffered
    <3>2. CASE off < size
      <4>1. Buffered' < Buffered
        BY <3>1, <3>2 DEF Buffered
      <4>2. QED
        BY <1>1, <1>6, <3>1, <4>1
    <3>3. CASE ~(off < size)
      <4>1. Buffered' = Buffered
        BY <3>1, <3>3 DEF Buffered
      <4>2. DrainStage = 9 /\ DrainStage' \in {1, 8}
        BY <3>1, <3>3 DEF DrainStage
      <4>3. QED
        BY <1>1, <3>1, <4>1, <4>2
    <3>4. QED
      BY <3>2, <3>3
  <2>3. CASE Poll("out")
    <3>1. /\ UNCHANGED <<wire, received, off, size>> /\ reader["out"] = "poll"
          /\ \/ reader'["out"] = "reset"
             \/ reader'["out"] = "off" /\ result'["out"] = Fail
      BY <2>3 DEF Poll, ReadFails
    <3>2. Sum' <= Sum
      BY <1>1, <3>1 DEF Buffered
    <3>3. DrainStage' < DrainStage
      BY <3>1 DEF DrainStage, ReadStage, Fail
    <3>4. QED
      BY <3>2, <3>3
  <2>4. CASE Reset("out")
    <3>1. /\ UNCHANGED <<wire, received>> /\ reader["out"] = "reset" /\ reader'["out"] = "recv"
          /\ off' = 0 /\ size' = 0
      BY <2>4 DEF Reset
    <3>2. Buffered' = 0
      BY <3>1 DEF Buffered
    <3>3. Sum' <= Sum
      BY <1>1, <3>1, <3>2
    <3>4. DrainStage' < DrainStage
      BY <3>1 DEF DrainStage, ReadStage
    <3>5. QED
      BY <3>3, <3>4
  <2>5. CASE Recv("out")
    <3>1. CASE wire # <<>>
      <4>1. /\ wire' = <<>> /\ received'["out"] = Len(wire) /\ UNCHANGED <<off, size>>
            /\ reader["out"] = "recv" /\ reader'["out"] = "settle"
        BY <2>5, <3>1 DEF Recv
      <4>2. Len(wire') = 0 /\ Buffered' = Buffered
        BY <4>1 DEF Buffered
      <4>3. Sum' <= Sum
        BY <1>1, <4>1, <4>2
      <4>4. DrainStage' < DrainStage
        BY <4>1 DEF DrainStage, ReadStage
      <4>5. QED
        BY <4>3, <4>4
    <3>2. CASE wire = <<>>
      <4>1. /\ UNCHANGED <<wire, received, off, size>> /\ reader["out"] = "recv"
            /\ reader'["out"] = "off" /\ result'["out"] = Fail
        BY <2>5, <3>2 DEF Recv, ReadFails
      <4>2. Sum' <= Sum
        BY <1>1, <4>1 DEF Buffered
      <4>3. DrainStage' < DrainStage
        BY <4>1 DEF DrainStage, ReadStage, Fail
      <4>4. QED
        BY <4>2, <4>3
    <3>3. QED
      BY <3>1, <3>2
  <2>6. CASE Settle("out")
    <3>1. received["out"] > 0 /\ received'["out"] = 0 /\ wire' = wire
      BY <2>6 DEF Settle
    <3>2. CASE received["out"] > 1
      <4>1. off' = 1 /\ size' = received["out"]
        BY <2>6, <3>2 DEF Settle
      <4>2. Buffered' = received["out"] - 1
        BY <1>1, <3>2, <4>1 DEF Buffered
      <4>3. QED
        BY <1>1, <3>1, <4>2
    <3>3. CASE ~(received["out"] > 1)
      <4>1. Buffered' = Buffered
        BY <2>6, <3>3 DEF Settle, Buffered
      <4>2. QED
        BY <1>1, <3>1, <4>1
    <3>4. QED
      BY <3>2, <3>3
  <2>7. QED
    BY <2>1, <2>2, <2>3, <2>4, <2>5, <2>6 DEF Reading
<1>8. Pending = Sum + ToCome /\ Pending' = Sum' + ToCome
  BY <1>1, <1>2, <1>6 DEF Pending
<1>9. Pending \in Nat /\ Pending' \in Nat
  BY <1>3, PendingTypes, TypesAfter
<1>10. \/ Pending' < Pending
       \/ Pending' <= Pending /\ DrainStage' < DrainStage
  <2>1. Sum \in Nat /\ Sum' \in Nat /\ ToCome \in Nat
    BY <1>1, <1>6
  <2>2. /\ \A a, b, c \in Nat : a < b => a + c < b + c
        /\ \A a, b, c \in Nat : a <= b => a + c <= b + c
    OBVIOUS
  <2> HIDE DEF Sum
  <2>3. QED
    BY <1>7, <1>8, <2>1, <2>2
<1> HIDE DEF Sum
<1>11. DrainStage \in 0 .. 16 /\ DrainStage' \in 0 .. 16
  BY <1>4
<1>12. 10 * Pending' + DrainStage' < 10 * Pending + DrainStage
  BY <1>4, <1>9, <1>10, <1>11, Weighted
<1>13. QED
  BY <1>5, <1>12 DEF OutLeft

LEMMA OutGoesOn ==
    ASSUME WriterInv, LockInv, ReaderInv, MainInv, LifeInv, pc["main"] \in Past, [Next]_vars
    PROVE  (Out => OutLeft' < OutLeft) /\ (~Out => OutLeft' <= OutLeft)
<1>1. Pending \in Nat /\ OutStage \in 0 .. 16 /\ DrainStage \in 1 .. 9
  BY PendingTypes, StageTypes
<1>2. WriterInv' /\ ReaderInv' /\ LifeInv'
  BY WriterStep, ReaderStep, LifeStep
<1>3. Pending' \in Nat /\ OutStage' \in 0 .. 16 /\ DrainStage' \in 1 .. 9
  BY <1>2, TypesAfter
<1>4. CASE Out /\ Reading("out") /\ pc' = pc /\ pc["out"] = "drain" /\ UNCHANGED <<client, sent>>
  BY <1>4, DrainGoesOn
<1>5. CASE Drain /\ pc' = pc /\ reader'["out"] = "check" /\ result["out"].kind \notin {"close", "fail"}
  <2>1. /\ reader["out"] = "off" /\ pc["out"] = "drain"
        /\ UNCHANGED <<wire, off, size, received, client, sent>>
    BY <1>5 DEF Drain, At, KeepIO, clientVars
  <2>2. Pending' = Pending
    BY <2>1 DEF Pending, ToCome, Buffered
  <2>3. OutStage' = 7 /\ OutStage = 8
    BY <1>5, <2>1 DEF OutStage, DrainStage, ReadStage
  <2>4. OutLeft' < OutLeft
    BY <1>1, <2>2, <2>3 DEF OutLeft
  <2>5. QED
    BY <1>5, <2>4 DEF Out
<1>6. ASSUME Out, reader'["out"] = "off", reader["out"] = "off",
             UNCHANGED <<wire, off, size, received, client, sent>>,
              \/ pc["out"] = "run" /\ pc'["out"] \in {"verdict", "ended"}
              \/ pc["out"] = "verdict" /\ pc'["out"] = "rest" /\ writing' = "verdict"
              \/ pc["out"] = "verdict" /\ pc'["out"] = "close"
              \/ pc["out"] = "rest" /\ writing = "verdict" /\ pc'["out"] = "close"
              \/ pc["out"] = "rest" /\ writing = "close" /\ pc'["out"] = "drain"
              \/ pc["out"] = "close" /\ pc'["out"] \in {"farewell", "ended"}
              \/ pc["out"] = "farewell" /\ pc'["out"] = "rest" /\ writing' = "close"
              \/ pc["out"] = "farewell" /\ pc'["out"] = "drain"
              \/ pc["out"] = "drain" /\ pc'["out"] = "ended"
      PROVE  OutLeft' < OutLeft
  <2>1. Pending' = Pending
    BY <1>6 DEF Pending, ToCome, Buffered
  <2>2. OutStage' < OutStage
    <3>1. CASE pc'["out"] = "drain"
      BY <1>3, <1>6, <3>1 DEF OutStage
    <3>2. CASE pc["out"] = "drain"
      BY <1>1, <1>6, <3>2 DEF OutStage
    <3>3. CASE pc["out"] # "drain" /\ pc'["out"] # "drain"
      BY <1>6, <3>3 DEF OutStage
    <3>4. QED
      BY <3>1, <3>2, <3>3
  <2>3. Pending <= Pending
    BY <1>1
  <2>4. 10 * Pending + OutStage' < 10 * Pending + OutStage
    BY <1>1, <1>3, <2>2, <2>3, Weighted
  <2>5. QED
    BY <2>1, <2>4 DEF OutLeft
<1>7. Out => OutLeft' < OutLeft
  BY <1>4, <1>5, <1>6, OutMovesOnly
<1>8. ASSUME ~Out PROVE OutLeft' <= OutLeft
  <2>1. ~Reading("main")
    BY DEF MainInv, Past, Reading, CopyBuffered, SkipBuffered, Poll, Reset, Recv, Settle
  <2>2. /\ pc'["out"] = pc["out"] /\ reader'["out"] = reader["out"]
        /\ result'["out"] = result["out"] /\ received'["out"] = received["out"]
        /\ pc["out"] = "rest" => writing' = writing
        /\ off' = off /\ size' = size
        /\ ~Client => UNCHANGED <<client, sent, wire>>
    BY <1>8, <2>1, OthersLeaveOut
  <2>3. OutStage' = OutStage
    BY <2>2 DEF OutStage, DrainStage
  <2>4. Buffered' = Buffered /\ Buffered \in Nat
    BY <2>2, PendingTypes DEF Buffered
  <2>5. Len(wire') + ToCome' <= Len(wire) + ToCome
    <3>1. CASE ~Client
      BY <2>2, <3>1, PendingTypes DEF ToCome
    <3>2. CASE ClientGone
      BY <3>2, PendingTypes DEF ClientGone, ToCome
    <3>3. CASE ClientCloses
      <4>1. Len(wire') = Len(wire) + 1
        BY <3>3 DEF ClientCloses, ReaderInv, Frames, UpKinds
      <4>2. ToCome = 1 + MaxUp - sent /\ ToCome' = 0 /\ MaxUp - sent \in Nat
        BY <3>3, SocketAssumption DEF ClientCloses, ToCome, LifeInv, ReaderInv
      <4>3. QED
        BY <4>1, <4>2, PendingTypes
    <3>4. CASE \E k \in {"text", "ping"} : ClientSends(k)
      <4>1. Len(wire') = Len(wire) + 1
        BY <3>4 DEF ClientSends, ReaderInv, Frames, UpKinds
      <4>2. ToCome = 1 + MaxUp - sent /\ ToCome' = ToCome - 1
        BY <3>4, SocketAssumption DEF ClientSends, ToCome, LifeInv, ReaderInv
      <4>3. QED
        BY <4>1, <4>2, PendingTypes
    <3>5. QED
      BY <3>1, <3>2, <3>3, <3>4 DEF Client
  <2>6. Pending' <= Pending
    <3>1. Len(wire') \in Nat /\ ToCome' \in Nat
      BY <1>2, TypesAfter
    <3>2. QED
      BY <2>2, <2>4, <2>5, <3>1, PendingTypes DEF Pending
  <2>7. 10 * Pending' + OutStage <= 10 * Pending + OutStage
    BY <1>1, <1>3, <2>6, Weighted
  <2>8. QED
    BY <2>3, <2>7 DEF OutLeft
<1>9. QED
  BY <1>7, <1>8

LEMMA LifeInvariant == Spec => []LifeInv
<1>1. Init => LifeInv
  BY SocketAssumption DEF Init, LifeInv, Destroying, Readers
<1>2. IInv /\ LifeInv /\ [Next]_vars => LifeInv'
  BY LifeStep DEF IInv
<1>3. QED
  BY <1>1, <1>2, Invariant, PTL DEF Spec

\* The WebSocket is on main's stack and used by the two other threads: when main destroys
\* it, the output thread has returned and is in no read, and when main returns the
\* heartbeat has returned and nobody holds the mutex.
THEOREM NobodyOutlives ==
    Spec => [](/\ pc["main"] \in Destroying => pc["out"] = "ended" /\ reader["out"] = "off"
               /\ pc["main"] = "ended" => pc["beat"] = "ended" /\ wlock = Nobody)
<1>1. IInv /\ LifeInv => /\ pc["main"] \in Destroying => pc["out"] = "ended" /\ reader["out"] = "off"
                         /\ pc["main"] = "ended" => pc["beat"] = "ended" /\ wlock = Nobody
  BY DEF IInv, WriterInv, LockInv, LifeInv, Destroying, Writers, Readers
<1>2. QED
  BY <1>1, Invariant, LifeInvariant, PTL

\* A session that ends ends in bounded time: once the connection is down main has at most
\* 14 steps; once main waits to join, the output thread a number fixed by the frames
\* that may still come, whatever the two readers did to the buffer; once the
\* socket is closed the heartbeat at most five.  No other step, the client's included,
\* takes a thread back.
THEOREM TeardownIsBounded ==
    Spec => /\ [](MainLeft \in 0 .. 14 /\ OutLeft \in Nat /\ BeatLeft \in 0 .. 5)
            /\ [][/\ ~active => /\ ~active'
                                /\ IF Main THEN MainLeft' < MainLeft ELSE MainLeft' = MainLeft
                  /\ pc["main"] \in Past => /\ pc'["main"] \in Past
                                            /\ IF Out THEN OutLeft' < OutLeft
                                                      ELSE OutLeft' <= OutLeft
                  /\ closed => /\ closed'
                               /\ IF Beat THEN BeatLeft' < BeatLeft
                                          ELSE BeatLeft' <= BeatLeft]_vars
<1> DEFINE Bounds == MainLeft \in 0 .. 14 /\ OutLeft \in Nat /\ BeatLeft \in 0 .. 5
           Nearer == /\ ~active => /\ ~active'
                                   /\ IF Main THEN MainLeft' < MainLeft ELSE MainLeft' = MainLeft
                     /\ pc["main"] \in Past => /\ pc'["main"] \in Past
                                               /\ IF Out THEN OutLeft' < OutLeft
                                                         ELSE OutLeft' <= OutLeft
                     /\ closed => /\ closed'
                                  /\ IF Beat THEN BeatLeft' < BeatLeft
                                             ELSE BeatLeft' <= BeatLeft
           Facts == IInv /\ LifeInv
<1>1. ASSUME Facts PROVE Bounds
  <2>1. WriterInv /\ ReaderInv /\ MainInv /\ LifeInv
    BY <1>1 DEF IInv
  <2>2. BeatLeft \in 0 .. 5
    BY <2>1 DEF BeatLeft, BeatStage, WriterInv, BeatPlaces
  <2>3. MainLeft \in 0 .. 14
    <3>1. ReadStage[reader["main"]] \in 0 .. 6 /\ ReadStage["off"] = 0
      BY <2>1 DEF ReaderInv, ReaderPlaces, Readers, ReadStage
    <3>2. MainStage[pc["main"]] \in 0 .. 8
      BY <2>1 DEF WriterInv, MainPlaces, MainStage
    <3>3. QED
      BY <3>1, <3>2 DEF MainLeft
  <2>4. OutLeft \in Nat
    <3>1. Pending \in Nat /\ OutStage \in 0 .. 16
      BY <2>1, PendingTypes, StageTypes
    <3>2. QED
      BY <3>1, Weighted DEF OutLeft
  <2>5. QED
    BY <2>2, <2>3, <2>4
<1>2. Facts /\ [Next]_vars => [Nearer]_vars
  BY FlagsStay, MainGoesOn, OutGoesOn, BeatGoesOn DEF IInv
<1> HIDE DEF Bounds, Nearer, Facts
<1>3. Spec => []Facts
  BY Invariant, LifeInvariant, PTL DEF Facts
<1>4. Spec => []Bounds /\ [][Nearer]_vars
  BY <1>1, <1>2, <1>3, PTL DEF Spec
<1>5. QED
  BY <1>4 DEF Bounds, Nearer
==============================================================================
