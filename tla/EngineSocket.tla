----------------------------- MODULE EngineSocket -----------------------------
(***************************************************************************)
(* The WebSocket of an interactive run, as the engine's three threads use  *)
(* it (httplib.h, ws::WebSocket and SocketStream): "main" reads the        *)
(* client's frames and destroys the object, "out" sends and at the end     *)
(* closes, "beat" pings every 30 s.  Writes are serialised by write_mutex_ *)
(* and closed_ is atomic, but SocketStream's read buffer is shared by the  *)
(* reader and by close(), which waits for the peer's Close frame, without  *)
(* a lock: each access to it is a step.                                    *)
(*                                                                         *)
(* A frame is written in two parts, head (opcode, length) and payload, and *)
(* read as one piece, the unit of the buffer's offsets here.  The client   *)
(* is the orchestrator's websockets library, which answers pings           *)
(* and Close frames and fragments nothing.  Its pongs are left out:        *)
(* max_missed_pongs_ is 0 and nothing looks at unacked_pings_.             *)
(***************************************************************************)
EXTENDS Naturals, Sequences

CONSTANTS
    MaxUp,      \* frames the client sends before its Close, at most
    MaxPings    \* pings kept by the model

ASSUME SocketAssumption == MaxUp \in Nat /\ MaxPings \in Nat

Readers == {"main", "out"}
Writers == Readers \cup {"beat"}
UpKinds == {"text", "ping", "close"}
DownKinds == {"verdict", "ping", "pong", "close"}

VARIABLES
    pc,         \* place of each thread
    active,     \* main.cpp's connection_active
    closed,     \* closed_
    wlock,      \* who holds write_mutex_
    writing,    \* the frame its holder writes
    reader,     \* place of each thread in SocketStream::read
    result,     \* the frame read_websocket_frame returned, or its failure
    wire,       \* frames on the way from the client
    buf, off, size,     \* read_buff_, read_buff_off_, read_buff_content_size_
    received,   \* recv's result n, local to each read
    client,     \* "open", "closing" (it sent Close) or "gone"
    sent,       \* frames the client has sent
    stalled,    \* has it once stopped reading for 5 s?
    seen,       \* frames the client has received from the first Close on
    halfway,    \* has it received a head without its payload?
    torn,       \* has it received a head where a payload was due?
    pings,      \* pings written so far
    heard,      \* the last of the client's frames that main was given
    mangled     \* was main given anything but the client's next frame?

readVars == <<reader, result, buf, off, size, received>>
writeVars == <<wlock, writing, seen, halfway, torn, pings, stalled>>
clientVars == <<client, sent>>
heardVars == <<heard, mangled>>
vars == <<pc, active, closed, writeVars, readVars, wire, clientVars, heardVars>>

None == [kind |-> "none", id |-> 0]
Fail == [kind |-> "fail", id |-> 0]
Nobody == "nobody"

Init ==
    /\ pc = [main |-> "loop", out |-> "run", beat |-> "test"]
    /\ active = TRUE /\ closed = FALSE
    /\ wlock = Nobody /\ writing = "none"
    /\ reader = [r \in Readers |-> "off"]
    /\ result = [r \in Readers |-> None]
    /\ wire = <<>> /\ buf = <<>> /\ off = 0 /\ size = 0
    /\ received = [r \in Readers |-> 0]
    /\ client = "open" /\ sent = 0 /\ stalled = FALSE
    /\ seen = <<>> /\ halfway = FALSE /\ torn = FALSE
    /\ pings = 0 /\ heard = 0 /\ mangled = FALSE

At(th, here) == pc[th] = here
Goto(th, there) == pc' = [pc EXCEPT ![th] = there]

-----------------------------------------------------------------------------
(* Writing a frame: write_websocket_frame under write_mutex_ *)

\* Where a thread goes on after its frame, written or not.
After(th, k, ok) ==
    CASE th = "main" /\ k = "pong" -> "loop"
      [] th = "main" /\ k = "close" -> "failed"
      [] th = "out" /\ k = "verdict" -> "close"
      [] th = "out" /\ k = "close" -> "drain"
      [] th = "beat" -> IF ok THEN "test" ELSE "refused"

\* strm.write fails once the peer is gone, or when it reads nothing for 5 s, which
\* the model lets happen once.
WriteFails(th, k) ==
    /\ client = "gone" \/ ~stalled
    /\ stalled' = (stalled \/ client # "gone")
    /\ \E ok \in BOOLEAN : (ok => writing = k) /\ Goto(th, After(th, k, ok))
    /\ wlock' = Nobody /\ writing' = "none"
    /\ UNCHANGED <<seen, halfway, torn, pings>>

HeadWritten(th, k) ==
    /\ client # "gone"
    /\ torn' = (torn \/ halfway) /\ halfway' = TRUE
    /\ wlock' = th /\ writing' = k /\ Goto(th, "rest")
    /\ pings' = IF k = "ping" THEN pings + 1 ELSE pings
    /\ UNCHANGED <<seen, stalled>>

\* Mutant: frames are written without the mutex.
WriteUnlocked(th, k) == HeadWritten(th, k)

\* A failed head leaves nothing behind, ...
Write(th, k) == wlock = Nobody /\ (HeadWritten(th, k) \/ WriteFails(th, k))

\* ... a rest that fails, or that send() wrote in part and called written, half a frame.
WriteRest(th) ==
    /\ At(th, "rest")
    /\ \/ /\ client # "gone"
          /\ seen' = IF seen # <<>> \/ writing = "close" THEN Append(seen, writing) ELSE seen
          /\ halfway' = FALSE
          /\ wlock' = Nobody /\ writing' = "none" /\ Goto(th, After(th, writing, TRUE))
          /\ UNCHANGED <<torn, stalled, pings>>
       \/ WriteFails(th, writing)
    /\ UNCHANGED <<active, closed, readVars, wire, client, sent, heardVars>>

-----------------------------------------------------------------------------
(* Reading a frame: read_websocket_frame over SocketStream::read *)

BeginRead(r) == reader' = [reader EXCEPT ![r] = "check"]

\* The frame a reader is given.  While the output thread closes, two threads read, and
\* one that takes bytes of a frame the other has begun finds nonsense: a check refuses
\* it or it passes for a frame.
Give(r, f) == \E g \in IF active THEN {f} ELSE {f, Fail} : result' = [result EXCEPT ![r] = g]

ReadFails(r) ==
    /\ result' = [result EXCEPT ![r] = Fail]
    /\ reader' = [reader EXCEPT ![r] = "off"]

KeepRest == UNCHANGED <<pc, active, closed, writeVars, clientVars, heardVars>>

\* What is left in the buffer is copied first ...
CopyBuffered(r) ==
    /\ reader[r] = "check"
    /\ IF off < size
       THEN Give(r, buf[off + 1]) /\ reader' = [reader EXCEPT ![r] = "copied"]
       ELSE reader' = [reader EXCEPT ![r] = "poll"] /\ UNCHANGED result
    /\ UNCHANGED <<buf, off, size, received, wire>> /\ KeepRest

\* ... and skipped then.
SkipBuffered(r) ==
    /\ reader[r] = "copied" /\ reader' = [reader EXCEPT ![r] = "off"]
    /\ off' = off + 1
    /\ UNCHANGED <<result, buf, size, received, wire>> /\ KeepRest

\* Mutant: the wait has no timeout.
PollForever(r) ==
    /\ reader[r] = "poll" /\ (wire # <<>> \/ client = "gone")
    /\ reader' = [reader EXCEPT ![r] = "reset"]
    /\ UNCHANGED <<result, buf, off, size, received, wire>> /\ KeepRest

\* wait_readable: 300 s in read(), 5 s in close().
Poll(r) ==
    /\ reader[r] = "poll"
    /\ \/ /\ wire # <<>> \/ client = "gone"
          /\ reader' = [reader EXCEPT ![r] = "reset"] /\ UNCHANGED result
       \/ wire = <<>> /\ client # "gone" /\ ReadFails(r)
    /\ UNCHANGED <<buf, off, size, received, wire>> /\ KeepRest

Reset(r) ==
    /\ reader[r] = "reset" /\ reader' = [reader EXCEPT ![r] = "recv"]
    /\ off' = 0 /\ size' = 0
    /\ UNCHANGED <<result, buf, received, wire>> /\ KeepRest

\* recv takes what there is; with nothing it fails after 5 s, or at once at the end.
Recv(r) ==
    /\ reader[r] = "recv"
    /\ IF wire # <<>>
       THEN /\ buf' = wire \o SubSeq(buf, Len(wire) + 1, Len(buf)) /\ wire' = <<>>
            /\ received' = [received EXCEPT ![r] = Len(wire)]
            /\ reader' = [reader EXCEPT ![r] = "settle"] /\ UNCHANGED result
       ELSE ReadFails(r) /\ UNCHANGED <<buf, wire, received>>
    /\ UNCHANGED <<off, size>> /\ KeepRest

\* Mutant: the first frame stays in the buffer.
SettleTwice(r) ==
    /\ reader[r] = "settle"
    /\ IF received[r] > 1 THEN off' = 0 /\ size' = received[r] ELSE UNCHANGED <<off, size>>
    /\ Give(r, buf[1]) /\ reader' = [reader EXCEPT ![r] = "off"]
    /\ received' = [received EXCEPT ![r] = 0]
    /\ UNCHANGED <<buf, wire>> /\ KeepRest

\* The first frame is returned and the others are left for the next read.
Settle(r) ==
    /\ reader[r] = "settle"
    /\ IF received[r] > 1 THEN off' = 1 /\ size' = received[r] ELSE UNCHANGED <<off, size>>
    /\ Give(r, buf[1]) /\ reader' = [reader EXCEPT ![r] = "off"]
    /\ received' = [received EXCEPT ![r] = 0]
    /\ UNCHANGED <<buf, wire>> /\ KeepRest

Reading(r) ==
    CopyBuffered(r) \/ SkipBuffered(r) \/ Poll(r) \/ Reset(r) \/ Recv(r) \/ Settle(r)

-----------------------------------------------------------------------------
(* The main thread: WebSocket::read in main.cpp's loop, and the destructor *)

KeepIO == UNCHANGED <<wire, buf, off, size, received, clientVars>>

\* while (connection_active) of main.cpp and while (!closed_) of read().
ReadLoop ==
    /\ At("main", "loop")
    /\ IF ~active THEN Goto("main", "join") /\ UNCHANGED reader
       ELSE IF closed THEN Goto("main", "failed") /\ UNCHANGED reader
       ELSE Goto("main", "reading") /\ BeginRead("main")
    /\ UNCHANGED <<active, closed, writeVars, result, heardVars>> /\ KeepIO

HandlePing ==
    /\ result["main"].kind = "ping"
    /\ Write("main", "pong") /\ UNCHANGED closed

\* Input goes to the program's stdin; a text may also only close it.
HandleText ==
    /\ result["main"].kind = "text"
    /\ Goto("main", "feed") \/ Goto("main", "loop")
    /\ UNCHANGED <<closed, writeVars>>

\* Mutant: the second closer writes a Close frame as well.
HandleCloseTwice ==
    /\ result["main"].kind = "close" /\ Goto("main", "echo")
    /\ closed' = TRUE /\ UNCHANGED writeVars

\* closed_.exchange(true): only the first closer writes a Close frame.
HandleClose ==
    /\ result["main"].kind = "close"
    /\ Goto("main", IF closed THEN "failed" ELSE "echo")
    /\ closed' = TRUE /\ UNCHANGED writeVars

HandleFail ==
    /\ result["main"].kind = "fail"
    /\ Goto("main", "failed") /\ closed' = TRUE /\ UNCHANGED writeVars

HandleFrame ==
    /\ At("main", "reading") /\ reader["main"] = "off"
    /\ HandlePing \/ HandleText \/ HandleClose \/ HandleFail
    /\ LET id == result["main"].id IN
       IF result["main"].kind = "fail" THEN UNCHANGED heardVars
       ELSE IF id = heard + 1 THEN heard' = id /\ UNCHANGED mangled
       ELSE mangled' = TRUE /\ UNCHANGED heard
    /\ result' = [result EXCEPT !["main"] = None]
    /\ UNCHANGED <<active, reader>> /\ KeepIO

\* session.write_stdin returns when the program has read enough, or is gone.
Feed ==
    /\ At("main", "feed") /\ Goto("main", "loop")
    /\ UNCHANGED <<active, closed, writeVars, heardVars, reader, result>> /\ KeepIO

\* The echo of the client's Close.
Echo ==
    /\ At("main", "echo") /\ Write("main", "close")
    /\ UNCHANGED <<active, closed, readVars, wire, clientVars, heardVars>>

\* read() returned Fail: the handler ends the run and joins the output thread ...
EndRun ==
    /\ At("main", "failed") /\ Goto("main", "join") /\ active' = FALSE
    /\ UNCHANGED <<closed, writeVars, heardVars, reader, result>> /\ KeepIO

Join ==
    /\ At("main", "join") /\ At("out", "ended") /\ Goto("main", "destroy")
    /\ UNCHANGED <<active, closed, writeVars, heardVars, reader, result>> /\ KeepIO

\* ... and ~WebSocket closes under ping_mutex_, which the heartbeat keeps from its
\* test to its wait, notifies it and joins it.
DestroyUnlocked ==      \* Mutant: closed_ is set without ping_mutex_.
    /\ At("main", "destroy") /\ Goto("main", "notify") /\ closed' = TRUE
    /\ UNCHANGED <<active, writeVars, heardVars, reader, result>> /\ KeepIO

Destroy ==
    /\ At("main", "destroy") /\ ~At("beat", "toWait")
    /\ Goto("main", "notify") /\ closed' = TRUE
    /\ UNCHANGED <<active, writeVars, heardVars, reader, result>> /\ KeepIO

Notified == IF At("beat", "waiting") THEN "wake" ELSE pc.beat

Notify ==
    /\ At("main", "notify")
    /\ pc' = [pc EXCEPT !.main = "joinBeat", !.beat = Notified]
    /\ UNCHANGED <<active, closed, writeVars, heardVars, reader, result>> /\ KeepIO

JoinBeat ==
    /\ At("main", "joinBeat") /\ At("beat", "ended") /\ Goto("main", "ended")
    /\ UNCHANGED <<active, closed, writeVars, heardVars, reader, result>> /\ KeepIO

Main == \/ ReadLoop \/ HandleFrame \/ Feed \/ Echo \/ EndRun \/ Join
        \/ Destroy \/ Notify \/ JoinBeat
        \/ WriteRest("main") \/ Reading("main")

-----------------------------------------------------------------------------
(* The output thread: it sends, and closes when the program has ended *)

\* send_frame: a closed socket takes no message.
SendFrame(th, k) ==
    \/ ~closed /\ Write(th, k)
    \/ /\ closed /\ wlock = Nobody /\ Goto(th, After(th, k, FALSE))
       /\ UNCHANGED writeVars

\* The loop ends with the program or with connection_active.
Output ==
    /\ At("out", "run") /\ Goto("out", IF active THEN "verdict" ELSE "ended")
    /\ UNCHANGED <<active, closed, writeVars, readVars, wire, clientVars, heardVars>>

\* The last message stands for all of them.
SendVerdict ==
    /\ At("out", "verdict") /\ SendFrame("out", "verdict")
    /\ UNCHANGED <<active, closed, readVars, wire, clientVars, heardVars>>

\* connection_active = false, closed_.exchange(true) and the notification, which a
\* heartbeat that has tested closed_ and does not wait yet misses.
Close ==
    /\ At("out", "close") /\ active' = FALSE /\ closed' = TRUE
    /\ pc' = IF closed THEN [pc EXCEPT !.out = "ended"]
             ELSE [pc EXCEPT !.out = "farewell", !.beat = Notified]
    /\ UNCHANGED <<writeVars, readVars, wire, clientVars, heardVars>>

Farewell ==
    /\ At("out", "farewell") /\ Write("out", "close")
    /\ UNCHANGED <<active, closed, readVars, wire, clientVars, heardVars>>

\* close() reads frames until the peer's Close or a failure.
Drain ==
    /\ At("out", "drain") /\ reader["out"] = "off"
    /\ IF result["out"].kind \in {"close", "fail"}
       THEN Goto("out", "ended") /\ UNCHANGED reader
       ELSE BeginRead("out") /\ UNCHANGED pc
    /\ result' = [result EXCEPT !["out"] = None]
    /\ UNCHANGED <<active, closed, writeVars, heardVars>> /\ KeepIO

Out == \/ Output \/ SendVerdict \/ Close \/ Farewell \/ Drain
       \/ WriteRest("out") \/ Reading("out")

-----------------------------------------------------------------------------
(* The heartbeat *)

BeatTest ==
    /\ At("beat", "test") /\ Goto("beat", IF closed THEN "ended" ELSE "toWait")
    /\ UNCHANGED <<active, closed, writeVars, readVars, wire, clientVars, heardVars>>

BeatWait ==
    /\ At("beat", "toWait") /\ Goto("beat", "waiting")
    /\ UNCHANGED <<active, closed, writeVars, readVars, wire, clientVars, heardVars>>

\* 30 s have passed; the model keeps MaxPings of them.
BeatTimer ==
    /\ At("beat", "waiting") /\ pings < MaxPings /\ Goto("beat", "wake")
    /\ UNCHANGED <<active, closed, writeVars, readVars, wire, clientVars, heardVars>>

\* A socket closed before the ping ends the heartbeat, which else pings.
BeatWake ==
    /\ At("beat", "wake")
    /\ \/ closed /\ Goto("beat", "ended") /\ UNCHANGED writeVars
       \/ SendFrame("beat", "ping")
    /\ UNCHANGED <<active, closed, readVars, wire, clientVars, heardVars>>

BeatRefused ==
    /\ At("beat", "refused") /\ Goto("beat", "ended") /\ closed' = TRUE
    /\ UNCHANGED <<active, writeVars, readVars, wire, clientVars, heardVars>>

Beat == \/ BeatTest \/ BeatWait \/ BeatWake \/ BeatRefused
        \/ WriteRest("beat")

-----------------------------------------------------------------------------
(* The client *)

KeepEngine == UNCHANGED <<pc, active, closed, writeVars, readVars, heardVars>>

\* Frames carry the order they were sent in.
ClientSends(k) ==
    /\ client = "open" /\ sent < MaxUp /\ sent' = sent + 1
    /\ wire' = Append(wire, [kind |-> k, id |-> sent + 1])
    /\ UNCHANGED client /\ KeepEngine

ClientCloses ==
    /\ client = "open" /\ client' = "closing"
    /\ wire' = Append(wire, [kind |-> "close", id |-> sent + 1])
    /\ UNCHANGED sent /\ KeepEngine

\* A client that hears a Close answers it.
ClientAnswers == seen # <<>> /\ ClientCloses

ClientGone ==
    /\ client # "gone" /\ client' = "gone"
    /\ UNCHANGED <<wire, sent>> /\ KeepEngine

Client ==
    \/ \E k \in {"text", "ping"} : ClientSends(k)
    \/ ClientCloses \/ ClientGone

Over == pc = [th \in Writers |-> "ended"] /\ UNCHANGED vars

Next == Main \/ Out \/ Beat \/ BeatTimer \/ Client \/ Over

Spec == Init /\ [][Next]_vars

\* Each thread goes on.  But the program need not read what main writes to it, nor end:
\* only connection_active is sure to end the output thread's loop.
FairSpec ==
    /\ Spec
    /\ WF_vars(Main /\ ~At("main", "feed"))
    /\ WF_vars(Out /\ ~(At("out", "run") /\ active))
    /\ WF_vars(Beat) /\ WF_vars(ClientAnswers)

-----------------------------------------------------------------------------
(* Properties *)

Frames == [kind : UpKinds, id : Nat]
Places == {"loop", "reading", "feed", "rest", "echo", "failed", "join", "destroy", "notify",
           "joinBeat", "run", "verdict", "close", "farewell", "drain",
           "test", "toWait", "waiting", "wake", "refused", "ended"}

\* Types; and what is left to be read lies in the buffer, whatever the two readers do
\* to its offsets.
TypeOK ==
    /\ pc \in [Writers -> Places]
    /\ active \in BOOLEAN /\ closed \in BOOLEAN /\ mangled \in BOOLEAN
    /\ wlock \in Writers \cup {Nobody} /\ writing \in DownKinds \cup {"none"}
    /\ reader \in [Readers -> {"off", "check", "copied", "poll", "reset", "recv", "settle"}]
    /\ result \in [Readers -> Frames \cup {None, Fail}]
    /\ wire \in Seq(Frames) /\ buf \in Seq(Frames)
    /\ off \in Nat /\ size \in 0 .. Len(buf) /\ received \in [Readers -> Nat]
    /\ client \in {"open", "closing", "gone"} /\ sent \in Nat /\ stalled \in BOOLEAN
    /\ seen \in Seq(DownKinds) /\ halfway \in BOOLEAN /\ torn \in BOOLEAN
    /\ pings \in Nat /\ heard \in Nat

\* Three threads write one socket, yet the client is sent whole frames, one after the
\* other, unless it has let the send buffer stay full for 5 s.
FramesWhole == torn => stalled

\* Whoever closes first, the engine sends one Close, and after it nothing but the
\* answer to a ping the client had sent before.
CloseIsLast == \A i \in 2 .. Len(seen) : seen[i] = "pong"

\* Until the output thread begins to close, and reads the socket's buffer beside the
\* main thread, main is given the client's frames whole and in order.
InputIntact == mangled => ~active /\ pc["out"] \in {"farewell", "rest", "drain", "ended"}

\* ~WebSocket never waits out the 30 s of a heartbeat that missed its notification.
HeartbeatJoins == At("main", "joinBeat") => ~At("beat", "toWait") /\ ~At("beat", "waiting")

\* A finished run, or a client that has left, ends all three threads and frees the
\* server's worker, whichever reader gets the client's Close and whoever misses it, unless
\* main waits for ever in write_stdin for a program that does not read.
Returns ==
    <>[]At("main", "feed") \/ ((~active \/ client = "gone") ~> (pc = [th \in Writers |-> "ended"]))

==============================================================================
