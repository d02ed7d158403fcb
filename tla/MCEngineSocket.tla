--------------------------- MODULE MCEngineSocket ---------------------------
(* Instance of EngineSocket, and two statements about it that do not hold. *)
EXTENDS EngineSocket

\* main.cpp:276 "Safely close the socket from this thread to unblock ws.read() in main
\* thread": when close() has returned, main no longer waits for the socket.
CloseUnblocksRead ==
    [][At("out", "drain") /\ pc'["out"] = "ended" => reader["main"] # "poll"]_vars

\* RFC 6455, 5.5.1, which httplib cites beside close(): no frame follows a Close.
NothingAfterClose == Len(seen) <= 1
=============================================================================
