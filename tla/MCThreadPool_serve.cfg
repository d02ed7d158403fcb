SPECIFICATION Spec
CONSTANTS
    c1 = c1
    c2 = c2
    c3 = c3
    b1 = b1
    d1 = d1
    d2 = d2
    Conns = {c1, c2, c3}
    Base = {b1}
    Spare = {d1, d2}
    MaxRequests = 2
    NoConn = NoConn
INVARIANTS WorkerAwake NothingLeft
PROPERTIES QueuedIsServed ListenReturns ImplementsQueue
CHECK_DEADLOCK FALSE
