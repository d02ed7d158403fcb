SPECIFICATION Spec
CONSTANTS
    PipeMax = 2
    StdinMax = 1
    Inputs = 2
INVARIANTS VerdictIsLast OutputBeforeVerdict HonestVerdict ReapedAtEnd
PROPERTIES HandlerReturns IdleEnds
CHECK_DEADLOCK FALSE
