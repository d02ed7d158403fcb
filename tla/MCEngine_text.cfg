SPECIFICATION Spec
CONSTANTS
    PipeMax = 2
    StdinMax = 1
    Inputs = 2
PROPERTY FinalOutputsSent
CHECK_DEADLOCK FALSE
