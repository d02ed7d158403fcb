SPECIFICATION FairQueueSpec
CONSTANTS
    Tasks = {b1, b2, i1, i2}
    Interactive = {i1, i2}
    Slots = 2
    Threads = 1
    MaxCrashes = 1
INVARIANTS SlotsKept HandledOnceInOrder
PROPERTY EachHandled
CHECK_DEADLOCK FALSE
