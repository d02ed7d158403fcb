SPECIFICATION FairSpec
CONSTANTS
    MaxUp = 1
    MaxPings = 1
INVARIANTS FramesWhole CloseIsLast InputIntact HeartbeatJoins
PROPERTY Returns
