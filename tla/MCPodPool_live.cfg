SPECIFICATION Spec
CONSTANTS
    t1 = t1
    t2 = t2
    w1 = w1
    Tasks = {t1, t2}
    WarmPods = {w1}
    NoPod = NoPod
    NoTask = NoTask
    ListAttempts = 1
    LeaseTTL = 1
    KubeMayFail = FALSE
    Flaky = {t1}
    DebugMode = FALSE
PROPERTIES HandlerEnds LeaseEnds ImplementsLifecycle
