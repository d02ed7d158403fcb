SPECIFICATION Spec
CONSTANTS
    MaxAttempts = 2
    Languages = {"interpreted", "compiled", "cached", "wasm", "unknown"}
INVARIANTS AloneIsIntact CacheIsSound EngineSurvives
PROPERTIES AdapterReturns ThreadsEnd
CHECK_DEADLOCK FALSE
