SPECIFICATION Spec
CONSTANT MaxTyped = 1
INVARIANTS OneFinalShown ReadyInputHeard InteractiveCharge
PROPERTIES StudentIsTold RelayReturns GatewayEnds
CHECK_DEADLOCK FALSE
