SPECIFICATION FairSpec
CONSTANT Visitors = {v1, v2}
INVARIANTS ReadyIsTrue EnvironmentWhole
PROPERTIES WaitReturns VisitorServed LossEndsEnclave SetupSpec
CHECK_DEADLOCK FALSE
