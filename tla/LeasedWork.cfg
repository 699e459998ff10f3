SPECIFICATION FairSpec
CONSTANT MaxFaults = 2
INVARIANTS TypeOK RunningIsLeased SuccessLeavesNothing
PROPERTIES AbandonedIsReaped
CHECK_DEADLOCK FALSE
