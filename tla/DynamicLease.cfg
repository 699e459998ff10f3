SPECIFICATION Spec
CONSTANT MaxFaults = 1
INVARIANTS DynamicIsRecoverable
CHECK_DEADLOCK FALSE
