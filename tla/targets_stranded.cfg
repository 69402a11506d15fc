SPECIFICATION AcceleratedSpec
CONSTANT Mount = {1, 2}
INVARIANT TargetsExplained
CHECK_DEADLOCK FALSE
