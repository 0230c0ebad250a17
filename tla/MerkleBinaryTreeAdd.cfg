SPECIFICATION AddSpec
CONSTANT MaxLeaves = 9
INVARIANT AddIsNew
CHECK_DEADLOCK FALSE
