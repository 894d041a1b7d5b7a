SPECIFICATION Spec
CONSTANT TEMP_FIFO_SIZE = 4
INVARIANT RefusedOnlyWhenFull
CHECK_DEADLOCK FALSE
