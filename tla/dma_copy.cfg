SPECIFICATION Spec
PROPERTY CopyReturns
CHECK_DEADLOCK FALSE
