SPECIFICATION Spec
CONSTANT MaxCommands = 3
INVARIANT AcceptedMeansDelivered
CHECK_DEADLOCK FALSE
