SPECIFICATION Spec
CONSTANT MaxEvents = 2
INVARIANT EventsShown
CHECK_DEADLOCK FALSE
