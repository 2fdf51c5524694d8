\* Message 2 cannot be bound.
CONSTANTS
    BatchSize = 2
    MaxMessages = 2
    Unbindable = {2}
SPECIFICATION Spec
INVARIANT StopFlushesRemaining
CHECK_DEADLOCK FALSE
