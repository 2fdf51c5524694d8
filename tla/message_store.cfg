\* Batches of two, six messages; the fifth cannot be bound.
CONSTANTS
    BatchSize = 2
    MaxMessages = 6
    Unbindable = {5}
SPECIFICATION FairSpec
INVARIANTS TypeOK EachMessageOnce RowsInOrder Accounted StopStores
PROPERTIES EventuallyStored
CHECK_DEADLOCK FALSE
