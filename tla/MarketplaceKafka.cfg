SPECIFICATION FairSpec
CONSTANTS
    e1 = e1
    e2 = e2
    c1 = c1
    c2 = c2
    Malformed = Malformed
    Nobody = Nobody
    Batch <- TwoEvents
    Consumers = {c1, c2}
    QueueSize = 1
    MaxMessages = 1
    MaxStarts = 3
CHECK_DEADLOCK FALSE
INVARIANTS
    ConfirmedIsStored
    NothingSkippedSilently
PROPERTIES
    PublishEnds
    BoundedRunEnds
