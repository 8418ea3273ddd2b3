SPECIFICATION Spec
CONSTANTS
    e1 = e1
    e2 = e2
    c1 = c1
    c2 = c2
    Malformed = Malformed
    Nobody = Nobody
    Batch <- TwoEvents
    Consumers = {c1, c2}
    QueueSize = 2
    MaxMessages = 2
    MaxStarts = 2
CHECK_DEADLOCK FALSE
INVARIANT AtLeastOnce
