\* Two processes, two tasks, two faults and one orderly shutdown.
SPECIFICATION Spec
CONSTANTS
    Workers = {w1, w2}
    MaxTasks = 2
    Rejected = {}
    MaxFaults = 2
    MaxCloses = 1
SYMMETRY WorkerSymmetry
INVARIANTS
    TypeOK
    SingleCopy
    NotLost
    ExclusiveUnlessFault
    AcceptedOnceUnlessFault
    ProcessingOwned
    CounterCollected
PROPERTIES
    FirstTakeInOrder
    ImplementsDelivery
