\* The smallest instance in which the tries of a task are used up.
SPECIFICATION Spec
CONSTANTS
    Workers = {w1}
    MaxTasks = 1
    Rejected = {}
    MaxFaults = 0
    MaxCloses = 0
INVARIANTS
    DiscardedAfterTries
