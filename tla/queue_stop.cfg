\* The smallest instance in which a consumer is closed while it works.
SPECIFICATION Spec
CONSTANTS
    Workers = {w1}
    MaxTasks = 1
    Rejected = {}
    MaxFaults = 0
    MaxCloses = 1
INVARIANTS
    StoppedMeansIdle
