\* Two processes and two tasks, of which epark takes one; a fault and a shutdown.
SPECIFICATION FairSpec
CONSTANTS
    Workers = {w1, w2}
    MaxTasks = 2
    Rejected = {2}
    MaxFaults = 1
    MaxCloses = 1
PROPERTIES
    DeliveredOrStranded
