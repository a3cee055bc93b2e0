\* A park with a state row and one without.
SPECIFICATION Spec
CONSTANTS
    Parks = {p1, p2}
    Monitored = {p1}
    Coded = {p1}
    MaxFaults = 0
INVARIANTS
    AllParksMonitored
