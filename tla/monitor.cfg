\* Two parks with state rows, one of a device code of its own, and one fault.
SPECIFICATION FairSpec
CONSTANTS
    Parks = {p1, p2}
    Monitored = {p1, p2}
    Coded = {p1}
    MaxFaults = 1
INVARIANTS
    TypeOK
    TablesAgree
    CountIsStreak
    AlarmedOnceWhenSteady
PROPERTIES
    DownIsRecorded
    LongOutageReported
