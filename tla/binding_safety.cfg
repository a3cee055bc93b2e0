\* Three calls of two domains, under both levels of isolation.
SPECIFICATION Spec
CONSTANTS
    Calls = {c1, c2, c3}
    Domains = {d1, d2}
    Parks = {p1, p2}
    Blank = Blank
    NoCall = NoCall
    MaxLength = 2
    MaxFaults = 1
SYMMETRY Symmetry
INVARIANTS
    TypeOK
    CallsStayWhole
    ExclusiveUnlessOverlap
    LastListBound
    FoundUnlessOverlap
    NoStandstill
