\* Two verifiers on two domains that share the hash, one change by others.
SPECIFICATION IntakeSpec
CONSTANTS
    Domains = {d1, d2}
    Senders = {}
    Verifiers = {v1, v2}
    MaxEdits = 1
    MaxFaults = 0
    NoRow = NoRow
    NoThread = NoThread
    Tasks = {k1}
INVARIANTS
    FoundWasStored
