\* A verifier and a sender on two domains that share the hash, one fault.
SPECIFICATION IntakeFairSpec
CONSTANTS
    Domains = {d1, d2}
    Senders = {s1}
    Verifiers = {v1}
    MaxEdits = 0
    MaxFaults = 1
    NoRow = NoRow
    NoThread = NoThread
    Tasks = {k1}
INVARIANTS
    IntakeTypeOK
    StaleExpires
    QueuedWasEnabled
PROPERTIES
    QueuedAsStored
