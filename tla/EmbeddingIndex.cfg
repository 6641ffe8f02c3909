SPECIFICATION Spec
CONSTANTS
    Processes = {p1, p2, p3}
    Configured = {p1, p2}
    Memories = {m1, m2, m3}
    BatchSize = 2
    Limit = 2
    MaxFaults = 1
    NoVector = NoVector
INVARIANTS FoundByItsText
PROPERTY RerunsIndexAll
