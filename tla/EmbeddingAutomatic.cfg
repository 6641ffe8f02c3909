SPECIFICATION Spec
CONSTANTS
    Processes = {p1, p2}
    Configured = {p1, p2}
    Memories = {m1, m2}
    BatchSize = 2
    Limit = 2
    MaxFaults = 0
    NoVector = NoVector
PROPERTY IndexedAutomatically
