CONSTANTS
    r1 = r1
    r2 = r2
    r3 = r3
    Records <- MCRecords
    ChunkSize = 2
SPECIFICATION Spec
INVARIANTS
    TypeOK
    DrainedStored
