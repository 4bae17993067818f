CONSTANTS
    a1 = a1
    a2 = a2
    th = th
    d1 = d1
    d2 = d2
    Targets <- MCTargets
    ThreadTargets <- MCThreadTargets
    DocIds <- MCDocIds
    MaxFaults = 2
SPECIFICATION Spec
SYMMETRY MCSymmetry
INVARIANTS
    DivergenceRecorded
    MatchImpliesConverged
PROPERTIES
    NeverDeletesConfirmed
    
