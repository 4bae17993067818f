CONSTANTS
    Names <- MCOverlappingNames
    Fillers <- MCFillers
    MaxTokens = 3
    DiffContext = 2
SPECIFICATION Spec
INVARIANTS
    FixtureCheckSound
