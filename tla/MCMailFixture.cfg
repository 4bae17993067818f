CONSTANTS
    Names <- MCNames
    Fillers <- MCFillers
    MaxTokens = 3
    DiffContext = 2
SPECIFICATION Spec
INVARIANTS
    FixtureCheckSound
