CONSTANTS
    HashLen = 1
    HashBytes = {0, 255}
    Offsets <- MCOffsets
    Encodings <- MCEncodings
SPECIFICATION Spec
INVARIANTS
    TypeOK
    RoundTrip
    TruncatedRejected
