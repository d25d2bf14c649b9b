CONSTANTS
    LenRange = 6
    None = None
    NotHex = NotHex
    MaxPath = 4
    LoopbackV4 = {"127.0.0.1"}
INIT Init
NEXT Next
INVARIANT CrhIdentifiesAction NormalizeIdempotent PathScopeIsSegmentwise 
