CONSTANTS
    LenRange = 16
    None = None
    NotHex = NotHex
    j1 = j1
    j2 = j2
    alice = alice
    key = key
    Calls = {s1, s2}
    Slots = {s1, s2}
    Agents = {alice}
    VerifierKey = key
    EgressRequests <- Retries
    WireRequests <- Sent
    RawConfigs <- EveryConfig
    Verdicts <- Replies
    Clocks <- NoTime
    MaxRestarts = 1
    MAX_AUTHORIZE_BODY_BYTES = 3
SPECIFICATION Safety
SYMMETRY SlotSymmetry
INVARIANT AtMostOnceEgress RevokedStaysIn SpentNonceExplained
PROPERTY KeepsGate
CHECK_DEADLOCK FALSE
