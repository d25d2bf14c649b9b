CONSTANTS
    LenRange = 16
    None = None
    NotHex = NotHex
    j1 = j1
    j2 = j2
    alice = alice
    key = key
    Calls = {s1}
    Slots = {s1}
    Agents = {alice}
    VerifierKey = key
    EgressRequests <- TwoCredentials
    WireRequests <- Sent
    RawConfigs <- OwnHeader
    Verdicts <- Replies
    Clocks <- NoTime
    MaxRestarts = 0
    MAX_AUTHORIZE_BODY_BYTES = 3
SPECIFICATION Spec
INVARIANT OtherHeaderIsMalformed
CHECK_DEADLOCK FALSE
