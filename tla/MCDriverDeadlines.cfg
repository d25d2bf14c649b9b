CONSTANTS
    LenRange = 16
    None = None
    NotHex = NotHex
    key = key
    Calls = {1, 4, 12}
    Slots = {1, 4, 12}
    Agents <- Principals
    VerifierKey = key
    EgressRequests <- Scripted
    WireRequests <- Sent
    RawConfigs <- Demo
    Verdicts <- Replies
    Clocks <- CloseReadings
    MaxRestarts = 0
    MAX_AUTHORIZE_BODY_BYTES = 65536
    Start = 1000
    MaxFaults = 4
SPECIFICATION DriverSpec
INVARIANT ExpiryNeedsStall
PROPERTY OnlyRevokeHangs
CHECK_DEADLOCK FALSE
