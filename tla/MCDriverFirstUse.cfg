CONSTANTS
    LenRange = 16
    None = None
    NotHex = NotHex
    key = key
    Calls = {1, 2, 3, 4, 5, 6, 7, 8, 9, 10, 11, 12}
    Slots = {1, 2, 3, 4, 5, 6, 7, 8, 9, 10, 11, 12}
    Agents <- Principals
    VerifierKey = key
    EgressRequests <- Scripted
    WireRequests <- Sent
    RawConfigs <- Demo
    Verdicts <- Replies
    Clocks <- OneReading
    MaxRestarts = 0
    MAX_AUTHORIZE_BODY_BYTES = 65536
    Start = 1000
    MaxFaults = 1
SPECIFICATION DriverSafety
INVARIANT FirstUseAllowed
CHECK_DEADLOCK FALSE
