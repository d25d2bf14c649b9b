CONSTANTS
    LenRange = 16
    None = None
    NotHex = NotHex
    t1 = t1
    t2 = t2
    trace = trace
    ctx = ctx
    Slots = {s1}
    EgressRequests <- MCRequests
    RawConfigs <- MCConfigs
    Verdicts <- MCVerdicts
SPECIFICATION MiddlewareSpec
CHECK_DEADLOCK FALSE
INVARIANT MiddlewareTypeOK AuditTellsTheTruth ObserveMirrorsVerdicts CredentialIsUnambiguous CredentialStaysHome
PROPERTY EveryRequestDecided
