CONSTANTS
    LenRange = 16
    None = None
    NotHex = NotHex
    j1 = j1
    j2 = j2
    alice = alice
    bob = bob
    dan = dan
    key = key
    forged = forged
    Calls = {c1, c2, c3}
    WireRequests <- Rivals
    VerifierKey = key
    Clocks <- AnyTime
    Agents = {alice}
    MaxRestarts = 1
    MAX_AUTHORIZE_BODY_BYTES = 6
SPECIFICATION VerifierSpec
SYMMETRY CallSymmetry
INVARIANT  SingleUse NoncesAreGrants ReplayHasWinner RevocationIsHonoured
