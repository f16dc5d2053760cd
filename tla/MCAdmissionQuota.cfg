SPECIFICATION Spec
CONSTANTS
    Requests = {r1, r2, r3}
    Calls <- MCQuotaCalls
    Claims <- MCClaims
    Bearers = {public, internal}
    public = public
    rpc = rpc
    internal = internal
    steve = steve
    merged = merged
    Users = {u1}
    u1 = u1
    u2 = u2
    Players = {}
    p1 = p1
    DefaultCount = 2
    MaxLost = 2
    None = None
SYMMETRY Symmetry
INVARIANTS QuotaExact
CHECK_DEADLOCK FALSE
