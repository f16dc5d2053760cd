SPECIFICATION Spec
CONSTANTS
    Requests = {r1}
    Calls <- MCMergedCalls
    Claims <- MCClaims
    Bearers = {merged}
    public = public
    rpc = rpc
    internal = internal
    steve = steve
    merged = merged
    Users = {u1, u2}
    u1 = u1
    u2 = u2
    Players = {p1}
    p1 = p1
    DefaultCount = 1
    MaxLost = 0
    None = None
SYMMETRY Symmetry
INVARIANTS DocumentedToken
CHECK_DEADLOCK FALSE
