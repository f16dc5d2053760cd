SPECIFICATION Spec
CONSTANTS
    Requests = {r1, r2}
    Calls <- MCQueueCalls
    Claims <- MCClaims
    Bearers = {public, rpc, internal, steve}
    public = public
    rpc = rpc
    internal = internal
    steve = steve
    merged = merged
    Users = {u1, u2}
    u1 = u1
    u2 = u2
    Players = {p1}
    p1 = p1
    DefaultCount = 1
    MaxLost = 0
    None = None
SYMMETRY Symmetry
INVARIANTS TypeOK Authorised NoPanic StrangersAreFree
CHECK_DEADLOCK FALSE
