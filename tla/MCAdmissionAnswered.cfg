SPECIFICATION FairSpec
CONSTANTS
    Requests = {r1, r2}
    Calls <- MCAnsweredCalls
    Claims <- MCClaims
    Bearers = {public, steve}
    public = public
    rpc = rpc
    internal = internal
    steve = steve
    merged = merged
    Users = {u1}
    u1 = u1
    u2 = u2
    Players = {p1}
    p1 = p1
    DefaultCount = 1
    MaxLost = 1
    None = None
PROPERTIES Answered
CHECK_DEADLOCK FALSE
