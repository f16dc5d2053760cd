SPECIFICATION FairSpec
CONSTANTS
    Subs = {c1}
    Msgs = {m1, m2}
    Cap = 1
    None = None
INVARIANTS TypeOK AcceptedIsBroadcast AcceptedNoGap Graceful SubscribersToldFirst
PROPERTIES ExitsAfterSignal
CHECK_DEADLOCK FALSE
