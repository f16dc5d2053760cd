SPECIFICATION FairSpec
CONSTANTS
    Subs = {c1}
    Msgs = {m1, m2}
    Closers = {k1}
    Cap = 1
    None = None
PROPERTIES BroadcastReturns DeadLeave CloseDrains QueueDrains
CHECK_DEADLOCK FALSE
