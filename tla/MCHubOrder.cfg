SPECIFICATION Spec
CONSTANTS
    Subs = {c1}
    Msgs = {m1, m2, m3}
    Closers = {k1, k2}
    Cap = 1
    None = None
SYMMETRY Symmetry
INVARIANTS TypeOK PrefixDelivered BroadcastReachesAll NoGap OrderedOnce CloseReachesAll
PROPERTIES FeedSpec QuietAfterClose
CHECK_DEADLOCK FALSE
