SPECIFICATION Spec
CONSTANTS
    Challenges = {s1}
    Verifies = {v1, v2}
    Players = {p1, p2}
    Names = {n1, n2, n3}
    None = None
SYMMETRY Symmetry
INVARIANTS TypeOK Authentic
PROPERTIES SpentIsRefused ConsumedByProof TicketSpec
CHECK_DEADLOCK FALSE
