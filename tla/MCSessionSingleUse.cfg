SPECIFICATION Spec
CONSTANTS
    Challenges = {s1}
    Verifies = {v1, v2}
    Players = {p1}
    Names = {n1}
    None = None
SYMMETRY Symmetry
INVARIANTS SingleUse
CHECK_DEADLOCK FALSE
