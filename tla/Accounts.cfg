SPECIFICATION Spec
CONSTANTS
    Identity = {c1, c2}
    Mail = {m1, m2}
    Placeholder = Placeholder
    None = None
    MaxRows = 2
    Proc = {p1, p2}
SYMMETRY MCSymmetry
CONSTRAINT MCSmall
CHECK_DEADLOCK FALSE
INVARIANTS
    StaffStaysApart
    TemporaryPasswordReplaced
