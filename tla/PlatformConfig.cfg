SPECIFICATION Spec
CONSTANTS
    Admin = {a1}
    Field = {f1, f2}
    Price = {10, 20}
    DefaultPrice = 10
    Change = {c1, c2}
    Otp = {o1}
    Pin = {2002, 1234}
    DefaultPin = 2002
    Proc = {p1, p2}
    None = None
SYMMETRY MCSymmetry
CONSTRAINTS
    MCNotOvertaken
    MCOneConfirmed
CHECK_DEADLOCK FALSE
INVARIANTS
    NoticeRespected
    WithdrawnNeverApplies
PROPERTY
    AppliedAsTold
