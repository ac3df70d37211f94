SPECIFICATION Spec
CONSTANTS
    None = None
    Asked = Asked
    Call = {c1, c2}
    Load = {l1, l2}
    MaxChanges = 4
CONSTRAINT MCSmall
SYMMETRY MCSymmetry
CHECK_DEADLOCK FALSE
INVARIANTS
    OfferedIsAccepted
    RefundAsAnnounced
    
