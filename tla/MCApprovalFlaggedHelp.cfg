SPECIFICATION Spec
CONSTANTS
    Drafts = {d1, d2}
    Entries = {e1, e2, e3, e4}
    Contents = {blank, c1, c2}
    Complete = {c1, c2}
    Blank = blank
    MaxDrafts = 1
    None = None
SYMMETRY Interchangeable
INVARIANTS
    FlaggedHelpCanBePushedThrough
CHECK_DEADLOCK FALSE
