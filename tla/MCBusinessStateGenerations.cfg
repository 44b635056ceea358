SPECIFICATION Spec
CONSTANTS
    Generations = {g1, g2}
    First = g1
    Contents = {blank, c1}
    Blank = blank
    MaxMonth = 1
    Now = 1
    None = None
    Writers = {w1, w2}
    Admins = {a1, a2}
    Reset = Reset
SYMMETRY Interchangeable
INVARIANTS
    TypeOK
    SealedGenerationsVerify
    LinksStayInOneGeneration
PROPERTIES
    KeepsThePromise
