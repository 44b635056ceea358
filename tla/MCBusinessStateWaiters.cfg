SPECIFICATION FairSpec
CONSTANTS
    Generations = {g1, g2}
    First = g1
    Contents = {blank}
    Blank = blank
    MaxMonth = 2
    Now = 1
    None = None
    Writers = {w1, w2}
    Admins = {a1}
    Reset = Reset
PROPERTIES
    WaitersAreAnswered
