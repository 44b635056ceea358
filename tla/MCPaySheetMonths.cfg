SPECIFICATION Spec
CONSTANTS
    Policies = {p1, p2}
    Producers = {k1}
    Sophia = Sophia
    Unassigned = Unassigned
    MonthsAhead = 2
    BootstrapPeriods <- MCBootstrapPeriods
    Horizon <- MCHorizon
SYMMETRY Interchangeable
INVARIANTS
    ChainIsUnbroken
    CloseIsNeverRefused
    ClosedSheetIsFrozen
PROPERTIES
    ClosedHistoryIsImmutable
    KeepsTheBook
