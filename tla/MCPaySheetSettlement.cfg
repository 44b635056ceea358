SPECIFICATION Spec
CONSTANTS
    Policies = {p1, p2}
    Producers = {k1, k2}
    Sophia = Sophia
    Unassigned = Unassigned
    MonthsAhead = 1
    BootstrapPeriods <- MCBootstrapPeriods
    Horizon <- MCHorizon
SYMMETRY Interchangeable
INVARIANTS
    TypeOK
    SingleSettlement
    OpenSheetsCarryPaidLivePolicies
    PaidPolicyIsOnASheet
PROPERTIES
    CascadeNeedsItsHouseClose
