SPECIFICATION Spec
CONSTANTS
    Texts = {t1, t2}
    Blank = blank
    MaxDrafts = 2
    MaxCalls = 2
    MaxMoves = 3
    MaxFaults = 1
INVARIANTS
    TypeOK
    FieldsGoToTheirDraft
    OneWriteInFlight
    OneDraftPerTurnIn
    SavedMeansStored
    SubmittedAsShown
PROPERTIES
    DiscardTakesWhatWasShown
    WhatStaysIsSaved
CHECK_DEADLOCK FALSE
