-------------------------- MODULE MCPaySheetSettlement --------------------------
(* A small agency whose first House month is December, so that the first   *)
(* close of every chain crosses the turn of the year.                      *)
EXTENDS PaySheetSettlement, TLC

CONSTANT MonthsAhead   \* months after the first that may be opened (bound)

December == [year |-> 2026, month |-> 12]
MCBootstrapPeriods == {December}
MCHorizon == Ordinal(December) + MonthsAhead

Interchangeable == Permutations(Policies) \cup Permutations(Producers)

=============================================================================
