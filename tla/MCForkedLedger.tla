--------------------------- MODULE MCForkedLedger ---------------------------
EXTENDS ForkedLedger

\* Four authorities: the least number that one may leave without a loss.
MCFour == <<"Alice", "Bob", "Charlie", "Dave">>
MCFourRun == {"Alice", "Bob", "Charlie", "Dave"}

\* The development chain run by the two authorities that its documentation names.
MCAliceAndBob == {"Alice", "Bob"}
=============================================================================
