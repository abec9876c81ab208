-------------------------------- MODULE MCLogs --------------------------------
(***************************************************************************)
(* The logs view in variables of its own, to stand beside another page in  *)
(* one specification.                                                      *)
(***************************************************************************)
CONSTANTS Kinds, Filters, PageSize, TailSize, Allowed, MaxRows, LogCalls, LogFails

VARIABLES logRows, logView, logQueue, logFails

Logs == INSTANCE LogView WITH
    MaxCalls <- LogCalls, MaxFails <- LogFails,
    rows <- logRows, view <- logView, queue <- logQueue, fails <- logFails

logVars == <<logRows, logView, logQueue, logFails>>

ASSUME LogsAssumption == Logs!LogViewBounds

\* Once every answer is in, the rows shown are the filter's, though polls and older
\* pages are merged without looking at the filter (useLogStream.ts:137, 161): a query
\* that replaces the list always comes after them.
OnlyMatchingRows == Logs!OnlyMatchingRows

\* No hole in the list: of the rows that match, every one between the oldest that is
\* loaded (the cursor of "Load older") and the newest shown is there.
NoGap == Logs!NoGap
=============================================================================
