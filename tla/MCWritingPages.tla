--------------------------- MODULE MCWritingPages ---------------------------
(* Small instances of the pages that write. *)
EXTENDS WritingPages, TLC

\* Without daylight saving, east and west; with an hour forward, and an hour back.
Zone(b, a, s) == [before |-> b, after |-> a, switch |-> s]
MCZones == {Zone(0, 0, 0), Zone(-1, -1, 0), Zone(0, 1, 26), Zone(1, 0, 29)}
UTC == Zone(0, 0, 0)
\* The API in UTC, and on a machine whose clocks change.
MCServerZones == {UTC, Zone(0, 1, 26)}

\* Months of 31, 28, 31, 30 and 31 days.
MCMonthStart == <<0, 31, 59, 90, 120, 151>>

Symmetric == Permutations(Texts) \cup Permutations(FormPasswords)
=============================================================================
