--------------------------- MODULE MCDailyPipeline ---------------------------
(* The last three slots of a regular day: 15:30, 16:00, and 16:15, which    *)
(* slots[-1] is.  "schedule" and the dashboard roll up with <<14, 13>>, the *)
(* rollup command and ScheduleRunner's own RollupRunner with <<13, 12>>.    *)
EXTENDS DailyPipeline, TLC

CONSTANTS s1, c1, c2, j1, j2

MCSymbols    == {s1}
MCConids     == {c1, c2}
MCCapturedOI == {}
MCSlots      == {13, 14}
MCSlotParams == {<<14, 13>>, <<13, 12>>}
MCJobs       == {j1, j2}
Alike        == Permutations(MCJobs) \cup Permutations(MCConids)
===============================================================================
