----------------------------- MODULE MCScheduleDay -----------------------------
EXTENDS ScheduleDay
mcLaunches == {<<"plain", 1, Kinds>>, <<"idle", 1, {"snapshot"}>>}
mcIdle == {<<"idle", 1, {"snapshot"}>>}
================================================================================
