-------------------------- MODULE MCSnapshotCollect --------------------------
(* On SMART a call and a put of the nearest strike, a call of the next and   *)
(* one beyond the limit of two strikes; one contract on AMEX, which only the *)
(* closing "ANY" finds; nothing on CBOE.  Three contracts are asked for, two *)
(* at a time, with a bucket that holds two tokens.                           *)
EXTENDS SnapshotCollect

MCListed      == <<"c1", "p1", "c2", "c3", "a2">>
MCExchangeOf  == [c \in {"c1", "p1", "c2", "c3", "a2"} |-> IF c = "a2" THEN "AMEX" ELSE "SMART"]
MCDistanceOf  == [c1 |-> 0, p1 |-> 0, c2 |-> 1, c3 |-> 2, a2 |-> 1]
MCPreferences == <<"CBOE", "SMART">>
MCModes       == {"streaming", "snapshot", "reqtickers"}
===============================================================================
