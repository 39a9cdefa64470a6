--------------------------- MODULE MCIntradayStore ---------------------------
(* Three runs over two slots, so that two of them share a slot, and every   *)
(* interleaving of their merges.  Captures take place before the first slot, *)
(* between the two and after both.                                          *)
EXTENDS IntradayStore

CONSTANTS r1, r2, r3, c1, s1

MCRuns    == {r1, r2, r3}
MCSlots   == {2, 4}
MCSymbols == {s1}
MCConids  == {c1}
===============================================================================
