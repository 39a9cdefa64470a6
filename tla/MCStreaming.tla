----------------------------- MODULE MCStreaming -----------------------------
(* Five strikes two apart, a window of one strike on each side, a price that *)
(* moves freely, by less than a step or by several, and two rows of each     *)
(* kind.  The gateway knows every contract, or not the lowest, or not one in *)
(* the middle.                                                               *)
EXTENDS Streaming

MCStrikes    == {2, 4, 6, 8, 10}
MCSpots      == {3, 4, 5, 6, 8}
MCUnlistings == {{}, {2}, {4}}
===============================================================================
