------------------------------ MODULE MCBackfill ------------------------------
(* Three symbols, of which the first always fails; three days, of which the  *)
(* second is no trading day; the whole universe or one symbol of it.         *)
EXTENDS Backfill

MCUniverse == <<"x", "a", "b">>
MCWanted   == {<<"x", "a", "b">>, <<"b">>}
===============================================================================
