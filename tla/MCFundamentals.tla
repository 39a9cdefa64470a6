---------------------------- MODULE MCFundamentals ----------------------------
(* Every day two symbols with both types; and now and then one report of the *)
(* first symbol for the trade date before, forced or not, be it in the cache. *)
EXTENDS Fundamentals

mcCommand(ss, ts, f, a) == [symbols |-> ss, types |-> ts, force |-> f, ago |-> a]
mcCommands == {mcCommand(<<"AAPL", "MSFT">>, <<"info", "financials">>, FALSE, 0)}
              \cup {mcCommand(<<"AAPL">>, <<"financials">>, f, 1) : f \in BOOLEAN}
===============================================================================
