---------------------------- MODULE MCOptionHistory ----------------------------
EXTENDS OptionHistory

Contract(right, strike, listed, expiry) ==
    [symbol |-> "AAPL", right |-> right, strike |-> strike, listed |-> listed, expiry |-> expiry]

(* Two strikes of a call: one is listed on the second day, one expires on it. *)
mcContracts == {Contract("C", 100, 2, 5), Contract("C", 105, 1, 2)}

mcReach == [hours |-> 2, minutes |-> 1]
===============================================================================
