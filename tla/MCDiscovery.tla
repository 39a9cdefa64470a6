------------------------------ MODULE MCDiscovery ------------------------------
EXTENDS Discovery, TLC
CONSTANTS p1, p2, FOO
(* Processes are interchangeable: none is named by a definition or a CHOOSE. *)
mcProcs    == {p1, p2}
Alike      == Permutations(mcProcs)
mcChains   == {{100, 103, 105}}
mcExpiries == {[id |-> 1, days |-> 4, friday |-> TRUE, far |-> FALSE, monthly |-> TRUE, quarterly |-> FALSE],
               [id |-> 2, days |-> 60, friday |-> TRUE, far |-> FALSE, monthly |-> FALSE, quarterly |-> FALSE]}
mcKinds    == {"monthly", "quarterly"}
mcWanted   == {{FOO}}
================================================================================
