------------------------------ MODULE DatedFiles ------------------------------
(***************************************************************************)
(* What the models of commands that keep their files by trading day have   *)
(* in common (StockStore, OptionHistory): the days, the symbols a command  *)
(* works through one after the other, and tables that have an entry for    *)
(* some days.  Only trading days are counted.                              *)
(***************************************************************************)
EXTENDS Integers

CONSTANTS Universe,     \* the symbols
          LastDay,      \* the days are 1 .. LastDay
          MaxCrashes    \* bound

Days == 1 .. LastDay

ASSUME DaysAssumption == LastDay \in Nat \ {0} /\ MaxCrashes \in Nat

VARIABLES day,          \* today
          phase,        \* "idle", or what the command that runs is at
          queue,        \* symbols that are still to come
          crashes

(* The symbol whose turn it is. *)
sym == CHOOSE s \in queue : TRUE

(* The first and the last of some days. *)
Oldest(D) == CHOOSE d \in D : \A e \in D : d <= e
Newest(D) == CHOOSE d \in D : \A e \in D : e <= d

(* A table that has nothing, one that gets an entry and one that loses it. *)
Nothing == [d \in {} |-> {}]
With(f, d, x) == [e \in DOMAIN f \cup {d} |-> IF e = d THEN x ELSE f[e]]
Without(f, d) == [e \in DOMAIN f \ {d} |-> f[e]]
===============================================================================
