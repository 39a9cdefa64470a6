---------------------------- MODULE MCClientIdPool ----------------------------
(* Two processes, each with a config that uses the pool, of two ids. *)
EXTENDS ClientIdPool

CONSTANTS p1, p2

MCProc       == {p1, p2}
MCIds        == 1 .. 2
MCConfigured == {NoId}
===============================================================================
