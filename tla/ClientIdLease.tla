---------------------------- MODULE ClientIdLease ----------------------------
(***************************************************************************)
(* What a pool of IB client ids promises to the processes of one host: an  *)
(* id is granted to at most one process at a time, a process is granted at *)
(* most one id, and an id changes hands only through its holder or through *)
(* a process that has judged it abandoned by its age.  A judgement is not  *)
(* bound to the lease it was made of: one made of an earlier lease spoils  *)
(* a fresh one as well.  Of a spoiled id nothing more is promised.         *)
(***************************************************************************)
EXTENDS Integers

CONSTANTS Proc,     \* the processes (IBSession objects) of the host
          Ids,      \* the client ids of the pool
          NoProc,   \* "nobody"
          Spoiled,  \* "no longer protected"
          TTL       \* the age above which a mark may be judged abandoned

VARIABLES owner,    \* owner[c]: the process the id c is granted to
          mark,     \* mark[c]: the age of the mark that process left on c
          judged    \* <<p, c>>: p has seen a mark on c older than TTL

lvars == <<owner, mark, judged>>

LInit == /\ owner = [c \in Ids |-> NoProc]
         /\ mark = [c \in Ids |-> 0]
         /\ judged = {}

Grant(p, c) ==
    /\ owner[c] = NoProc
    /\ \A d \in Ids : owner[d] # p
    /\ owner' = [owner EXCEPT ![c] = p]
    /\ mark' = [mark EXCEPT ![c] = 0]
    /\ UNCHANGED judged

(* The holder gives the id back and takes its mark away. *)
Return(p, c) ==
    /\ owner[c] = p
    /\ owner' = [owner EXCEPT ![c] = NoProc]
    /\ mark' = [mark EXCEPT ![c] = 0]
    /\ UNCHANGED judged

(* A process gives up all it holds and means to do; its marks stay. *)
Leave(p) ==
    /\ owner' = [c \in Ids |-> IF owner[c] = p THEN NoProc ELSE owner[c]]
    /\ judged' = {j \in judged : j[1] # p}
    /\ UNCHANGED mark

Judge(p, c) ==
    /\ owner[c] # Spoiled /\ mark[c] > TTL
    /\ judged' = judged \cup {<<p, c>>}
    /\ UNCHANGED <<owner, mark>>

(* A judgement is carried out: on an id nobody holds the mark goes, an id    *)
(* somebody holds is spoiled.                                                *)
Break(p, c) ==
    /\ <<p, c>> \in judged /\ owner[c] = NoProc
    /\ mark' = [mark EXCEPT ![c] = 0]
    /\ judged' = judged \ {<<p, c>>}
    /\ UNCHANGED owner

Spoil(p, c) ==
    /\ <<p, c>> \in judged /\ owner[c] \in Proc
    /\ owner' = [owner EXCEPT ![c] = Spoiled]
    /\ mark' = [mark EXCEPT ![c] = 0]
    /\ judged' = {j \in judged : j[2] # c}

(* Time passes; ages may be told apart only up to some bound. *)
Elapse ==
    /\ \E S \in SUBSET Ids : mark' = [c \in Ids |-> IF c \in S THEN mark[c] + 1 ELSE mark[c]]
    /\ UNCHANGED <<owner, judged>>

LNext == \/ \E p \in Proc, c \in Ids : \/ Grant(p, c) \/ Return(p, c)
                                       \/ Judge(p, c) \/ Break(p, c) \/ Spoil(p, c)
         \/ \E p \in Proc : Leave(p)
         \/ Elapse

LSpec == LInit /\ [][LNext]_lvars
==============================================================================
