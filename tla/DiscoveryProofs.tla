---------------------------- MODULE DiscoveryProofs ----------------------------
(***************************************************************************)
(* The theorems of Discovery, for any number of processes, symbols,        *)
(* strikes and expirations: the cache file of a symbol has one writer, and *)
(* what it holds once it is usable stays what every run of the day gets.   *)
(***************************************************************************)
EXTENDS Discovery, FiniteSetTheorems, TLAPS

Values == {"id", "noid", "None"}

FilesType ==
    /\ universe \in Tables(Values) /\ cut \in BOOLEAN
    /\ state \in [Symbols -> {"absent", "torn", "whole"}]
    /\ list \in [Symbols -> SUBSET Contracts]
CommandType ==
    /\ pc \in [Procs -> Steps] /\ build \in [Procs -> BOOLEAN] /\ force \in [Procs -> BOOLEAN]
    /\ wanted \in [Procs -> Wanted \cup {{}}] /\ phase \in [Procs -> {"rebuild", "loop"}]
CheckType ==
    /\ lines \in [Procs -> Tables(Values)]
    /\ resolved \in [Procs -> Tables({"id", "None"})]
    /\ checked \in [Procs -> SUBSET Symbols] /\ todo \in [Procs -> SUBSET Symbols]
    /\ invalid \in [Procs -> SUBSET Symbols]
CallType ==
    /\ sym \in [Procs -> Symbols \cup {Nobody}]
    /\ \A p \in Procs : pc[p] \in Building \cup {"load"} => sym[p] \in Symbols
    /\ chain \in [Procs -> SUBSET Strikes] /\ found \in [Procs -> SUBSET Contracts]
HistoryType ==
    /\ served \in [Symbols -> SUBSET (SUBSET Contracts)] /\ excused \subseteq Symbols
    /\ spoiled \in BOOLEAN /\ starts \in 0 .. MaxStarts /\ crashes \in 0 .. MaxCrashes
Typed == FilesType /\ CommandType /\ CheckType /\ CallType /\ HistoryType

-------------------------------------------------------------------------------
(* The universe file as a table: the empty one when it is truncated, and    *)
(* with every line it had when it is rewritten.                             *)
LEMMA TableType ==
  ASSUME NEW Ids, NEW S \in SUBSET Symbols, NEW t \in [S -> Ids]
  PROVE  t \in Tables(Ids)
  BY DEF Tables

LEMMA TableDomain ==
  ASSUME NEW Ids, NEW t \in Tables(Ids)
  PROVE  DOMAIN t \in SUBSET Symbols /\ t \in [DOMAIN t -> Ids]
  BY DEF Tables

LEMMA NoTableType == \A Ids : NoTable \in Tables(Ids)
  <1>1. \A Ids : NoTable \in [{} -> Ids]
    BY DEF NoTable
  <1>2. QED
    BY <1>1, TableType

LEMMA ContentType == FilesType => Content \in Tables(Values)
  BY NoTableType DEF FilesType, Content

LEMMA NewLinesKeep ==
  ASSUME NEW old \in Tables(Values), NEW ids \in Tables({"id", "None"})
  PROVE  /\ NewLines(old, ids) \in Tables(Values)
         /\ DOMAIN old \subseteq DOMAIN NewLines(old, ids)
  <1> DEFINE S == DOMAIN old \cup DOMAIN ids
  <1>1. /\ DOMAIN old \in SUBSET Symbols /\ old \in [DOMAIN old -> Values]
        /\ DOMAIN ids \in SUBSET Symbols /\ ids \in [DOMAIN ids -> {"id", "None"}]
    BY TableDomain
  <1>2. NewLines(old, ids) \in [S -> Values]
    BY <1>1 DEF NewLines, Values
  <1>3. QED
    BY <1>1, <1>2, TableType

LEMMA ResolvedType ==
  ASSUME NEW old \in Tables({"id", "None"}), NEW s \in Symbols, NEW id \in {"id", "None"}
  PROVE  [t \in DOMAIN old \cup {s} |-> IF t = s THEN id ELSE old[t]] \in Tables({"id", "None"})
  <1> DEFINE S == DOMAIN old \cup {s}
  <1>1. DOMAIN old \in SUBSET Symbols /\ old \in [DOMAIN old -> {"id", "None"}]
    BY TableDomain
  <1>2. [t \in S |-> IF t = s THEN id ELSE old[t]] \in [S -> {"id", "None"}]
    BY <1>1
  <1>3. QED
    BY <1>1, <1>2, TableType

(* The chosen contracts are of the chain the gateway answered with. *)
LEMMA ScopedType ==
  ASSUME NEW S \in SUBSET Strikes, NEW x, NEW max
  PROVE  Scoped(S, x, max) \in SUBSET Contracts
  <1>1. \A T \in SUBSET S : Nearest(T, x, max) \subseteq S
    BY DEF Nearest
  <1>2. StrikeCandidates(S, x, max) \subseteq S
    BY <1>1 DEF StrikeCandidates
  <1>3. QED
    BY <1>2 DEF Scoped, Contracts, NearOrFar

(* The loops take a symbol that is left. *)
LEMMA TurnType ==
  ASSUME CheckType, NEW p \in Procs, todo[p] # {}
  PROVE  Turn(p) \in todo[p] /\ Turn(p) \in Symbols
  <1>1. todo[p] \subseteq Symbols
    BY DEF CheckType
  <1>2. Turn(p) \in todo[p]
    BY DEF Turn
  <1>3. QED
    BY <1>1, <1>2

LEMMA SymbolsForType ==
  ASSUME FilesType, NEW w \in Wanted \cup {{}}
  PROVE  SymbolsFor(w) \subseteq Symbols /\ DOMAIN Content \subseteq Symbols
  <1>1. DOMAIN Content \subseteq Symbols
    BY ContentType, TableDomain
  <1>2. QED
    BY <1>1 DEF SymbolsFor, Symbols
-------------------------------------------------------------------------------
(* What the invariants say of the other processes stays as it is. *)
Kept(p) == \A q \in Procs \ {p} :
              /\ pc'[q] = pc[q] /\ sym'[q] = sym[q] /\ phase'[q] = phase[q]
              /\ lines'[q] = lines[q] /\ checked'[q] = checked[q]

(* A command is over, in whatever way. *)
LEMMA OverEffect ==
  ASSUME CommandType, CheckType, CallType, NEW p \in Procs, Over(p)
  PROVE  /\ CommandType' /\ CheckType' /\ CallType' /\ Kept(p)
         /\ pc'[p] = "down" /\ checked'[p] = {}
  <1>1. CommandType'
    BY DEF Over, CommandType, Steps
  <1>2. CheckType'
    BY NoTableType DEF Over, CheckType
  <1>3. CallType'
    BY DEF Over, CommandType, CallType, Building
  <1>4. Kept(p) /\ pc'[p] = "down" /\ checked'[p] = {}
    BY DEF Over, CommandType, CheckType, CallType, Kept
  <1>5. QED
    BY <1>1, <1>2, <1>3, <1>4

(* discover_contracts_for_symbol returns to the loop that called it. *)
LEMMA ReturnEffect ==
  ASSUME CommandType, CallType, NEW p \in Procs, Return(p), UNCHANGED <<command, lines, checked>>
  PROVE  /\ CommandType' /\ CallType' /\ Kept(p)
         /\ pc'[p] = phase[p] /\ phase'[p] = phase[p]
  <1>1. phase[p] \in {"rebuild", "loop"}
    BY DEF CommandType
  <1>2. pc' = [pc EXCEPT ![p] = phase[p]] /\ UNCHANGED <<phase, build, force, wanted>>
    BY DEF Return, Goto, command
  <1>3. CommandType'
    BY <1>1, <1>2 DEF CommandType, Steps
  <1>4. pc'[p] \notin Building \cup {"load"}
    BY <1>1, <1>2 DEF CommandType, Building
  <1>5. CallType'
    BY <1>2, <1>4 DEF Return, CommandType, CallType
  <1>6. Kept(p)
    BY <1>2 DEF Return, CommandType, CallType, Kept
  <1>7. QED
    BY <1>2, <1>3, <1>5, <1>6 DEF CommandType

(* A step of the command that calls no discovery, or that begins one. *)
LEMMA GotoEffect ==
  ASSUME CommandType, CallType, NEW p \in Procs, NEW step \in Steps, Goto(p, step),
         UNCHANGED <<sym, phase, lines, checked>>
  PROVE  pc' \in [Procs -> Steps] /\ pc'[p] = step /\ Kept(p)
  BY DEF Goto, CommandType, Kept

(* One process moves. *)
Move(p) ==
    \/ \E w \in Wanted \cup {{}}, b, f \in BOOLEAN : StartChecked(p, w, b) \/ StartPlain(p, w, b, f)
    \/ Step(p) \/ Crash(p)

LEMMA MoveTyped ==
  ASSUME Typed, NEW p \in Procs, Move(p)
  PROVE  Typed' /\ Kept(p)
  <1> USE DiscoveryAssumption DEF Typed
  <1> USE DEF files, command, check, call, history, bounds
  <1>1. ASSUME NEW w \in Wanted \cup {{}}, NEW b \in BOOLEAN, StartChecked(p, w, b)
        PROVE  Typed' /\ Kept(p)
    <2>1. SymbolsFor(w) \subseteq Symbols
      BY SymbolsForType
    <2>2. pc' \in [Procs -> Steps] /\ pc'[p] = "resolve" /\ \A q \in Procs \ {p} : pc'[q] = pc[q]
      BY <1>1 DEF StartChecked, Goto, CommandType, Steps
    <2>3. CommandType'
      BY <1>1, <2>2 DEF StartChecked, CommandType
    <2>4. CheckType'
      BY <1>1, <2>1 DEF StartChecked, CheckType
    <2>5. CallType'
      BY <1>1, <2>2 DEF StartChecked, CallType, Building
    <2>6. FilesType' /\ HistoryType'
      BY <1>1 DEF StartChecked, FilesType, HistoryType
    <2>7. Kept(p)
      BY <1>1, <2>2 DEF StartChecked, CheckType, Kept
    <2>8. QED
      BY <2>3, <2>4, <2>5, <2>6, <2>7
  <1>2. ASSUME NEW w \in Wanted \cup {{}}, NEW b \in BOOLEAN, NEW f \in BOOLEAN,
               StartPlain(p, w, b, f)
        PROVE  Typed' /\ Kept(p)
    <2>1. pc' \in [Procs -> Steps] /\ pc'[p] = "run" /\ \A q \in Procs \ {p} : pc'[q] = pc[q]
      BY <1>2 DEF StartPlain, Goto, CommandType, Steps
    <2>2. CommandType' /\ CheckType' /\ CallType'
      BY <1>2, <2>1 DEF StartPlain, CommandType, CheckType, CallType, Building
    <2>3. FilesType' /\ HistoryType'
      BY <1>2 DEF StartPlain, FilesType, HistoryType
    <2>4. Kept(p)
      BY <1>2, <2>1 DEF StartPlain, Kept
    <2>5. QED
      BY <2>2, <2>3, <2>4
  <1>3. ASSUME NEW s \in Symbols, NEW id \in {"id", "noid", "None"}, Resolve(p, s, id)
        PROVE  Typed' /\ Kept(p)
    <2>1. UNCHANGED <<files, pc, command, lines, checked, call, history, bounds>>
      BY <1>3 DEF Resolve
    <2>2. resolved' \in [Procs -> Tables({"id", "None"})]
      <3>1. CASE id = "noid"
        BY <1>3, <3>1 DEF Resolve, CheckType
      <3>2. CASE id # "noid"
        <4> DEFINE new == [t \in DOMAIN resolved[p] \cup {s} |-> IF t = s THEN id ELSE resolved[p][t]]
        <4>1. new \in Tables({"id", "None"})
          <5>1. resolved[p] \in Tables({"id", "None"}) /\ id \in {"id", "None"}
            BY <3>2 DEF CheckType
          <5>2. QED
            BY <5>1, ResolvedType, Zenon
        <4>2. resolved' = [resolved EXCEPT ![p] = new]
          BY <1>3, <3>2 DEF Resolve
        <4> HIDE DEF new
        <4>3. QED
          BY <4>1, <4>2 DEF CheckType
      <3>3. QED
        BY <3>1, <3>2
    <2>3. todo' \in [Procs -> SUBSET Symbols] /\ invalid' \in [Procs -> SUBSET Symbols]
      BY <1>3 DEF Resolve, CheckType
    <2>4. CheckType'
      BY <2>1, <2>2, <2>3 DEF CheckType
    <2>5. QED
      BY <2>1, <2>4 DEF FilesType, CommandType, CallType, HistoryType, Kept
  <1>4. CASE Resolved(p)
    <2>1. pc'[p] \in {"check", "uread"} /\ pc' \in [Procs -> Steps]
          /\ \A q \in Procs \ {p} : pc'[q] = pc[q]
      BY <1>4 DEF Resolved, Goto, CommandType, Steps
    <2>2. QED
      BY <1>4, <2>1 DEF Resolved, FilesType, CommandType, CheckType, CallType, HistoryType,
                        Building, Kept
  <1>5. CASE UniverseRead(p)
    <2>1. pc'[p] = "uopen" /\ pc' \in [Procs -> Steps] /\ \A q \in Procs \ {p} : pc'[q] = pc[q]
      BY <1>5 DEF UniverseRead, Goto, CommandType, Steps
    <2>2. lines' \in [Procs -> Tables(Values)] /\ \A q \in Procs \ {p} : lines'[q] = lines[q]
      BY <1>5, ContentType DEF UniverseRead, CheckType
    <2>3. spoiled' \in BOOLEAN
      BY <1>5 DEF UniverseRead, HistoryType
    <2>4. UNCHANGED <<files, command, resolved, checked, invalid, todo, call, served, excused, bounds>>
      BY <1>5 DEF UniverseRead
    <2>5. QED
      BY <2>1, <2>2, <2>3, <2>4 DEF FilesType, CommandType, CheckType, CallType, HistoryType,
                                    Building, Kept
  <1>6. CASE UniverseOpen(p)
    <2>1. pc'[p] = "uwrite" /\ pc' \in [Procs -> Steps] /\ \A q \in Procs \ {p} : pc'[q] = pc[q]
      BY <1>6 DEF UniverseOpen, Goto, CommandType, Steps
    <2>2. QED
      BY <1>6, <2>1 DEF UniverseOpen, FilesType, CommandType, CheckType, CallType, HistoryType,
                        Building, Kept
  <1>7. CASE UniverseWrite(p)
    <2>1. pc'[p] = "check" /\ pc' \in [Procs -> Steps] /\ \A q \in Procs \ {p} : pc'[q] = pc[q]
      BY <1>7 DEF UniverseWrite, Goto, CommandType, Steps
    <2>2. lines' \in [Procs -> Tables(Values)] /\ \A q \in Procs \ {p} : lines'[q] = lines[q]
      BY <1>7, NoTableType DEF UniverseWrite, CheckType
    <2>3. universe' \in Tables(Values) /\ cut' \in BOOLEAN
      BY <1>7, NewLinesKeep DEF UniverseWrite, CheckType
    <2>4. UNCHANGED <<state, list, command, resolved, checked, invalid, todo, call, history, bounds>>
      BY <1>7 DEF UniverseWrite
    <2>5. QED
      BY <2>1, <2>2, <2>3, <2>4 DEF FilesType, CommandType, CheckType, CallType, HistoryType,
                                    Building, Kept
  <1>8. ASSUME NEW step \in {"run", "recheck", "fetch"}, Goto(p, step),
               step = "fetch" => sym[p] \in Symbols,
               UNCHANGED <<files, command, check, todo, sym, chain, found, history, bounds>>,
               phase' \in [Procs -> {"rebuild", "loop"}],
               \A q \in Procs \ {p} : phase'[q] = phase[q]
        PROVE  Typed' /\ Kept(p)
    <2>1. pc'[p] = step /\ pc' \in [Procs -> Steps] /\ \A q \in Procs \ {p} : pc'[q] = pc[q]
      BY <1>8 DEF Goto, CommandType, Steps, Building
    <2>2. CallType'
      BY <1>8, <2>1 DEF CallType, Building
    <2>3. QED
      BY <1>8, <2>1, <2>2 DEF FilesType, CommandType, CheckType, HistoryType, Kept
  <1>9. CASE CheckPasses(p)
    BY <1>8, <1>9 DEF CheckPasses, CommandType
  <1>10. CASE Over(p) /\ UNCHANGED <<files, history, bounds>>
    BY <1>10, OverEffect DEF FilesType, HistoryType
  <1>11. CASE CheckFails(p) \/ RunRaises(p) \/ SessionRaises(p) \/ RunEnds(p)
    BY <1>10, <1>11 DEF CheckFails, RunRaises, SessionRaises, RunEnds
  <1>12. CASE Rebuild(p)
    <2>1. pc'[p] = "rebuild" /\ pc' \in [Procs -> Steps] /\ \A q \in Procs \ {p} : pc'[q] = pc[q]
      BY <1>12 DEF Rebuild, Goto, CommandType, Steps
    <2>2. Bad(p) \cup invalid[p] \in SUBSET Symbols
      BY DEF Bad, CheckType
    <2>3. CheckType'
      BY <1>12, <2>2 DEF Rebuild, CheckType
    <2>4. CommandType' /\ CallType'
      BY <1>12, <2>1 DEF Rebuild, CommandType, CallType, Building
    <2>5. FilesType' /\ HistoryType' /\ Kept(p)
      BY <1>12, <2>1 DEF Rebuild, CommandType, FilesType, HistoryType, Kept
    <2>6. QED
      BY <2>3, <2>4, <2>5
  <1>13. ASSUME NEW s \in Symbols, RebuildFails(p, s) \/ Skip(p, s)
         PROVE  Typed' /\ Kept(p)
    <2>1. UNCHANGED <<files, pc, command, lines, resolved, checked, call, history, bounds>>
      BY <1>13 DEF RebuildFails, Skip
    <2>2. todo' \in [Procs -> SUBSET Symbols] /\ invalid' \in [Procs -> SUBSET Symbols]
      BY <1>13 DEF RebuildFails, Skip, CheckType
    <2>3. QED
      BY <2>1, <2>2 DEF FilesType, CommandType, CheckType, CallType, HistoryType, Kept
  <1>14. ASSUME NEW s \in Symbols, Call(p, s) PROVE Typed' /\ Kept(p)
    <2>1. pc'[p] = "load" /\ pc' \in [Procs -> Steps] /\ \A q \in Procs \ {p} : pc'[q] = pc[q]
      BY <1>14 DEF Call, Goto, CommandType, Steps
    <2>2. sym' = [sym EXCEPT ![p] = s] /\ todo' = [todo EXCEPT ![p] = @ \ {s}]
          /\ UNCHANGED <<files, command, check, chain, found, phase, history, bounds>>
      BY <1>14 DEF Call
    <2>3. CallType'
      BY <2>1, <2>2 DEF CallType
    <2>4. QED
      BY <2>1, <2>2, <2>3 DEF FilesType, CommandType, CheckType, CallType, HistoryType, Kept
  <1>15. CASE Rebuilt(p)
    BY <1>8, <1>15 DEF Rebuilt, CommandType
  <1>16. CASE Run(p)
    <2>1. pc'[p] = "loop" /\ pc' \in [Procs -> Steps] /\ \A q \in Procs \ {p} : pc'[q] = pc[q]
      BY <1>16 DEF Run, Goto, CommandType, Steps
    <2>2. todo' \in [Procs -> SUBSET Symbols]
      <3>1. DOMAIN Content \cap SymbolsFor(wanted[p]) \in SUBSET Symbols
        BY SymbolsForType DEF CommandType
      <3>2. QED
        BY <1>16, <3>1 DEF Run, CheckType
    <2>3. QED
      BY <1>16, <2>1, <2>2 DEF Run, FilesType, CommandType, CheckType, CallType, HistoryType,
                               Building, Kept
  <1>17. ASSUME Return(p), UNCHANGED <<files, command, lines, resolved, checked, todo, excused, spoiled, bounds>>,
                invalid' \in [Procs -> SUBSET Symbols],
                served' \in [Symbols -> SUBSET (SUBSET Contracts)]
         PROVE  Typed' /\ Kept(p)
    BY <1>17, ReturnEffect DEF FilesType, CheckType, HistoryType
  <1>18. ASSUME Raise(p), pc[p] \in Building \cup {"load"} PROVE Typed' /\ Kept(p)
    <2>1. invalid' \in [Procs -> SUBSET Symbols]
      BY <1>18 DEF Raise, CallType, CheckType
    <2>2. QED
      BY <1>17, <1>18, <2>1 DEF Raise, HistoryType
  <1>19. ASSUME NEW L \in SUBSET Contracts, Serve(p, L)
         PROVE  served' \in [Symbols -> SUBSET (SUBSET Contracts)]
    BY <1>19 DEF Serve, HistoryType
  <1>20. CASE LoadServes(p)
    <2>1. list[sym[p]] \in SUBSET Contracts
      BY <1>20 DEF LoadServes, FilesType, CallType
    <2>2. QED
      BY <1>17, <1>19, <1>20, <2>1 DEF LoadServes, CheckType
  <1>21. CASE LoadRaises(p) \/ FetchRaises(p) \/ CompareRaises(p)
    BY <1>18, <1>21 DEF LoadRaises, FetchRaises, CompareRaises, Building
  <1>22. CASE LoadMisses(p)
    <2>1. sym[p] \in Symbols
      BY <1>22 DEF LoadMisses, CallType
    <2>2. QED
      BY <1>8, <1>22, <2>1 DEF LoadMisses, CommandType
  <1>23. ASSUME NEW c \in Chains, Fetch(p, c) PROVE Typed' /\ Kept(p)
    <2>1. pc'[p] = "compare" /\ pc' \in [Procs -> Steps] /\ \A q \in Procs \ {p} : pc'[q] = pc[q]
      BY <1>23 DEF Fetch, Goto, CommandType, Steps, Building
    <2>2. c \subseteq Strikes
      BY DEF Strikes
    <2>3. CallType'
      BY <1>23, <2>1, <2>2 DEF Fetch, CallType, Building
    <2>4. QED
      BY <1>23, <2>1, <2>3 DEF Fetch, FilesType, CommandType, CheckType, HistoryType, Kept
  <1>24. CASE NoChain(p)
    BY <1>17, <1>24 DEF NoChain, CheckType, HistoryType
  <1>25. ASSUME NEW x, NEW max, NothingInScope(p, x, max) PROVE Typed' /\ Kept(p)
    BY <1>17, <1>25 DEF NothingInScope, CheckType, HistoryType
  <1>26. ASSUME NEW x, NEW max, Compare(p, x, max) PROVE Typed' /\ Kept(p)
    <2>1. pc[p] = "compare" /\ sym[p] \in Symbols /\ chain[p] \in SUBSET Strikes
      BY <1>26 DEF Compare, CallType, Building
    <2>2. pc'[p] = "qualify" /\ pc' \in [Procs -> Steps] /\ \A q \in Procs \ {p} : pc'[q] = pc[q]
      BY <1>26 DEF Compare, Goto, CommandType, Steps, Building
    <2>3. found' = [found EXCEPT ![p] = Scoped(chain[p], x, max)]
          /\ Scoped(chain[p], x, max) \in SUBSET Contracts
      BY <1>26, <2>1, ScopedType DEF Compare
    <2>4. excused' \subseteq Symbols
          /\ UNCHANGED <<files, command, check, todo, sym, chain, phase, served, spoiled, bounds>>
      BY <1>26, <2>1 DEF Compare, HistoryType
    <2>5. CallType'
      BY <2>1, <2>2, <2>3, <2>4 DEF CallType, Building
    <2>6. QED
      BY <2>2, <2>4, <2>5 DEF FilesType, CommandType, CheckType, HistoryType, Kept
  <1>27. ASSUME NEW L \in SUBSET found[p], Qualify(p, L) PROVE Typed' /\ Kept(p)
    <2>1. pc[p] = "qualify" /\ sym[p] \in Symbols /\ L \in SUBSET Contracts
      BY <1>27 DEF Qualify, CallType, Building
    <2>2. pc'[p] = "open" /\ pc' \in [Procs -> Steps] /\ \A q \in Procs \ {p} : pc'[q] = pc[q]
      BY <1>27 DEF Qualify, Goto, CommandType, Steps, Building
    <2>3. CallType'
      BY <1>27, <2>1, <2>2 DEF Qualify, CallType, Building
    <2>4. QED
      BY <1>27, <2>2, <2>3 DEF Qualify, FilesType, CommandType, CheckType, HistoryType, Kept
  <1>28. CASE OpenCache(p)
    <2>1. pc[p] = "open" /\ sym[p] \in Symbols
      BY <1>28 DEF OpenCache, CallType, Building
    <2>2. pc'[p] = "save" /\ pc' \in [Procs -> Steps] /\ \A q \in Procs \ {p} : pc'[q] = pc[q]
      BY <1>28 DEF OpenCache, Goto, CommandType, Steps, Building
    <2>3. FilesType'
      BY <1>28, <2>1 DEF OpenCache, FilesType
    <2>4. QED
      BY <1>28, <2>1, <2>2, <2>3 DEF OpenCache, CommandType, CheckType, CallType, HistoryType,
                                    Building, Kept
  <1>29. CASE SaveCache(p)
    <2>1. pc[p] = "save" /\ sym[p] \in Symbols /\ found[p] \in SUBSET Contracts
      BY <1>29 DEF SaveCache, CallType, Building
    <2>2. FilesType'
      BY <1>29, <2>1 DEF SaveCache, FilesType
    <2>3. served' \in [Symbols -> SUBSET (SUBSET Contracts)]
      BY <1>19, <1>29, <2>1 DEF SaveCache
    <2>4. Return(p) /\ UNCHANGED <<command, check, todo, excused, spoiled, bounds>>
      BY <1>29 DEF SaveCache
    <2>5. QED
      BY <2>2, <2>3, <2>4, ReturnEffect DEF CheckType, HistoryType
  <1>30. CASE Crash(p)
    <2>1. excused' \subseteq Symbols /\ spoiled' \in BOOLEAN /\ crashes' \in 0 .. MaxCrashes
      BY <1>30 DEF Crash, HistoryType, CallType, Building
    <2>2. Over(p) /\ UNCHANGED <<files, served, starts>>
      BY <1>30 DEF Crash
    <2>3. QED
      BY <2>1, <2>2, OverEffect DEF FilesType, HistoryType
  <1>31. QED
    BY <1>1, <1>2, <1>3, <1>4, <1>5, <1>6, <1>7, <1>9, <1>11, <1>12, <1>13, <1>14, <1>15,
       <1>16, <1>20, <1>21, <1>22, <1>23, <1>24, <1>25, <1>26, <1>27, <1>28, <1>29, <1>30
       DEF Move, Step
-------------------------------------------------------------------------------
(* The universe file: what a rewriter has read is complete, a truncated file *)
(* has a writer, and while nothing was spoiled there is only one of them.    *)
Rewriting == {"uopen", "uwrite"}
UniverseWhole ==
    ~spoiled =>
        /\ ~cut => Listed \subseteq DOMAIN universe
        /\ cut => \E p \in Procs : pc[p] = "uwrite"
        /\ \A p \in Procs : pc[p] \in Rewriting =>
              /\ Listed \subseteq DOMAIN lines[p]
              /\ \A q \in Procs : pc[q] \in Rewriting => q = p

(* A cache file whose symbol is not excused has at most one builder past its *)
(* second look, which found no usable list there.                            *)
LoneWriter ==
    \A p \in Procs : pc[p] \in Writing /\ sym[p] \notin excused =>
        /\ ~Usable(sym[p])
        /\ \A q \in Procs \ {p} : pc[q] \in Writing => sym[q] # sym[p]

(* What CheckedStaysUsable says holds in the calls of the run as well. *)
InRun == {"run", "loop", "load"} \cup Building
CheckedUsable ==
    \A p \in Procs :
        /\ pc[p] = "down" => checked[p] = {}
        /\ pc[p] \in InRun /\ phase[p] = "loop" => \A s \in checked[p] \ excused : Usable(s)

(* The one list that was handed out is the one in the file. *)
ServedIsStored ==
    \A s \in Symbols \ excused : served[s] # {} => Usable(s) /\ served[s] = {list[s]}

-------------------------------------------------------------------------------
(* A step that has nothing to do with the universe file. *)
LEMMA UniverseQuiet ==
  ASSUME UniverseWhole, NEW p \in Procs, Kept(p), UNCHANGED <<universe, cut>>,
         spoiled => spoiled', pc[p] # "uwrite" \/ spoiled', pc'[p] \notin Rewriting
  PROVE  UniverseWhole'
  <1> SUFFICES ASSUME ~spoiled' PROVE UniverseWhole'
    BY DEF UniverseWhole
  <1>1. ~spoiled /\ pc[p] # "uwrite"
    OBVIOUS
  <1>2. \A q \in Procs : pc'[q] \in Rewriting => /\ q # p /\ pc[q] \in Rewriting
                                                 /\ lines'[q] = lines[q]
    BY DEF Kept
  <1>3. cut' => \E q \in Procs : pc'[q] = "uwrite"
    BY <1>1 DEF UniverseWhole, Kept
  <1>4. \A q \in Procs : pc'[q] \in Rewriting =>
           /\ Listed \subseteq DOMAIN lines'[q]
           /\ \A r \in Procs : pc'[r] \in Rewriting => r = q
    BY <1>1, <1>2 DEF UniverseWhole
  <1>5. QED
    BY <1>1, <1>3, <1>4 DEF UniverseWhole

LEMMA UniverseStep ==
  ASSUME Typed, UniverseWhole, NEW p \in Procs, Move(p)
  PROVE  UniverseWhole'
  <1> USE DEF Typed
  <1>0. Kept(p)
    BY MoveTyped
  <1>1. CASE UniverseRead(p)
    <2> SUFFICES ASSUME ~spoiled' PROVE UniverseWhole'
      BY DEF UniverseWhole
    <2>1. /\ ~spoiled /\ \A q \in Procs \ {p} : pc[q] \notin Rewriting
          /\ pc[p] = "uread" /\ pc'[p] = "uopen" /\ UNCHANGED <<universe, cut>>
          /\ lines'[p] = Content
      BY <1>1 DEF UniverseRead, Goto, Rewriting, files, CommandType, CheckType
    <2>2. \A q \in Procs : pc[q] # "uwrite"
      BY <2>1 DEF Rewriting
    <2>3. ~cut /\ Listed \subseteq DOMAIN universe
      BY <2>1, <2>2 DEF UniverseWhole
    <2>4. Listed \subseteq DOMAIN lines'[p]
      BY <2>1, <2>3 DEF Content
    <2>5. \A q \in Procs \ {p} : pc'[q] \notin Rewriting
      BY <1>0, <2>1 DEF Kept
    <2>6. \A q \in Procs : pc'[q] \in Rewriting => q = p
      BY <2>5
    <2>7. QED
      BY <2>1, <2>3, <2>4, <2>6 DEF UniverseWhole
  <1>2. CASE UniverseOpen(p)
    <2> SUFFICES ASSUME ~spoiled' PROVE UniverseWhole'
      BY DEF UniverseWhole
    <2>1. ~spoiled /\ pc[p] = "uopen" /\ pc'[p] = "uwrite" /\ cut' = TRUE /\ UNCHANGED lines
      BY <1>2 DEF UniverseOpen, Goto, CommandType, check, history
    <2>2. \A q \in Procs : pc'[q] \in Rewriting => pc[q] \in Rewriting
      BY <1>0, <2>1 DEF Kept, Rewriting
    <2>3. QED
      BY <2>1, <2>2 DEF UniverseWhole
  <1>3. CASE UniverseWrite(p)
    <2> SUFFICES ASSUME ~spoiled' PROVE UniverseWhole'
      BY DEF UniverseWhole
    <2>1. /\ ~spoiled /\ pc[p] = "uwrite" /\ pc'[p] = "check" /\ cut' = FALSE
          /\ universe' = NewLines(lines[p], resolved[p])
      BY <1>3 DEF UniverseWrite, Goto, CommandType, history
    <2>2. \A q \in Procs : pc'[q] \notin Rewriting
      <3>1. \A q \in Procs : pc[q] \in Rewriting => q = p
        BY <2>1 DEF UniverseWhole, Rewriting
      <3>2. pc'[p] \notin Rewriting
        BY <2>1 DEF Rewriting
      <3>3. QED
        BY <1>0, <3>1, <3>2 DEF Kept
    <2>3. Listed \subseteq DOMAIN lines[p]
      BY <2>1 DEF UniverseWhole, Rewriting
    <2>4. DOMAIN lines[p] \subseteq DOMAIN universe'
      BY <2>1, NewLinesKeep DEF CheckType
    <2>5. QED
      BY <2>1, <2>2, <2>3, <2>4 DEF UniverseWhole
  <1>4. ASSUME UNCHANGED <<universe, cut>>, spoiled => spoiled',
               pc[p] # "uwrite" \/ spoiled', pc'[p] \notin Rewriting
        PROVE  UniverseWhole'
    BY <1>0, <1>4, UniverseQuiet
  <1>5. ASSUME NEW w \in Wanted \cup {{}}, NEW b \in BOOLEAN, NEW f \in BOOLEAN,
               StartChecked(p, w, b) \/ StartPlain(p, w, b, f)
        PROVE  UniverseWhole'
    BY <1>4, <1>5 DEF StartChecked, StartPlain, Goto, CommandType, Rewriting, files, history
  <1>6. ASSUME NEW s \in Symbols, NEW id \in {"id", "noid", "None"}, Resolve(p, s, id)
        PROVE  UniverseWhole'
    BY <1>4, <1>6 DEF Resolve, Rewriting, files, history
  <1>7. CASE Resolved(p)
    BY <1>4, <1>7 DEF Resolved, Goto, CommandType, Rewriting, files, history
  <1>8. CASE CheckPasses(p) \/ Rebuild(p) \/ Rebuilt(p) \/ Run(p)
    BY <1>4, <1>8 DEF CheckPasses, Rebuild, Rebuilt, Run, Goto, CommandType, Rewriting, files, history
  <1>9. CASE CheckFails(p) \/ RunRaises(p) \/ SessionRaises(p) \/ RunEnds(p)
    <2>1. Over(p) /\ UNCHANGED <<files, history>> /\ pc[p] # "uwrite"
      BY <1>9 DEF CheckFails, RunRaises, SessionRaises, RunEnds
    <2>2. pc'[p] \notin Rewriting
      BY <2>1, OverEffect DEF Rewriting
    <2>3. QED
      BY <1>4, <2>1, <2>2 DEF files, history
  <1>10. ASSUME NEW s \in Symbols, RebuildFails(p, s) \/ Skip(p, s) \/ Call(p, s)
         PROVE  UniverseWhole'
    BY <1>4, <1>10 DEF RebuildFails, Skip, Call, Goto, CommandType, Rewriting, files, history
  <1>11. ASSUME Return(p), UNCHANGED <<universe, cut, spoiled>>, pc[p] # "uwrite"
         PROVE  UniverseWhole'
    <2>1. pc'[p] = phase[p] /\ phase[p] \in {"rebuild", "loop"}
      BY <1>11 DEF Return, Goto, CommandType
    <2>2. QED
      BY <1>4, <1>11, <2>1 DEF Rewriting
  <1>12. CASE LoadServes(p) \/ NoChain(p) \/ SaveCache(p)
    BY <1>11, <1>12 DEF LoadServes, NoChain, SaveCache, files, history
  <1>13. CASE LoadRaises(p) \/ FetchRaises(p) \/ CompareRaises(p)
    BY <1>11, <1>13 DEF LoadRaises, FetchRaises, CompareRaises, Raise, files, history
  <1>14. CASE LoadMisses(p) \/ OpenCache(p)
    BY <1>4, <1>14 DEF LoadMisses, OpenCache, Goto, CommandType, Rewriting, files, history
  <1>15. ASSUME NEW c \in Chains, Fetch(p, c) PROVE UniverseWhole'
    BY <1>4, <1>15 DEF Fetch, Goto, CommandType, Rewriting, files, history
  <1>16. ASSUME NEW x, NEW max, Compare(p, x, max) PROVE UniverseWhole'
    BY <1>4, <1>16 DEF Compare, Goto, CommandType, Rewriting, files
  <1>17. ASSUME NEW x, NEW max, NothingInScope(p, x, max) PROVE UniverseWhole'
    BY <1>11, <1>17 DEF NothingInScope, files, history
  <1>18. ASSUME NEW L \in SUBSET found[p], Qualify(p, L) PROVE UniverseWhole'
    BY <1>4, <1>18 DEF Qualify, Goto, CommandType, Rewriting, files, history
  <1>19. CASE Crash(p)
    <2>1. /\ Over(p) /\ UNCHANGED <<universe, cut>> /\ (spoiled => spoiled')
          /\ pc[p] # "uwrite" \/ spoiled'
      BY <1>19 DEF Crash, files
    <2>2. pc'[p] \notin Rewriting
      BY <2>1, OverEffect DEF Rewriting
    <2>3. QED
      BY <1>4, <2>1, <2>2
  <1>20. QED
    BY <1>1, <1>2, <1>3, <1>5, <1>6, <1>7, <1>8, <1>9, <1>10, <1>12, <1>13, <1>14, <1>15,
       <1>16, <1>17, <1>18, <1>19 DEF Move, Step
-------------------------------------------------------------------------------
CacheOK == LoneWriter /\ CheckedUsable /\ ServedIsStored

(* A process that comes to the run loop, or stays there, has not checked     *)
(* more than it had, and one that writes a list did so before.               *)
Entitled(p) ==
    /\ pc'[p] \in Writing => pc[p] \in Writing /\ sym'[p] = sym[p]
    /\ pc'[p] = "down" => checked'[p] = {}
    /\ pc'[p] \in InRun /\ phase'[p] = "loop" =>
          \/ \A s \in checked'[p] : Usable(s)
          \/ pc[p] \in InRun /\ phase[p] = "loop" /\ checked'[p] = checked[p]

(* A step that writes no cache file and hands out no list. *)
LEMMA CacheQuiet ==
  ASSUME CacheOK, NEW p \in Procs, Kept(p), UNCHANGED <<state, list, served>>,
         excused \subseteq excused', Entitled(p)
  PROVE  CacheOK'
  <1>1. \A s : Usable(s)' <=> Usable(s)
    BY DEF Usable
  <1>2. \A q \in Procs : pc'[q] \in Writing => pc[q] \in Writing /\ sym'[q] = sym[q]
    BY DEF Kept, Entitled
  <1>3. LoneWriter'
    BY <1>1, <1>2 DEF CacheOK, LoneWriter
  <1>4. CheckedUsable'
    <2>1. ASSUME NEW q \in Procs
          PROVE  /\ pc'[q] = "down" => checked'[q] = {}
                 /\ pc'[q] \in InRun /\ phase'[q] = "loop" =>
                       \A s \in checked'[q] \ excused' : Usable(s)'
      <3>1. CASE q = p
        BY <1>1, <3>1 DEF CacheOK, CheckedUsable, Entitled
      <3>2. CASE q # p
        BY <1>1, <3>2 DEF CacheOK, CheckedUsable, Kept
      <3>3. QED
        BY <3>1, <3>2
    <2>2. QED
      BY <2>1 DEF CheckedUsable
  <1>5. ServedIsStored'
    BY <1>1 DEF CacheOK, ServedIsStored
  <1>6. QED
    BY <1>3, <1>4, <1>5 DEF CacheOK

(* The lone writer of symbol s writes the file that nobody relies on yet: it *)
(* empties it, or leaves its list there and hands it out.                    *)
LEMMA CacheWrite ==
  ASSUME Typed, CacheOK, NEW p \in Procs, Kept(p), NEW s \in Symbols, s = sym[p],
         pc[p] \in {"open", "save"}, UNCHANGED <<excused, checked>>,
         \A r \in Symbols \ {s} : /\ state'[r] = state[r] /\ list'[r] = list[r]
                                  /\ served'[r] = served[r],
         pc'[p] \in Writing => sym'[p] = s /\ ~Usable(s)',
         pc'[p] # "down", phase'[p] = phase[p],
         served'[s] = served[s] \/ (Usable(s)' /\ served'[s] = served[s] \cup {list'[s]})
  PROVE  CacheOK'
  <1>1. pc[p] \in Writing /\ pc[p] \in InRun
    BY DEF Writing, InRun, Building
  <1>2. s \notin excused => /\ ~Usable(s) /\ served[s] = {}
                            /\ \A q \in Procs \ {p} : pc[q] \in Writing => sym[q] # s
    BY <1>1 DEF CacheOK, LoneWriter, ServedIsStored
  <1>3. \A r \in Symbols \ {s} : Usable(r)' <=> Usable(r)
    BY DEF Usable
  <1>4. LoneWriter'
    <2> SUFFICES ASSUME NEW q \in Procs, pc'[q] \in Writing, NEW u, u = sym'[q], u \notin excused
                 PROVE  /\ ~(state'[u] = "whole" /\ list'[u] # {})
                        /\ \A r \in Procs \ {q} : pc'[r] \in Writing => sym'[r] # u
      BY DEF LoneWriter, Usable
    <2>1. CASE q = p
      <3>1. u = s /\ ~Usable(s)'
        BY <2>1
      <3>2. \A r \in Procs \ {p} : pc'[r] \in Writing => sym'[r] # s
        BY <1>2, <3>1 DEF Kept
      <3>3. QED
        BY <2>1, <3>1, <3>2 DEF Usable
    <2>2. CASE q # p
      <3>1. pc[q] \in Writing /\ u = sym[q] /\ u \notin excused
        BY <2>2 DEF Kept
      <3>2. u \in Symbols
        BY <3>1 DEF Typed, CallType, Writing, Building
      <3>3. u # s
        BY <1>2, <2>2, <3>1
      <3>4. ~Usable(u) /\ \A r \in Procs \ {q} : pc[r] \in Writing => sym[r] # u
        BY <3>1 DEF CacheOK, LoneWriter
      <3>5. \A r \in Procs \ {q} : pc'[r] \in Writing => sym'[r] # u
        BY <3>3, <3>4 DEF Kept
      <3>6. ~Usable(u)'
        BY <1>3, <3>2, <3>3, <3>4
      <3>7. QED
        BY <3>5, <3>6 DEF Usable
    <2>3. QED
      BY <2>1, <2>2
  <1>5. CheckedUsable'
    <2> SUFFICES ASSUME NEW q \in Procs
                 PROVE  /\ pc'[q] = "down" => checked'[q] = {}
                        /\ pc'[q] \in InRun /\ phase'[q] = "loop" =>
                              \A r \in checked'[q] \ excused' : Usable(r)'
      BY DEF CheckedUsable
    <2>1. pc'[q] = "down" => q # p /\ pc[q] = "down" /\ checked[q] = {}
      BY DEF Kept, CacheOK, CheckedUsable
    <2>2. ASSUME pc'[q] \in InRun, phase'[q] = "loop", NEW r \in checked[q] \ excused
          PROVE  Usable(r)'
      <3>1. pc[q] \in InRun /\ phase[q] = "loop"
        BY <1>1, <2>2 DEF Kept
      <3>2. Usable(r) /\ r \in Symbols
        BY <3>1 DEF CacheOK, CheckedUsable, Typed, CheckType
      <3>3. QED
        BY <1>2, <1>3, <3>2
    <2>3. QED
      BY <2>1, <2>2
  <1>6. ServedIsStored'
    <2> SUFFICES ASSUME NEW r \in Symbols \ excused, served'[r] # {}
                 PROVE  Usable(r)' /\ served'[r] = {list'[r]}
      BY DEF ServedIsStored
    <2>1. CASE r = s
      BY <1>2, <2>1
    <2>2. CASE r # s
      BY <1>3, <2>2 DEF CacheOK, ServedIsStored
    <2>3. QED
      BY <2>1, <2>2
  <1>7. QED
    BY <1>4, <1>5, <1>6 DEF CacheOK

(* The second look: the list is not usable, or the symbol is excused; and    *)
(* nobody else is past its own, or the symbol is excused.                    *)
LEMMA CompareStep ==
  ASSUME Typed, CacheOK, NEW p \in Procs, Kept(p), NEW x, NEW max, Compare(p, x, max)
  PROVE  CacheOK'
  <1>1. /\ pc[p] = "compare" /\ pc'[p] = "qualify"
        /\ Usable(sym[p]) => StrikesOf(list[sym[p]]) = chain[p]
        /\ excused' = IF Overlaps(p) \/ StrikesOf(list[sym[p]]) = chain[p]
                      THEN excused \cup {sym[p]} ELSE excused
        /\ UNCHANGED <<state, list, served, checked, sym, phase>>
    BY DEF Compare, Agrees, Goto, Typed, CommandType, files, check
  <1>2. \A s : Usable(s)' <=> Usable(s)
    BY <1>1 DEF Usable
  <1>3. excused \subseteq excused'
    BY <1>1
  <1>4. sym[p] \notin excused' => /\ ~Usable(sym[p])
                                  /\ \A q \in Procs \ {p} : pc[q] \in Writing => sym[q] # sym[p]
    BY <1>1 DEF Overlaps
  <1>5. LoneWriter'
    <2> SUFFICES ASSUME NEW q \in Procs, pc'[q] \in Writing, NEW u, u = sym'[q], u \notin excused'
                 PROVE  /\ ~(state'[u] = "whole" /\ list'[u] # {})
                        /\ \A r \in Procs \ {q} : pc'[r] \in Writing => sym'[r] # u
      BY DEF LoneWriter, Usable
    <2>1. u = sym[q] /\ \A r \in Procs \ {p} : pc'[r] = pc[r] /\ sym'[r] = sym[r]
      BY <1>1 DEF Kept
    <2>2. CASE q = p
      BY <1>2, <1>4, <2>1, <2>2 DEF Usable
    <2>3. CASE q # p
      <3>1. ~Usable(u) /\ \A r \in Procs \ {q} : pc[r] \in Writing => sym[r] # u
        BY <1>3, <2>1, <2>3 DEF CacheOK, LoneWriter
      <3>2. sym[p] # u
        BY <1>4, <2>1, <2>3
      <3>3. QED
        BY <1>1, <1>2, <2>1, <3>1, <3>2 DEF Usable
    <2>4. QED
      BY <2>2, <2>3
  <1>6. CheckedUsable'
    <2>1. \A q \in Procs : /\ pc'[q] = "down" => pc[q] = "down"
                           /\ pc'[q] \in InRun => pc[q] \in InRun
                           /\ phase'[q] = phase[q] /\ checked'[q] = checked[q]
      BY <1>1 DEF Kept, InRun, Building
    <2>2. QED
      BY <1>2, <1>3, <2>1 DEF CacheOK, CheckedUsable
  <1>7. ServedIsStored'
    BY <1>1, <1>2, <1>3 DEF CacheOK, ServedIsStored
  <1>8. QED
    BY <1>5, <1>6, <1>7 DEF CacheOK

(* A hit hands out what is stored. *)
LEMMA LoadStep ==
  ASSUME Typed, CacheOK, NEW p \in Procs, Kept(p), LoadServes(p)
  PROVE  CacheOK'
  <1>1. PICK s \in Symbols : s = sym[p]
    BY DEF LoadServes, Typed, CallType
  <1>2. /\ pc[p] = "load" /\ Usable(s)
        /\ served' = [served EXCEPT ![s] = IF list[s] = {} THEN @ ELSE @ \cup {list[s]}]
        /\ Return(p) /\ UNCHANGED <<files, check, excused>>
    BY <1>1 DEF LoadServes, Hit, Serve
  <1>3. pc'[p] = phase[p] /\ phase[p] \in {"rebuild", "loop"} /\ phase'[p] = phase[p]
    BY <1>2 DEF Return, Goto, Typed, CommandType
  <1>4. UNCHANGED <<state, list, checked>> /\ \A r : Usable(r)' <=> Usable(r)
    BY <1>2 DEF files, check, Usable
  <1>5. served'[s] = served[s] \cup {list[s]} /\ \A r \in Symbols \ {s} : served'[r] = served[r]
    BY <1>2 DEF Typed, HistoryType, Usable
  <1>6. \A q \in Procs : pc'[q] \in Writing => q # p
    BY <1>3 DEF Writing
  <1>7. LoneWriter'
    <2>1. \A q \in Procs : pc'[q] \in Writing => pc[q] \in Writing /\ sym'[q] = sym[q]
      BY <1>6 DEF Kept
    <2>2. QED
      BY <1>2, <1>4, <2>1 DEF CacheOK, LoneWriter
  <1>8. CheckedUsable'
    <2>1. \A q \in Procs : /\ pc'[q] = "down" => pc[q] = "down"
                           /\ pc'[q] \in InRun => pc[q] \in InRun
                           /\ phase'[q] = phase[q] /\ checked'[q] = checked[q]
      BY <1>2, <1>3, <1>4 DEF Kept, InRun
    <2>2. QED
      BY <1>2, <1>4, <2>1 DEF CacheOK, CheckedUsable
  <1>9. ServedIsStored'
    BY <1>2, <1>4, <1>5 DEF CacheOK, ServedIsStored
  <1>10. QED
    BY <1>7, <1>8, <1>9 DEF CacheOK

LEMMA CacheStep ==
  ASSUME Typed, CacheOK, NEW p \in Procs, Move(p)
  PROVE  CacheOK'
  <1> USE DEF Typed
  <1>0. Kept(p)
    BY MoveTyped
  <1>1. ASSUME UNCHANGED <<state, list, served>>, excused \subseteq excused', Entitled(p)
        PROVE  CacheOK'
    BY <1>0, <1>1, CacheQuiet
  <1>2. ASSUME NEW w \in Wanted \cup {{}}, NEW b \in BOOLEAN, StartChecked(p, w, b)
        PROVE  CacheOK'
    BY <1>1, <1>2 DEF StartChecked, Goto, CommandType, Entitled, Writing, InRun, Building,
                      files, history
  <1>3. ASSUME NEW w \in Wanted \cup {{}}, NEW b \in BOOLEAN, NEW f \in BOOLEAN,
               StartPlain(p, w, b, f)
        PROVE  CacheOK'
    <2>1. pc'[p] = "run" /\ UNCHANGED <<state, list, served, excused, checked>> /\ pc[p] = "down"
      BY <1>3 DEF StartPlain, Goto, CommandType, files, history, check
    <2>2. checked'[p] = {}
      BY <2>1 DEF CacheOK, CheckedUsable
    <2>3. Entitled(p)
      BY <2>1, <2>2 DEF Entitled, Writing
    <2>4. QED
      BY <1>1, <2>1, <2>3
  <1>4. ASSUME NEW s \in Symbols, NEW id \in {"id", "noid", "None"}, Resolve(p, s, id)
        PROVE  CacheOK'
    <2>1. UNCHANGED <<files, pc, checked, call, history>> /\ pc[p] = "resolve"
      BY <1>4 DEF Resolve
    <2>2. QED
      BY <1>1, <2>1 DEF Entitled, Writing, InRun, Building, files, call, history
  <1>5. ASSUME NEW step \in {"check", "uread", "uopen", "uwrite", "rebuild", "recheck"},
               Goto(p, step), UNCHANGED <<state, list, served, excused, checked>>
        PROVE  CacheOK'
    <2>1. pc'[p] = step
      BY <1>5 DEF Goto, CommandType
    <2>2. Entitled(p)
      BY <2>1 DEF Entitled, Writing, InRun, Building
    <2>3. QED
      BY <1>1, <1>5, <2>2
  <1>6. CASE Resolved(p)
    BY <1>5, <1>6 DEF Resolved, files, check, history
  <1>7. CASE UniverseRead(p) \/ UniverseOpen(p) \/ UniverseWrite(p)
    BY <1>5, <1>7 DEF UniverseRead, UniverseOpen, UniverseWrite, files, check, history
  <1>8. CASE Rebuild(p) \/ Rebuilt(p)
    BY <1>5, <1>8 DEF Rebuild, Rebuilt, files, check, history
  <1>9. CASE CheckPasses(p)
    <2>1. pc'[p] = "run" /\ UNCHANGED <<state, list, served, excused, checked>>
      BY <1>9 DEF CheckPasses, Goto, CommandType, files, history, check
    <2>2. Bad(p) = {}
      BY <1>9 DEF CheckPasses, Recheck
    <2>3. \A s \in checked'[p] : Usable(s)
      BY <2>1, <2>2 DEF Bad
    <2>4. Entitled(p)
      BY <2>1, <2>3 DEF Entitled, Writing
    <2>5. QED
      BY <1>1, <2>1, <2>4
  <1>10. ASSUME Over(p), UNCHANGED <<state, list, served>>, excused \subseteq excused'
         PROVE  CacheOK'
    <2>1. pc'[p] = "down" /\ checked'[p] = {}
      BY <1>10, OverEffect
    <2>2. Entitled(p)
      BY <2>1 DEF Entitled, Writing, InRun, Building
    <2>3. QED
      BY <1>1, <1>10, <2>2
  <1>11. CASE CheckFails(p) \/ RunRaises(p) \/ SessionRaises(p) \/ RunEnds(p)
    BY <1>10, <1>11 DEF CheckFails, RunRaises, SessionRaises, RunEnds, files, history
  <1>12. ASSUME NEW s \in Symbols, RebuildFails(p, s) \/ Skip(p, s) PROVE CacheOK'
    <2>1. UNCHANGED <<files, pc, checked, call, history>> /\ pc[p] \in {"rebuild", "loop"}
      BY <1>12 DEF RebuildFails, Skip, check
    <2>2. Entitled(p)
      BY <2>1 DEF Entitled, Writing, call
    <2>3. QED
      BY <1>1, <2>1, <2>2 DEF files, history
  <1>13. ASSUME NEW s \in Symbols, Call(p, s) PROVE CacheOK'
    <2>1. /\ pc'[p] = "load" /\ pc[p] = phase[p]
          /\ UNCHANGED <<state, list, served, excused, checked, phase>>
      BY <1>13 DEF Call, Goto, CommandType, files, history, check
    <2>2. Entitled(p)
      BY <2>1 DEF Entitled, Writing, InRun
    <2>3. QED
      BY <1>1, <2>1, <2>2
  <1>14. CASE Run(p)
    <2>1. /\ pc[p] = "run" /\ pc'[p] = "loop"
          /\ UNCHANGED <<state, list, served, excused, checked, phase>>
      BY <1>14 DEF Run, Goto, CommandType, files, history, check, call
    <2>2. Entitled(p)
      BY <2>1 DEF Entitled, Writing, InRun
    <2>3. QED
      BY <1>1, <2>1, <2>2
  <1>15. ASSUME pc[p] \in Building \cup {"load"}, Return(p),
                UNCHANGED <<state, list, served, excused, checked>>
         PROVE  CacheOK'
    <2>1. pc'[p] = phase[p] /\ phase[p] \in {"rebuild", "loop"} /\ phase'[p] = phase[p]
      BY <1>15 DEF Return, Goto, CommandType
    <2>2. pc'[p] \notin Writing /\ pc'[p] # "down"
      BY <2>1 DEF Writing
    <2>3. pc[p] \in InRun
      BY <1>15 DEF InRun
    <2>4. Entitled(p)
      BY <1>15, <2>1, <2>2, <2>3 DEF Entitled
    <2>5. QED
      BY <1>1, <1>15, <2>4
  <1>16. CASE LoadRaises(p) \/ FetchRaises(p) \/ CompareRaises(p)
    <2>1. Return(p) /\ pc[p] \in {"load", "fetch", "compare"} /\ UNCHANGED <<files, checked, history>>
      BY <1>16 DEF LoadRaises, FetchRaises, CompareRaises, Raise
    <2>2. QED
      BY <1>15, <2>1 DEF files, history, Building
  <1>17. CASE NoChain(p)
    BY <1>15, <1>17 DEF NoChain, files, history, check, Building
  <1>18. ASSUME NEW x, NEW max, NothingInScope(p, x, max) PROVE CacheOK'
    BY <1>15, <1>18 DEF NothingInScope, files, history, check, Building
  <1>19. ASSUME pc[p] \in Building \cup {"load"}, NEW step \in Building, Goto(p, step),
                step \in Writing => pc[p] \in Writing,
                UNCHANGED <<state, list, served, excused, checked, sym, phase>>
         PROVE  CacheOK'
    <2>1. pc'[p] = step /\ step # "down"
      BY <1>19 DEF Goto, CommandType, Building
    <2>2. pc[p] \in InRun
      BY <1>19 DEF InRun
    <2>3. Entitled(p)
      BY <1>19, <2>1, <2>2 DEF Entitled
    <2>4. QED
      BY <1>1, <1>19, <2>3
  <1>20. CASE LoadMisses(p)
    <2>1. "fetch" \in Building /\ "fetch" \notin Writing
      BY DEF Building, Writing
    <2>2. QED
      BY <1>19, <1>20, <2>1 DEF LoadMisses, files, history, check, call
  <1>21. ASSUME NEW c \in Chains, Fetch(p, c) PROVE CacheOK'
    <2>1. {"fetch", "compare"} \subseteq Building /\ "compare" \notin Writing
      BY DEF Building, Writing
    <2>2. QED
      BY <1>19, <1>21, <2>1 DEF Fetch, files, history, check
  <1>22. ASSUME NEW L \in SUBSET found[p], Qualify(p, L) PROVE CacheOK'
    <2>1. {"qualify", "open"} \subseteq Building /\ "qualify" \in Writing
      BY DEF Building, Writing
    <2>2. QED
      BY <1>19, <1>22, <2>1 DEF Qualify, files, check, history
  <1>23. CASE OpenCache(p)
    <2>1. PICK s \in Symbols : s = sym[p]
      BY <1>23 DEF OpenCache, CallType, Building
    <2>2. /\ pc[p] = "open" /\ pc'[p] = "save"
          /\ state' = [state EXCEPT ![s] = "torn"] /\ list' = [list EXCEPT ![s] = {}]
          /\ UNCHANGED <<served, excused, checked, sym, phase>>
      BY <1>23, <2>1 DEF OpenCache, Goto, CommandType, check, call, history
    <2>3. /\ ~Usable(s)'
          /\ \A r \in Symbols \ {s} : /\ state'[r] = state[r] /\ list'[r] = list[r]
                                      /\ served'[r] = served[r]
      BY <2>2 DEF FilesType, Usable
    <2>4. QED
      BY <1>0, <2>1, <2>2, <2>3, CacheWrite
  <1>24. CASE SaveCache(p)
    <2>1. PICK s \in Symbols : s = sym[p]
      BY <1>24 DEF SaveCache, CallType, Building
    <2>2. /\ pc[p] = "save" /\ Return(p)
          /\ state' = [state EXCEPT ![s] = "whole"] /\ list' = [list EXCEPT ![s] = found[p]]
          /\ served' = [served EXCEPT ![s] = IF found[p] = {} THEN @ ELSE @ \cup {found[p]}]
          /\ UNCHANGED <<excused, checked>>
      BY <1>24, <2>1 DEF SaveCache, Serve, check
    <2>3. pc'[p] = phase[p] /\ phase[p] \in {"rebuild", "loop"} /\ phase'[p] = phase[p]
      BY <2>2 DEF Return, Goto, CommandType
    <2>4. pc'[p] \notin Writing /\ pc'[p] # "down"
      BY <2>3 DEF Writing
    <2>5. /\ served'[s] = served[s] \/ (Usable(s)' /\ served'[s] = served[s] \cup {list'[s]})
          /\ \A r \in Symbols \ {s} : /\ state'[r] = state[r] /\ list'[r] = list[r]
                                      /\ served'[r] = served[r]
      BY <2>2 DEF FilesType, HistoryType, Usable
    <2>6. QED
      BY <1>0, <2>1, <2>2, <2>3, <2>4, <2>5, CacheWrite
  <1>25. CASE Crash(p)
    BY <1>10, <1>25 DEF Crash, files
  <1>26. QED
    BY <1>0, <1>2, <1>3, <1>4, <1>6, <1>7, <1>8, <1>9, <1>11, <1>12, <1>13, <1>14, <1>16, <1>17,
       <1>18, <1>20, <1>21, <1>22, <1>23, <1>24, <1>25, CompareStep, LoadStep DEF Move, Step

-------------------------------------------------------------------------------
(* The inductive invariant. *)
IInv == Typed /\ UniverseWhole /\ CacheOK

LEMMA InitOK == Init => IInv
  <1> SUFFICES ASSUME Init PROVE IInv
    OBVIOUS
  <1> USE DiscoveryAssumption DEF Init
  <1>1. FilesType
    <2>1. universe \in [Listed -> Values] /\ Listed \in SUBSET Symbols
      BY DEF Values, Symbols
    <2>2. universe \in Tables(Values)
      BY <2>1, TableType
    <2>3. QED
      BY <2>2 DEF FilesType
  <1>2. CommandType
    BY DEF CommandType, Steps
  <1>3. CheckType
    BY NoTableType DEF CheckType
  <1>4. CallType
    BY DEF CallType, Building
  <1>5. HistoryType
    <2>1. MaxStarts \in Nat /\ MaxCrashes \in Nat
      OBVIOUS
    <2>2. 0 \in 0 .. MaxStarts /\ 0 \in 0 .. MaxCrashes
      BY <2>1
    <2>3. served \in [Symbols -> SUBSET (SUBSET Contracts)] /\ excused \subseteq Symbols
      OBVIOUS
    <2>4. QED
      BY <2>2, <2>3 DEF HistoryType
  <1>6. UniverseWhole
    BY DEF UniverseWhole, Rewriting
  <1>7. CacheOK
    BY DEF CacheOK, LoneWriter, CheckedUsable, ServedIsStored, Writing, InRun, Building
  <1>8. QED
    BY <1>1, <1>2, <1>3, <1>4, <1>5, <1>6, <1>7 DEF IInv, Typed

LEMMA StepOK == IInv /\ [Next]_vars => IInv'
  <1> SUFFICES ASSUME IInv, [Next]_vars PROVE IInv'
    OBVIOUS
  <1>1. ASSUME NEW p \in Procs, Move(p) PROVE IInv'
    BY <1>1, MoveTyped, UniverseStep, CacheStep DEF IInv
  <1>2. CASE UNCHANGED vars
    <2> USE <1>2 DEF vars, files, command, check, call, history, bounds
    <2>1. Typed'
      BY DEF IInv, Typed, FilesType, CommandType, CheckType, CallType, HistoryType
    <2>2. UniverseWhole'
      BY Zenon DEF IInv, UniverseWhole
    <2>3. CacheOK'
      BY Zenon DEF IInv, CacheOK, LoneWriter, CheckedUsable, ServedIsStored, Usable
    <2>4. QED
      BY <2>1, <2>2, <2>3 DEF IInv
  <1>3. QED
    BY <1>1, <1>2 DEF Next, Move

LEMMA Invariance == Spec => []IInv
  BY InitOK, StepOK, PTL DEF Spec

(* The files, the commands and their calls hold what they may hold. *)
THEOREM TypeCorrect == Spec => []TypeOK
<1>1. IInv => TypeOK
  BY DEF IInv, Typed, FilesType, CommandType, CheckType, CallType, HistoryType, TypeOK, Values
<1>2. QED
  BY <1>1, Invariance, PTL

(* _update_universe_file loses no line of the universe, however many         *)
(* prechecks run, as long as no two of them write at once and none dies.     *)
THEOREM UniverseSurvives == Spec => []UniverseKept
<1>1. IInv => UniverseKept
  BY DEF IInv, UniverseWhole, UniverseKept
<1>2. QED
  BY <1>1, Invariance, PTL

(* After a passed precheck nobody, not even another run, takes a usable list *)
(* away from the run.                                                        *)
THEOREM CheckStands == Spec => []CheckedStaysUsable
<1>1. IInv => CheckedStaysUsable
  BY DEF IInv, CacheOK, CheckedUsable, CheckedStaysUsable, InRun
<1>2. QED
  BY <1>1, Invariance, PTL

(* Every caller of discover_contracts_for_symbol is given the same contracts *)
(* of a symbol all day.                                                      *)
THEOREM SameListForAll == Spec => []OneListPerDay
<1>1. IInv => OneListPerDay
  <2> SUFFICES ASSUME IInv, NEW s \in Symbols \ excused PROVE Cardinality(served[s]) <= 1
    BY DEF OneListPerDay
  <2>1. served[s] = {} \/ served[s] = {list[s]}
    BY DEF IInv, CacheOK, ServedIsStored
  <2>2. Cardinality({}) = 0 /\ Cardinality({list[s]}) = 1
    BY FS_EmptySet, FS_Singleton
  <2>3. QED
    BY <2>1, <2>2
<1>2. QED
  BY <1>1, Invariance, PTL
================================================================================
