------------------------------- MODULE Discovery -------------------------------
(***************************************************************************)
(* The contract lists of one trade date: discover_contracts_for_symbol and *)
(* the cache file per symbol it serves and rebuilds (ib/discovery.py), the *)
(* check of these files before a run (_precheck_contract_caches in cli.py) *)
(* and the universe file, which gives a symbol its conid and is rewritten  *)
(* by that check.  The processes are the commands that want lists: the     *)
(* ones with a precheck (close-snapshot, schedule), those that rebuild on  *)
(* the way (snapshot, history) and backfill, which never rebuilds.         *)
(*                                                                         *)
(* A contract is an expiry and a strike; both rights are one.  A list is   *)
(* the set of its contracts, as the code sorts it.  The sessions are those *)
(* of ClientIdPool.                                                        *)
(***************************************************************************)
EXTENDS Integers, FiniteSets

CONSTANTS Procs,
          Listed,      \* symbols of the universe file
          Wanted,      \* values of --symbols; {} is the whole universe
          Known,       \* symbols that have their conid in the file at first
          Chains,      \* strikes reqSecDefOptParams may answer with
          Expiries,    \* its expirations: records of days, friday, far, monthly, quarterly
          Prices,      \* reference prices a process may find; history takes 0 for none
          MoneynessPct, Cap, Kinds, Cutoff,   \* cfg.filters, cfg.acquisition
          MaxStarts, MaxCrashes               \* bounds

Symbols   == Listed \cup UNION Wanted
Strikes   == UNION Chains
Contracts == Expiries \X Strikes
Nobody    == "none"

ASSUME DiscoveryAssumption ==
    /\ Known \subseteq Listed /\ Listed # {} /\ Nobody \notin Procs
    /\ Strikes \subseteq Nat /\ Prices \subseteq Nat
    /\ MoneynessPct \in 0 .. 100 /\ {Cap, Cutoff, MaxStarts, MaxCrashes} \subseteq Nat

VARIABLES universe,  \* the file: listed symbols |-> "id", "noid" or "None"
          cut,       \* the universe file is truncated, by a writer or by its death
          state,     \* cache file: symbol |-> "absent", "torn" or "whole"
          list,      \* symbol |-> contracts in the whole file
          pc, build, force,
          wanted,    \* proc |-> --symbols
          lines,     \* proc |-> what _update_universe_file has read
          resolved,  \* proc |-> symbol |-> conid found by this precheck
          checked,   \* proc |-> symbols its precheck has passed for
          todo,      \* proc |-> symbols the present loop has left
          invalid,   \* proc |-> symbols that failed in the precheck
          sym, chain, found,   \* the call of discover_contracts_for_symbol
          phase,     \* proc |-> the loop that calls it
          served,    \* history: symbol |-> nonempty lists handed out
          excused,   \* history: symbols of which the code promises nothing more
          spoiled,   \* history: the universe file was hit by a race or a death
          starts, crashes

files   == <<universe, cut, state, list>>
command == <<build, force, wanted>>
check   == <<lines, resolved, checked, invalid>>
call    == <<sym, chain, found, phase>>
history == <<served, excused, spoiled>>
bounds  == <<starts, crashes>>
vars == <<files, pc, command, check, todo, call, history, bounds>>

Building == {"fetch", "compare", "qualify", "open", "save"}
Writing  == {"qualify", "open", "save"}
Steps    == {"down", "begin", "resolve", "uread", "uopen", "uwrite", "check", "rebuild",
             "recheck", "run", "loop", "load"} \cup Building
Tables(Ids) == UNION {[S -> Ids] : S \in SUBSET Symbols}
NoTable  == [s \in {} |-> "noid"]

TypeOK ==
    /\ universe \in Tables({"id", "noid", "None"}) /\ cut \in BOOLEAN
    /\ state \in [Symbols -> {"absent", "torn", "whole"}]
    /\ list \in [Symbols -> SUBSET Contracts]
    /\ pc \in [Procs -> Steps] /\ build \in [Procs -> BOOLEAN] /\ force \in [Procs -> BOOLEAN]
    /\ wanted \in [Procs -> Wanted \cup {{}}] /\ phase \in [Procs -> {"rebuild", "loop"}]
    /\ \A p \in Procs :
        /\ lines[p] \in Tables({"id", "noid", "None"}) /\ resolved[p] \in Tables({"id", "None"})
        /\ checked[p] \subseteq Symbols /\ todo[p] \subseteq Symbols /\ invalid[p] \subseteq Symbols
        /\ sym[p] \in Symbols \cup {Nobody}
        /\ pc[p] \in Building \cup {"load"} => sym[p] \in Symbols
        /\ chain[p] \subseteq Strikes /\ found[p] \subseteq Contracts
    /\ served \in [Symbols -> SUBSET (SUBSET Contracts)] /\ excused \subseteq Symbols
    /\ spoiled \in BOOLEAN /\ starts \in 0 .. MaxStarts /\ crashes \in 0 .. MaxCrashes

Init ==
    /\ universe = [s \in Listed |-> IF s \in Known THEN "id" ELSE "noid"] /\ cut = FALSE
    /\ state = [s \in Symbols |-> "absent"] /\ list = [s \in Symbols |-> {}]
    /\ pc = [p \in Procs |-> "down"] /\ phase = [p \in Procs |-> "loop"]
    /\ build = [p \in Procs |-> TRUE] /\ force = [p \in Procs |-> FALSE]
    /\ wanted = [p \in Procs |-> {}]
    /\ lines = [p \in Procs |-> NoTable] /\ resolved = lines
    /\ todo = [p \in Procs |-> {}] /\ invalid = todo /\ checked = todo
    /\ sym = [p \in Procs |-> Nobody] /\ chain = todo /\ found = todo
    /\ served = [s \in Symbols |-> {}] /\ excused = {} /\ spoiled = FALSE
    /\ starts = 0 /\ crashes = 0
-------------------------------------------------------------------------------
(* Choice of the contracts, from the answers of the gateway. *)
Distance(s, x) == IF s >= x THEN s - x ELSE x - s
InBand(s, x) == /\ 100 * s >= x * (100 - MoneynessPct)
                /\ 100 * s <= x * (100 + MoneynessPct)

(* The first max of a set in the order of distance, the smaller first. *)
Nearest(S, x, max) ==
    IF max = 0 THEN S
    ELSE {s \in S : Cardinality({t \in S : \/ Distance(t, x) < Distance(s, x)
                                           \/ Distance(t, x) = Distance(s, x) /\ t < s}) < max}

(* _select_strikes: multiples of five in the band before all in the band before all. *)
StrikeCandidates(S, x, max) ==
    LET band == {s \in S : InBand(s, x)}
        fives == {s \in band : s # 0 /\ s % 5 = 0}
    IN  Nearest(IF fives # {} THEN fives ELSE IF band # {} THEN band ELSE S, x, max)

(* _select_expirations_spy_style: Fridays of the next 30 days, then third Fridays. *)
NearOrFar == {e \in Expiries : \/ e.days \in 0 .. 30 /\ e.friday
                               \/ e.days > 30 /\ e.far}

(* filter_by_scope, which looks at the band again. *)
InScope(e) == /\ e.days >= 0 /\ e.days <= Cutoff
              /\ \/ "monthly" \in Kinds /\ e.monthly
                 \/ "quarterly" \in Kinds /\ e.quarterly
                 \/ "weekly" \in Kinds /\ ~e.monthly /\ ~e.quarterly

Scoped(S, x, max) ==
    {e \in NearOrFar : InScope(e)} \X {s \in StrikeCandidates(S, x, max) : InBand(s, x)}

StrikesOf(L) == {c[2] : c \in L}
-------------------------------------------------------------------------------
(* Commands.  load_universe reads rows and puts the conid through int(). *)
Content  == IF cut THEN NoTable ELSE universe
Readable == \A s \in DOMAIN Content : Content[s] # "None"
SymbolsFor(w) == IF w = {} THEN DOMAIN Content ELSE w

Over(p) == /\ pc' = [pc EXCEPT ![p] = "down"] /\ phase' = [phase EXCEPT ![p] = "loop"]
           /\ build' = [build EXCEPT ![p] = TRUE] /\ force' = [force EXCEPT ![p] = FALSE]
           /\ wanted' = [wanted EXCEPT ![p] = {}]
           /\ lines' = [lines EXCEPT ![p] = NoTable]
           /\ resolved' = [resolved EXCEPT ![p] = NoTable]
           /\ checked' = [checked EXCEPT ![p] = {}]
           /\ todo' = [todo EXCEPT ![p] = {}] /\ invalid' = [invalid EXCEPT ![p] = {}]
           /\ sym' = [sym EXCEPT ![p] = Nobody] /\ chain' = [chain EXCEPT ![p] = {}]
           /\ found' = [found EXCEPT ![p] = {}]

(* The loops take the symbols in the order of the file. *)
Turn(p) == CHOOSE s \in todo[p] : TRUE

Goto(p, step) == pc' = [pc EXCEPT ![p] = step]

(* close-snapshot and schedule: the symbols without a conid come first.  *)
StartChecked(p, w, b) ==
    /\ pc[p] = "down" /\ starts < MaxStarts /\ starts' = starts + 1
    /\ Readable /\ SymbolsFor(w) # {}
    /\ Goto(p, "resolve")
    /\ wanted' = [wanted EXCEPT ![p] = w] /\ build' = [build EXCEPT ![p] = b]
    /\ checked' = [checked EXCEPT ![p] = SymbolsFor(w)]
    /\ todo' = [todo EXCEPT ![p] = {s \in SymbolsFor(w) : s \in DOMAIN Content => Content[s] = "noid"}]
    /\ UNCHANGED <<files, force, lines, resolved, invalid, call, history, crashes>>

(* snapshot, history (b) and backfill (~b): no precheck, --force-refresh (f) allowed. *)
StartPlain(p, w, b, f) ==
    /\ pc[p] = "down" /\ starts < MaxStarts /\ starts' = starts + 1
    /\ Goto(p, "run")
    /\ wanted' = [wanted EXCEPT ![p] = w]
    /\ build' = [build EXCEPT ![p] = b] /\ force' = [force EXCEPT ![p] = f]
    /\ UNCHANGED <<files, check, todo, call, history, crashes>>
-------------------------------------------------------------------------------
(* Variant with a seeded bug: a conid that is not known is taken for one. *)
ResolveUnknown(p, s, id) ==
    /\ pc[p] = "resolve" /\ todo[p] # {} /\ s = Turn(p)
    /\ todo' = [todo EXCEPT ![p] = @ \ {s}]
    /\ resolved' = [resolved EXCEPT ![p] =
         [t \in DOMAIN @ \cup {s} |-> IF t = s THEN id ELSE @[t]]]
    /\ UNCHANGED <<files, pc, command, lines, checked, invalid, call, history, bounds>>

(* Phase 1 of the precheck.  resolve_underlying_conid: a candidate is the  *)
(* answer; one that is unknown raises, which makes the symbol invalid;     *)
(* after exceptions for every candidate the function returns None.         *)
Resolve(p, s, id) ==
    /\ pc[p] = "resolve" /\ todo[p] # {} /\ s = Turn(p)
    /\ todo' = [todo EXCEPT ![p] = @ \ {s}]
    /\ IF id = "noid"
       THEN invalid' = [invalid EXCEPT ![p] = @ \cup {s}] /\ UNCHANGED resolved
       ELSE /\ resolved' = [resolved EXCEPT ![p] =
                 [t \in DOMAIN @ \cup {s} |-> IF t = s THEN id ELSE @[t]]]
            /\ UNCHANGED invalid
    /\ UNCHANGED <<files, pc, command, lines, checked, call, history, bounds>>

Resolved(p) ==
    /\ pc[p] = "resolve" /\ todo[p] = {}
    /\ Goto(p, IF resolved[p] = NoTable THEN "check" ELSE "uread")
    /\ UNCHANGED <<files, command, check, todo, call, history, bounds>>

(* _update_universe_file: read, truncate, write in place. *)
UniverseRead(p) ==
    /\ pc[p] = "uread" /\ Goto(p, "uopen")
    /\ lines' = [lines EXCEPT ![p] = Content]
    /\ spoiled' = (spoiled \/ \E q \in Procs \ {p} : pc[q] \in {"uopen", "uwrite"})
    /\ UNCHANGED <<files, command, resolved, checked, invalid, todo, call, served, excused, bounds>>

UniverseOpen(p) ==
    /\ pc[p] = "uopen" /\ Goto(p, "uwrite")
    /\ cut' = TRUE
    /\ UNCHANGED <<universe, state, list, command, check, todo, call, history, bounds>>

(* Variant with a seeded bug: only the lines that were updated are written. *)
NewLinesOnlyUpdates(old, ids) == ids

(* Every line stays, those of the updates with their conid, unknown symbols at the end. *)
NewLines(old, ids) ==
    [s \in DOMAIN old \cup DOMAIN ids |-> IF s \in DOMAIN ids THEN ids[s] ELSE old[s]]

UniverseWrite(p) ==
    /\ pc[p] = "uwrite" /\ Goto(p, "check")
    /\ universe' = NewLines(lines[p], resolved[p]) /\ cut' = FALSE
    /\ lines' = [lines EXCEPT ![p] = NoTable]
    /\ UNCHANGED <<state, list, command, resolved, checked, invalid, todo, call, history, bounds>>

(* check_cache: there, not empty on disk, readable, not the empty list. *)
Usable(s) == state[s] = "whole" /\ list[s] # {}
Bad(p)    == {s \in checked[p] : ~Usable(s)}

(* Variant with a seeded bug: what could not be rebuilt is not held against the run. *)
RecheckBlind(p) == {}

(* The second check, whose findings join the failures of the rebuild. *)
Recheck(p) == Bad(p) \cup invalid[p]

CheckPasses(p) ==
    /\ \/ pc[p] = "check" /\ Bad(p) \cup invalid[p] = {}
       \/ pc[p] = "recheck" /\ Recheck(p) = {}
    /\ Goto(p, "run")
    /\ UNCHANGED <<files, command, check, todo, call, history, bounds>>

(* Exit(1), for all symbols. *)
CheckFails(p) ==
    /\ \/ pc[p] = "check" /\ ~build[p] /\ Bad(p) \cup invalid[p] # {}
       \/ pc[p] = "recheck" /\ Recheck(p) # {}
    /\ Over(p) /\ UNCHANGED <<files, history, bounds>>

Rebuild(p) ==
    /\ pc[p] = "check" /\ build[p] /\ Bad(p) \cup invalid[p] # {}
    /\ Goto(p, "rebuild") /\ phase' = [phase EXCEPT ![p] = "rebuild"]
    /\ todo' = [todo EXCEPT ![p] = Bad(p) \cup invalid[p]]
    /\ invalid' = [invalid EXCEPT ![p] = {}]
    /\ UNCHANGED <<files, command, lines, resolved, checked, sym, chain, found, history, bounds>>

(* rebuild_caches: no conid or no reference price. *)
RebuildFails(p, s) ==
    /\ pc[p] = "rebuild" /\ todo[p] # {} /\ s = Turn(p)
    /\ todo' = [todo EXCEPT ![p] = @ \ {s}]
    /\ invalid' = [invalid EXCEPT ![p] = @ \cup {s}]
    /\ UNCHANGED <<files, pc, command, lines, resolved, checked, call, history, bounds>>

Rebuilt(p) ==
    /\ pc[p] = "rebuild" /\ todo[p] = {}
    /\ Goto(p, "recheck") /\ phase' = [phase EXCEPT ![p] = "loop"]
    /\ UNCHANGED <<files, command, check, todo, sym, chain, found, history, bounds>>
-------------------------------------------------------------------------------
(* The run itself reads the universe (again). *)
Run(p) ==
    /\ pc[p] = "run" /\ Readable
    /\ LET entries == DOMAIN Content \cap SymbolsFor(wanted[p])
       IN  /\ entries # {}
           /\ todo' = [todo EXCEPT ![p] = entries]
    /\ Goto(p, "loop")
    /\ UNCHANGED <<files, command, check, call, history, bounds>>

(* It raises if it finds none, or a conid that is no number. *)
RunRaises(p) ==
    /\ pc[p] = "run"
    /\ ~Readable \/ DOMAIN Content \cap SymbolsFor(wanted[p]) = {}
    /\ Over(p) /\ UNCHANGED <<files, history, bounds>>

(* IBSession.__enter__ raises out of the precheck or of the run. *)
SessionRaises(p) ==
    /\ \/ pc[p] = "resolve" /\ todo[p] # {} /\ resolved[p] = NoTable /\ invalid[p] = {}
       \/ pc[p] = "check" /\ build[p] /\ Bad(p) \cup invalid[p] # {}
       \/ pc[p] = "run"
    /\ Over(p) /\ UNCHANGED <<files, history, bounds>>

RunEnds(p) ==
    /\ pc[p] = "loop" /\ todo[p] = {}
    /\ Over(p) /\ UNCHANGED <<files, history, bounds>>

(* A symbol without a reference price is skipped. *)
Skip(p, s) ==
    /\ pc[p] = "loop" /\ todo[p] # {} /\ s = Turn(p)
    /\ todo' = [todo EXCEPT ![p] = @ \ {s}]
    /\ UNCHANGED <<files, pc, command, check, call, history, bounds>>

Call(p, s) ==
    /\ pc[p] = phase[p] /\ todo[p] # {} /\ s = Turn(p)
    /\ todo' = [todo EXCEPT ![p] = @ \ {s}] /\ sym' = [sym EXCEPT ![p] = s]
    /\ Goto(p, "load")
    /\ UNCHANGED <<files, command, check, chain, found, phase, history, bounds>>
-------------------------------------------------------------------------------
(* discover_contracts_for_symbol *)
Return(p) == /\ Goto(p, phase[p]) /\ sym' = [sym EXCEPT ![p] = Nobody]
             /\ chain' = [chain EXCEPT ![p] = {}] /\ found' = [found EXCEPT ![p] = {}]
             /\ UNCHANGED phase

Raise(p) == /\ Return(p)
            /\ invalid' = IF phase[p] = "rebuild"
                          THEN [invalid EXCEPT ![p] = @ \cup {sym[p]}] ELSE invalid
            /\ UNCHANGED <<files, command, lines, resolved, checked, todo, history, bounds>>

Serve(p, L) == served' = [served EXCEPT ![sym[p]] = IF L = {} THEN @ ELSE @ \cup {L}]

(* force_refresh is refused; so is a missing list where no rebuild is allowed. *)
Refuses(p) == force[p]

(* A list that was read and is not empty is the answer. *)
Hit(p) == Usable(sym[p])

LoadServes(p) ==
    /\ pc[p] = "load" /\ ~Refuses(p) /\ Hit(p)
    /\ Serve(p, list[sym[p]]) /\ Return(p)
    /\ UNCHANGED <<files, command, check, todo, excused, spoiled, bounds>>

LoadRaises(p) ==
    /\ pc[p] = "load" /\ (Refuses(p) \/ (~Hit(p) /\ ~build[p]))
    /\ Raise(p)

LoadMisses(p) ==
    /\ pc[p] = "load" /\ ~Refuses(p) /\ ~Hit(p) /\ build[p]
    /\ Goto(p, "fetch")
    /\ UNCHANGED <<files, command, check, todo, call, history, bounds>>

(* reqSecDefOptParams: strikes, an exception after the retries, or no usable chain. *)
Fetch(p, c) ==
    /\ pc[p] = "fetch" /\ Goto(p, "compare")
    /\ chain' = [chain EXCEPT ![p] = c]
    /\ UNCHANGED <<files, command, check, todo, sym, found, phase, history, bounds>>

FetchRaises(p) == pc[p] = "fetch" /\ Raise(p)

NoChain(p) ==
    /\ pc[p] = "fetch" /\ Return(p)
    /\ UNCHANGED <<files, command, check, todo, history, bounds>>

(* Variant with a seeded bug: the second look at the file is left out. *)
AgreesAlways(p) == TRUE

(* The second look at the file, which another process may have written by now. *)
Agrees(p) == Usable(sym[p]) => StrikesOf(list[sym[p]]) = chain[p]

(* Another builder has passed its second look and has not saved. *)
Overlaps(p) == \E q \in Procs \ {p} : pc[q] \in Writing /\ sym[q] = sym[p]

(* The price and the limit that the caller passes: a check and a snapshot pass both, *)
(* history has no limit and passes 0 when it finds no price.                         *)
Asked(p) == ((Prices \ {0}) \X {Cap}) \cup (IF phase[p] = "loop" THEN Prices \X {0} ELSE {})

Compare(p, x, max) ==
    /\ pc[p] = "compare" /\ Agrees(p) /\ Scoped(chain[p], x, max) # {}
    /\ Goto(p, "qualify") /\ found' = [found EXCEPT ![p] = Scoped(chain[p], x, max)]
    /\ excused' = IF Overlaps(p) \/ StrikesOf(list[sym[p]]) = chain[p]
                  THEN excused \cup {sym[p]} ELSE excused
    /\ UNCHANGED <<files, command, check, todo, sym, chain, phase, served, spoiled, bounds>>

CompareRaises(p) == pc[p] = "compare" /\ ~Agrees(p) /\ Raise(p)

(* Nothing in scope: the empty list is returned and not saved. *)
NothingInScope(p, x, max) ==
    /\ pc[p] = "compare" /\ Agrees(p) /\ Scoped(chain[p], x, max) = {} /\ Return(p)
    /\ UNCHANGED <<files, command, check, todo, history, bounds>>

(* qualifyContracts chunk by chunk: chunks that failed and contracts without *)
(* conid are left out.                                                       *)
Qualify(p, L) ==
    /\ pc[p] = "qualify" /\ Goto(p, "open")
    /\ L \subseteq found[p] /\ found' = [found EXCEPT ![p] = L]
    /\ UNCHANGED <<files, command, check, todo, sym, chain, phase, history, bounds>>

(* save_cache: truncate and write, whether the list is partial or empty.  The *)
(* look at the size of the file afterwards, which only another writer of the  *)
(* same list can disturb, is left out.                                        *)
OpenCache(p) ==
    /\ pc[p] = "open" /\ Goto(p, "save")
    /\ state' = [state EXCEPT ![sym[p]] = "torn"] /\ list' = [list EXCEPT ![sym[p]] = {}]
    /\ UNCHANGED <<universe, cut, command, check, todo, call, history, bounds>>

SaveCache(p) ==
    /\ pc[p] = "save"
    /\ state' = [state EXCEPT ![sym[p]] = "whole"] /\ list' = [list EXCEPT ![sym[p]] = found[p]]
    /\ Serve(p, found[p]) /\ Return(p)
    /\ UNCHANGED <<universe, cut, command, check, todo, excused, spoiled, bounds>>

(* The process dies; a file it had open stays truncated. *)
Crash(p) ==
    /\ pc[p] # "down" /\ crashes < MaxCrashes /\ crashes' = crashes + 1
    /\ Over(p)
    /\ excused' = IF pc[p] = "save" THEN excused \cup {sym[p]} ELSE excused
    /\ spoiled' = (spoiled \/ pc[p] = "uwrite")
    /\ UNCHANGED <<files, served, starts>>
-------------------------------------------------------------------------------
Step(p) ==
    \/ \E s \in Symbols, id \in {"id", "noid", "None"} : Resolve(p, s, id)
    \/ Resolved(p) \/ UniverseRead(p) \/ UniverseOpen(p) \/ UniverseWrite(p)
    \/ CheckPasses(p) \/ CheckFails(p) \/ Rebuild(p) \/ Rebuilt(p)
    \/ \E s \in Symbols : RebuildFails(p, s) \/ Skip(p, s) \/ Call(p, s)
    \/ Run(p) \/ RunRaises(p) \/ RunEnds(p) \/ SessionRaises(p)
    \/ LoadServes(p) \/ LoadRaises(p) \/ LoadMisses(p)
    \/ (\E c \in Chains : Fetch(p, c)) \/ FetchRaises(p) \/ NoChain(p)
    \/ (\E a \in Asked(p) : Compare(p, a[1], a[2]) \/ NothingInScope(p, a[1], a[2])) \/ CompareRaises(p)
    \/ (\E L \in SUBSET found[p] : Qualify(p, L)) \/ OpenCache(p) \/ SaveCache(p)

Next == \E p \in Procs :
    \/ \E w \in Wanted \cup {{}}, b, f \in BOOLEAN : StartChecked(p, w, b) \/ StartPlain(p, w, b, f)
    \/ Step(p) \/ Crash(p)

Spec == Init /\ [][Next]_vars
-------------------------------------------------------------------------------
(* Every run of the day that asks for a symbol's contracts gets the same   *)
(* ones, whoever rebuilt the list, with whatever price, and however partly *)
(* it succeeded: rows of different slots are about the same contracts.     *)
(* Not promised for a symbol two processes rebuilt at the same time, whose *)
(* writer died, or whose list already had every strike of the chain.       *)
OneListPerDay == \A s \in Symbols \ excused : Cardinality(served[s]) <= 1

(* A run that has passed the precheck finds a usable list for each of its  *)
(* symbols, so that it asks the gateway for no chain in the middle of the  *)
(* session.                                                                *)
CheckedStaysUsable ==
    \A p \in Procs : pc[p] \in {"run", "loop", "load"} /\ phase[p] = "loop" =>
        \A s \in checked[p] \ excused : Usable(s)

(* The rewrite of the universe file by the precheck drops no symbol, unless *)
(* two prechecks wrote at once or one died while writing.                   *)
UniverseKept == ~cut /\ ~spoiled => Listed \subseteq DOMAIN universe
================================================================================
