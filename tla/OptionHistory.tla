----------------------------- MODULE OptionHistory -----------------------------
(***************************************************************************)
(* The history of single option contracts, which two tools fetch: the      *)
(* command history (HistoryRunner), one dated folder of JSON files for     *)
(* every run, and the weekend backfill, one Parquet file a contract and    *)
(* bar size that every run appends to.  Both take their contracts from the *)
(* lists that discovery caches: history from the list of the day, which it *)
(* may have to make, the backfill from the newest list there is.           *)
(*                                                                         *)
(* A bar is its day: a request for n days is answered with the bars of the *)
(* last n of them or not at all.                                           *)
(*                                                                         *)
(* One run at a time is modelled; the batches of a weekend share no file.  *)
(***************************************************************************)
EXTENDS DatedFiles, FiniteSets

CONSTANTS Contracts,   \* records with symbol, right, strike, listed, expiry
          FullDays,    \* the values of --days
          Reach,       \* stage |-> days of its DURATION
          TopExpiries, StrikesPerSide,
          Prices,      \* closes of the underlying
          MaxRuns      \* bound

Stages == {"hours", "minutes"}

ASSUME HistoryAssumption ==
    /\ {TopExpiries, StrikesPerSide} \cup FullDays \subseteq Nat \ {0}
    /\ Reach \in [Stages -> Nat \ {0}] /\ MaxRuns \in Nat
    /\ \A c \in Contracts : /\ c.symbol \in Universe /\ c.listed \in Days
                            /\ c.expiry \in Nat /\ c.listed <= c.expiry

VARIABLES lists,    \* symbol |-> (date of a list |-> its contracts)
          tornLists, \* symbol, date of the lists whose write was cut short
          folders,  \* symbol |-> (date of a folder |-> (contract |-> bars of its file))
          files,    \* contract, stage |-> bars of its Parquet file
          broken,   \* those of them whose write was cut short
          mode,     \* options of the run
          asked,    \* days a request of history is for
          left,     \* contracts still to come of the first symbol
          tooShort, \* history: symbol |-> days that a full fetch was too short for
          runs

runState == <<phase, mode, queue, asked, left>>
historyVars == <<day, lists, tornLists, folders, files, broken, runState, tooShort, runs, crashes>>

NoMode == [stage |-> "hours", incremental |-> FALSE, resume |-> FALSE, days |-> 0]

HistoryInit ==
    /\ day = 1 /\ lists = [s \in Universe |-> Nothing] /\ tornLists = {}
    /\ folders = [s \in Universe |-> Nothing] /\ files = Nothing /\ broken = {}
    /\ phase = "idle" /\ mode = NoMode /\ queue = {} /\ asked = {} /\ left = {}
    /\ tooShort = [s \in Universe |-> {}] /\ runs = 0 /\ crashes = 0

contract == CHOOSE c \in left : TRUE

(* The contracts of a symbol that the provider lists today. *)
Listing(s) == {c \in Contracts : c.symbol = s /\ c.listed <= day /\ day <= c.expiry}

(* The answer to a request for the days D of a contract. *)
Bars(c, D) == {d \in D : c.listed <= d /\ d <= c.expiry}

LastDays(n) == {d \in Days : day - n < d /\ d <= day}

DayEnds ==
    /\ phase = "idle" /\ day < LastDay /\ day' = day + 1
    /\ UNCHANGED <<lists, tornLists, folders, files, broken, runState, tooShort, runs, crashes>>

(* Another command has discovered the contracts of a symbol. *)
Discovered(s) ==
    /\ phase = "idle" /\ day \notin DOMAIN lists[s] /\ Listing(s) # {}
    /\ lists' = [lists EXCEPT ![s] = With(@, day, Listing(s))]
    /\ UNCHANGED <<day, tornLists, folders, files, broken, runState, tooShort, runs, crashes>>

Start(next, m) ==
    /\ phase = "idle" /\ runs < MaxRuns /\ runs' = runs + 1
    /\ phase' = next /\ mode' = m /\ queue' = Universe
    /\ UNCHANGED <<day, lists, tornLists, folders, files, broken, asked, left, tooShort, crashes>>

(* On to the next symbol. *)
Continue(loop) ==
    /\ phase' = loop /\ queue' = queue \ {sym} /\ asked' = {} /\ left' = {} /\ UNCHANGED mode

Stop == phase' = "idle" /\ mode' = NoMode /\ queue' = {} /\ asked' = {} /\ left' = {}

(* The end of a run, and the connection that is lost or refused. *)
RunEnds ==
    /\ phase \in {"history", "weekend"} /\ queue = {} /\ Stop
    /\ UNCHANGED <<day, lists, tornLists, folders, files, broken, tooShort, runs, crashes>>
-------------------------------------------------------------------------------
(* HistoryRunner.run *)
StartHistory(incremental, n) ==
    Start("history", [NoMode EXCEPT !.incremental = incremental, !.days = n])

Folders(s) == DOMAIN folders[s]

(* Variant with a seeded bug: the gap is taken for the days between the two. *)
GapBetween(s) == day - Newest(Folders(s)) - 1

(* gap_days: days since the newest folder. *)
Gap(s) == day - Newest(Folders(s))

(* duration_str *)
Duration(s) == IF mode.incremental /\ Folders(s) # {} THEN Gap(s) ELSE mode.days

UpToDate(s) == mode.incremental /\ Folders(s) # {} /\ Newest(Folders(s)) >= day

(* The symbol is up to date, does not qualify, has no contracts or raises. *)
SymbolSkipped ==
    /\ phase = "history" /\ queue # {} /\ Continue("history")
    /\ UNCHANGED <<day, lists, tornLists, folders, files, broken, tooShort, runs, crashes>>

(* The days since the last folder before today's that a window leaves out. *)
LeftOut(s, D) ==
    LET before == {f \in Folders(s) : f < day}
    IN  IF before = {} THEN {} ELSE (Newest(before) + 1 .. day) \ D

(* The list of the day that discovery would serve as it is. *)
Served(s) == day \in DOMAIN lists[s] /\ <<s, day>> \notin tornLists /\ lists[s][day] # {}
Saved(s, found) == /\ lists' = [lists EXCEPT ![s] = With(@, day, found)]
                   /\ tornLists' = tornLists \ {<<s, day>>}

(* Discovery saves the empty list when no contract of the symbol qualifies. *)
NothingFound ==
    /\ phase = "history" /\ queue # {} /\ ~UpToDate(sym) /\ ~Served(sym) /\ Listing(sym) # {}
    /\ Saved(sym, {}) /\ Continue("history")
    /\ UNCHANGED <<day, folders, files, broken, tooShort, runs, crashes>>

(* The contracts are found, in the cache or by a discovery that saves them, and *)
(* the folder of the run is made before anything is fetched for it.  A list     *)
(* that cannot be parsed is discovered again.                                   *)
OpenFolder(found) ==
    /\ phase = "history" /\ queue # {} /\ ~UpToDate(sym) /\ found # {}
    /\ IF Served(sym) THEN found = lists[sym][day] /\ UNCHANGED <<lists, tornLists>>
                      ELSE found \subseteq Listing(sym) /\ Saved(sym, found)
    /\ folders' = [folders EXCEPT ![sym] = IF day \in DOMAIN @ THEN @ ELSE With(@, day, Nothing)]
    /\ asked' = LastDays(Duration(sym)) /\ left' = found /\ phase' = "contracts"
    /\ tooShort' = IF mode.incremental THEN tooShort
                  ELSE [tooShort EXCEPT ![sym] = @ \cup LeftOut(sym, LastDays(mode.days))]
    /\ UNCHANGED <<day, files, broken, mode, queue, runs, crashes>>

(* A contract: its file is written if there are bars; one that fails is only counted. *)
FetchContract(answered) ==
    /\ phase = "contracts" /\ left # {} /\ left' = left \ {contract}
    /\ folders' = IF answered /\ Bars(contract, asked) # {}
                  THEN [folders EXCEPT ![sym][day] = With(@, contract, Bars(contract, asked))]
                  ELSE folders
    /\ UNCHANGED <<day, lists, tornLists, files, broken, phase, mode, queue, asked, tooShort, runs, crashes>>

ContractsDone ==
    /\ phase = "contracts" /\ left = {} /\ Continue("history")
    /\ UNCHANGED <<day, lists, tornLists, folders, files, broken, tooShort, runs, crashes>>
-------------------------------------------------------------------------------
(* weekend_history_backfill *)
StartWeekend(stage, incremental, resume) ==
    Start("weekend", [stage |-> stage, incremental |-> incremental, resume |-> resume, days |-> 0])

(* The n least elements of S in the order of f, ties broken in any way. *)
LeastOf(S, n, f(_)) ==
    {T \in SUBSET S : /\ Cardinality(T) = IF Cardinality(S) < n THEN Cardinality(S) ELSE n
                      /\ \A x \in T, y \in S \ T : f(x) <= f(y)}

(* filter_active_subset: of the nearest expiries, expired ones included, the strikes *)
(* of each side that are nearest to the close.                                       *)
IsActive(picked, C, close) ==
    LET expiries == CHOOSE E \in LeastOf({c.expiry : c \in C}, TopExpiries, LAMBDA e : e) : TRUE
        distance(c) == IF c.strike < close THEN close - c.strike ELSE c.strike - close
        side(e, r) == {c \in C : c.expiry = e /\ c.right = r}
    IN  /\ \A c \in picked : c.expiry \in expiries
        /\ \A e \in expiries, r \in {"C", "P"} :
             picked \cap side(e, r) \in LeastOf(side(e, r), StrikesPerSide, distance)

(* close_price: the close, or the median strike if there is none. *)
Closes(C) ==
    LET S == {c.strike : c \in C}
    IN  Prices \cup {k \in S : Cardinality({x \in S : x < k}) = Cardinality(S) \div 2}

(* load_latest_contracts_cache *)
Latest(s) == Newest(DOMAIN lists[s])

NoCache ==
    /\ phase = "weekend" /\ queue # {} /\ DOMAIN lists[sym] = {} /\ Continue("weekend")
    /\ UNCHANGED <<day, lists, tornLists, folders, files, broken, tooShort, runs, crashes>>

(* Only a list that is missing is caught: one that cannot be parsed ends the run. *)
CacheRaises ==
    /\ phase = "weekend" /\ queue # {} /\ DOMAIN lists[sym] # {} /\ <<sym, Latest(sym)>> \in tornLists
    /\ Stop
    /\ UNCHANGED <<day, lists, tornLists, folders, files, broken, tooShort, runs, crashes>>

PickContracts(picked) ==
    /\ phase = "weekend" /\ queue # {} /\ DOMAIN lists[sym] # {} /\ <<sym, Latest(sym)>> \notin tornLists
    /\ LET C == lists[sym][Latest(sym)]
       IN  IF mode.stage = "hours" THEN picked = C
           ELSE \E close \in Closes(C) : IsActive(picked, C, close)
    /\ left' = picked /\ phase' = "bars"
    /\ UNCHANGED <<day, lists, tornLists, folders, files, broken, mode, queue, asked, tooShort, runs, crashes>>

(* Variant with a seeded bug: the day after the newest bar is taken for that bar. *)
NewerButOne(have, bars) == {d \in bars : d > Newest(have) + 1}

(* df_new[df_new.ts > existing_max_ts] *)
Newer(have, bars) == {d \in bars : d > Newest(have)}

(* What the file holds after the request was answered with these bars. *)
Merged(key, bars) ==
    IF mode.incremental /\ key \in DOMAIN files /\ key \notin broken
    THEN files[key] \cup Newer(files[key], bars) ELSE bars

(* Without --incremental a file that is there is left alone. *)
Resumed(key) == ~mode.incremental /\ mode.resume /\ key \in DOMAIN files

(* The file is read, the bars are fetched, and what there is is written in place. *)
(* The write may be cut short.                                                    *)
FetchBars(answered, dies) ==
    LET key    == <<contract, mode.stage>>
        bars   == IF answered THEN Bars(contract, LastDays(Reach[mode.stage])) ELSE {}
        merged == Merged(key, bars)
    IN  /\ phase = "bars" /\ left # {} /\ contract.expiry >= day /\ ~Resumed(key)
        /\ files' = IF merged = {} THEN files ELSE With(files, key, merged)
        /\ IF dies
           THEN /\ merged # {} /\ crashes < MaxCrashes /\ crashes' = crashes + 1
                /\ broken' = broken \cup {key} /\ Stop
           ELSE /\ broken' = IF merged = {} THEN broken ELSE broken \ {key}
                /\ left' = left \ {contract}
                /\ UNCHANGED <<crashes, phase, mode, queue, asked>>
        /\ UNCHANGED <<day, lists, tornLists, folders, tooShort, runs>>

SkipContract ==
    /\ phase = "bars" /\ left # {} /\ (contract.expiry < day \/ Resumed(<<contract, mode.stage>>))
    /\ left' = left \ {contract}
    /\ UNCHANGED <<day, lists, tornLists, folders, files, broken, phase, mode, queue, asked, tooShort, runs,
                   crashes>>

StageDone ==
    /\ phase = "bars" /\ left = {} /\ Continue("weekend")
    /\ UNCHANGED <<day, lists, tornLists, folders, files, broken, tooShort, runs, crashes>>
-------------------------------------------------------------------------------
(* A run dies between two writes, or in the one that saves the list of the day. *)
Killed ==
    /\ phase # "idle" /\ crashes < MaxCrashes /\ crashes' = crashes + 1 /\ Stop
    /\ \/ UNCHANGED <<lists, tornLists>>
       \/ /\ phase = "history" /\ queue # {} /\ Listing(sym) # {}
          /\ ~Served(sym)
          /\ lists' = [lists EXCEPT ![sym] = With(@, day, {})]
          /\ tornLists' = tornLists \cup {<<sym, day>>}
    /\ UNCHANGED <<day, folders, files, broken, tooShort, runs>>

HistoryNext ==
    \/ DayEnds
    \/ \E s \in Universe : Discovered(s)
    \/ \E incremental \in BOOLEAN, n \in FullDays : StartHistory(incremental, n)
    \/ SymbolSkipped \/ NothingFound
    \/ \E found \in SUBSET Contracts : OpenFolder(found)
    \/ \E answered \in BOOLEAN : FetchContract(answered)
    \/ ContractsDone
    \/ \E stage \in Stages, incremental, resume \in BOOLEAN :
         StartWeekend(stage, incremental, resume)
    \/ NoCache \/ CacheRaises
    \/ \E picked \in SUBSET Contracts : PickContracts(picked)
    \/ \E answered, dies \in BOOLEAN : FetchBars(answered, dies)
    \/ SkipContract \/ StageDone \/ RunEnds \/ Killed

HistorySpec == HistoryInit /\ [][HistoryNext]_historyVars
-------------------------------------------------------------------------------
HistoryTypeOK ==
    /\ day \in Days /\ phase \in {"idle", "history", "contracts", "weekend", "bars"}
    /\ mode \in [stage : Stages, incremental : BOOLEAN, resume : BOOLEAN, days : FullDays \cup {0}]
    /\ \A s \in Universe :
         /\ \A d \in DOMAIN lists[s] : d \in 1 .. day /\ lists[s][d] \subseteq Contracts
         /\ \A d \in Folders(s) : \A c \in DOMAIN folders[s][d] : folders[s][d][c] \subseteq 1 .. d
         /\ tooShort[s] \subseteq Days
    /\ DOMAIN files \subseteq Contracts \X Stages /\ broken \subseteq DOMAIN files
    /\ \A k \in DOMAIN files : files[k] # {} /\ files[k] \subseteq Days
    /\ tornLists \subseteq Universe \X Days /\ queue \subseteq Universe
    /\ asked \subseteq Days /\ left \subseteq Contracts
    /\ runs \in 0 .. MaxRuns /\ crashes \in 0 .. MaxCrashes

(* The folders of incremental runs join: the file of a contract has every day *)
(* since the folder before, whichever runs failed, died or were full fetches  *)
(* in between, unless a full fetch was asked for fewer days than that.        *)
FoldersJoin ==
    \A s \in Universe : \A f \in Folders(s), g \in Folders(s) :
        \A c \in DOMAIN folders[s][f] :
            (g < f /\ \A h \in Folders(s) : h <= g \/ f <= h) =>
                Bars(c, g + 1 .. f) \subseteq folders[s][f][c] \cup tooShort[s]

(* Appending only what is newer leaves a hole in a file just when the run    *)
(* before was longer ago than the duration of the stage: what follows a hole *)
(* is as long as a whole request.  Failed and killed runs make none.         *)
HolesAreOld ==
    \A k \in DOMAIN files \ broken :
        \A d \in Oldest(files[k]) .. Newest(files[k]) :
            d \in files[k] \/
            LET e == Oldest({x \in files[k] : x > d})
            IN  e .. e + Reach[k[2]] - 1 \subseteq files[k]
================================================================================
