------------------------------ MODULE Fundamentals ------------------------------
(***************************************************************************)
(* FundamentalsRunner (stock-data pipeline/fundamentals.py): one command a *)
(* day asks a provider for the reports that are due, within a budget of    *)
(* calls a day, and remembers in a state file what it asked for and how    *)
(* many calls it made.                                                     *)
(*                                                                         *)
(* Dates only matter by their distance from today, so that everything that *)
(* carries a date is kept as an age in days, up to OldAge, and behaviours  *)
(* have no last day.  A run is for a trade date (--trade-date, today when  *)
(* it is not given), and it ends on the day it began; one run at a time.   *)
(***************************************************************************)
EXTENDS Integers, Sequences, FiniteSets

CONSTANTS Tickers, Types,
          Statements,        \* the types that have a reporting period
          Commands,          \* symbols and types asked for, force_refresh, and how many days
                             \* ago the trade date is (less than cache_ttl_days)
          Limit,             \* daily_call_limit
          MinDays, InfoDays, StatementDays,   \* min_fetch, info_refresh, statement_refresh
          Attempts,          \* max_attempts of a request
          PeriodAges,        \* ages a provider's newest statement may have
          MaxSpecial, MaxFaults   \* bounds: runs with force_refresh or for another trade date
                                  \* than the day's last one; crashes and failed saves

Never == 0 - 1               \* the age of what never was
Largest(S) == CHOOSE a \in S : \A b \in S : b <= a
Back == Largest({r.ago : r \in Commands})
OldAge == Largest({MinDays, InfoDays, StatementDays}) + Back
Ages == Never .. OldAge
TradeDates == 0 .. Back      \* days ago
Reports == Tickers \X Types

ASSUME FundamentalsAssumption ==
    /\ {Limit, MinDays, InfoDays, StatementDays} \subseteq Nat
    /\ {MaxSpecial, MaxFaults} \subseteq Nat /\ Attempts \in Nat \ {0}
    /\ Statements \subseteq Types \ {"info"} /\ PeriodAges \subseteq 0 .. OldAge
    /\ Back \in Nat
    /\ \A r \in Commands : /\ r.symbols \in Seq(Tickers) /\ r.types \in Seq(Types)
                           /\ r.symbols # <<>> /\ r.types # <<>> /\ r.force \in BOOLEAN
                           /\ r.ago \in 0 .. Back
-------------------------------------------------------------------------------
(* A report's own part of the state: last_fetch_at and last_payload_date. *)
Known == [fetched : Ages, period : Ages]
(* The state: last_run_date, which is the last run's trade date, daily_calls, the symbols. *)
States == [ran : TradeDates \cup {Never}, calls : 0 .. Limit, reports : [Reports -> Known]]

Unknown == [fetched |-> Never, period |-> Never]
DefaultState == [ran |-> Never, calls |-> 0, reports |-> [r \in Reports |-> Unknown]]

(* _calls_for_report_type *)
Needed(t) == IF t = "info" THEN 3 ELSE 1
Replies == {"rows", "empty", "none"}

VARIABLES doing,    \* "idle", "report", "call" or "save"
          command,  \* the command that runs
          at,       \* its place: index of the symbol, index of the type
          stopped,  \* stopped_early
          mem,      \* self._state
          saved,    \* the state in the state file
          garbled,  \* the state file cannot be read
          cache,    \* report, trade date |-> age of its cache file (cached_at), if it is whole
          replies,  \* answers to the requests of the report under way
          try,      \* attempts of its present request
          spent,    \* history: requests sent today
          fetched,  \* history: report, trade date |-> times it was fetched and cached today
          today,    \* history: the trade date of today's last run; whether one had
                    \* force_refresh; calls that crashes may have forgotten; how often the
                    \* count may have begun anew (a lost save, a run for another trade date);
                    \* and whether today is irregular, with an error or an empty answer of
                    \* the provider, a second run, a run not for today, or no run yesterday
          special, faults

history == <<spent, fetched, today>>
bounds  == <<special, faults>>
request == <<replies, try>>
disk    == <<saved, garbled, cache>>
fundamentalsVars == <<doing, command, at, stopped, mem, disk, request, history, bounds>>

DayRecords == [date : TradeDates \cup {Never}, forced : BOOLEAN, irregular : BOOLEAN,
               forgot : Nat, anew : Nat]

FundamentalsTypeOK ==
    /\ doing \in {"idle", "report", "call", "save"} /\ command \in Commands
    /\ at \in (1 .. Len(command.symbols)) \X (1 .. Len(command.types))
    /\ {stopped, garbled} \subseteq BOOLEAN /\ mem \in States /\ saved \in States
    /\ cache \in [Reports -> [TradeDates -> Ages]]
    /\ replies \in Seq(Replies) /\ Len(replies) <= 2 /\ try \in 0 .. Attempts - 1
    /\ spent \in Nat /\ fetched \in [Reports -> [TradeDates -> Nat]]
    /\ today \in DayRecords
    /\ special \in 0 .. MaxSpecial /\ faults \in 0 .. MaxFaults

Today(i) == [date |-> Never, forced |-> FALSE, irregular |-> i, forgot |-> 0, anew |-> 0]
Unfetched == [r \in Reports |-> [k \in TradeDates |-> 0]]

FundamentalsInit ==
    /\ doing = "idle" /\ command \in Commands /\ at = <<1, 1>> /\ stopped = FALSE
    /\ mem = DefaultState /\ saved = DefaultState /\ garbled = FALSE
    /\ cache = [r \in Reports |-> [k \in TradeDates |-> Never]] /\ replies = <<>> /\ try = 0
    /\ spent = 0 /\ fetched = Unfetched /\ today = Today(FALSE)
    /\ special = 0 /\ faults = 0
-------------------------------------------------------------------------------
Older(a) == IF a = Never \/ a = OldAge THEN a ELSE a + 1
OlderReports(f) ==
    [r \in Reports |-> [fetched |-> Older(f[r].fetched), period |-> Older(f[r].period)]]

(* A trade date, and the cache files of a report, a day later. *)
Earlier(k) == IF k \in {Never, Back} THEN Never ELSE k + 1
OlderFiles(f) == [k \in TradeDates |-> IF k = 0 THEN Never ELSE Older(f[k - 1])]

(* Midnight: trade dates are a day further back, the dates in the files a day older. *)
NewDay ==
    /\ doing = "idle"
    /\ saved' = [ran |-> Earlier(saved.ran), calls |-> saved.calls,
                 reports |-> OlderReports(saved.reports)]
    /\ cache' = [r \in Reports |-> OlderFiles(cache[r])]
    /\ spent' = 0 /\ fetched' = Unfetched
    /\ today' = Today(today.date = Never)
    /\ UNCHANGED <<doing, command, at, stopped, mem, garbled, request, bounds>>

(* __init__ and _load_state: a file that cannot be read is taken for a first run. *)
Loaded == IF garbled THEN DefaultState ELSE saved

(* Variant with a seeded bug: every run begins with the whole budget. *)
ResetAlways(st, ago) == [st EXCEPT !.ran = ago, !.calls = 0]

(* _reset_daily_state: the count is of the runs in a row for one trade date, not of a day. *)
Reset(st, ago) == [st EXCEPT !.ran = ago, !.calls = IF st.ran = ago THEN @ ELSE 0]

(* A run for another trade date than the day's last one. *)
Redated(r) == today.date \notin {Never, r.ago}

StartRun(r) ==
    /\ doing = "idle" /\ doing' = "report" /\ command' = r /\ at' = <<1, 1>> /\ stopped' = FALSE
    /\ (r.force \/ Redated(r) => special < MaxSpecial)
    /\ special' = special + (IF r.force \/ Redated(r) THEN 1 ELSE 0)
    /\ mem' = Reset(Loaded, r.ago)
    /\ today' = [today EXCEPT !.date = r.ago, !.forced = @ \/ r.force,
                              !.irregular = @ \/ today.date # Never \/ r.ago # 0,
                              !.anew = IF Redated(r) THEN @ + 1 ELSE @]
    /\ UNCHANGED <<disk, request, spent, fetched, faults>>
-------------------------------------------------------------------------------
symbol  == command.symbols[at[1]]
type == command.types[at[2]]
this == <<symbol, type>>

(* _remaining_calls *)
Remaining == Limit - mem.calls

(* Days from a date of the state to the trade date; ages up to OldAge tell apart all that *)
(* the thresholds do.                                                                     *)
Since(age) == age - command.ago

(* Variant with a seeded bug: the dates of a report are not looked at. *)
DueAlways(r) == TRUE

(* _should_fetch_report *)
Due(r) ==
    LET known == mem.reports[r]
    IN  \/ command.force
        \/ /\ \/ known.fetched = Never
              \/ /\ Since(known.fetched) >= MinDays
                 /\ r[2] = "info" => Since(known.fetched) >= InfoDays
           /\ r[2] \in Statements => \/ known.period = Never
                                     \/ Since(known.period) >= StatementDays

(* The next type, or the end of the symbol. *)
NextType ==
    /\ replies' = <<>> /\ try' = 0
    /\ IF at[2] < Len(command.types) THEN doing' = "report" /\ at' = [at EXCEPT ![2] = @ + 1]
                                 ELSE doing' = "save" /\ UNCHANGED at

(* Not due: the payload of the last fetch, if its cache file still counts, is stored *)
(* again under the trade date; its dates are those the state has already.  (A file   *)
(* that a run rewrote before it crashed, unsaved, is taken for the one it replaced.) *)
NotDue ==
    /\ doing = "report" /\ ~Due(this) /\ NextType
    /\ UNCHANGED <<command, stopped, mem, saved, garbled, cache, history, bounds>>

(* Too little budget for the report: the run ends after this symbol's save. *)
StopEarly ==
    /\ stopped' = TRUE /\ doing' = "save" /\ replies' = <<>> /\ try' = 0
    /\ UNCHANGED <<command, at, mem, disk, history, bounds>>

Unaffordable == doing = "report" /\ Due(this) /\ Remaining < Needed(type) /\ StopEarly

Affordable == doing = "report" /\ Due(this) /\ Remaining >= Needed(type)

(* _load_cache looks for the file of the trade date only; force_refresh ignores it. *)
File == cache[this][command.ago]
CachedToday == ~command.force /\ File # Never

(* The state of a report that was fetched a days ago. *)
Note(a, period) == [mem EXCEPT !.reports[this] = [fetched |-> a, period |-> period]]
Periods == IF type \in Statements THEN PeriodAges ELSE {Never}

CacheHit(period) ==
    /\ Affordable /\ CachedToday
    /\ mem' = Note(File, period) /\ NextType
    /\ UNCHANGED <<command, stopped, saved, garbled, cache, history, bounds>>

Ask ==
    /\ Affordable /\ ~CachedToday /\ doing' = "call"
    /\ UNCHANGED <<command, at, stopped, mem, disk, request, history, bounds>>
-------------------------------------------------------------------------------
(* _consume_call raises: DailyBudgetExceeded leaves the report, whatever it has got. *)
Exhausted == doing = "call" /\ Remaining = 0 /\ StopEarly

(* One attempt of _fetch_with_retry: it is counted before it is sent. *)
Sent ==
    /\ doing = "call" /\ Remaining > 0
    /\ mem' = [mem EXCEPT !.calls = @ + 1] /\ spent' = spent + 1
    /\ UNCHANGED <<command, stopped, disk, fetched, bounds>>

Trouble(is) == today' = [today EXCEPT !.irregular = @ \/ is]

(* An error is tried again, up to Attempts times; then the answer is None. *)
Fails ==
    /\ Sent /\ try < Attempts - 1 /\ try' = try + 1 /\ Trouble(TRUE)
    /\ UNCHANGED <<doing, at, replies>>

(* An answer, or the last error, in the place of the present request. *)
Answer(a) ==
    /\ Sent /\ (a = "none" => try = Attempts - 1)
    /\ Len(replies) < Needed(type) - 1
    /\ replies' = Append(replies, a) /\ try' = 0 /\ Trouble(a # "rows") /\ UNCHANGED <<doing, at>>

(* _fetch_report: of info, a profile or metrics must have come, and some rows. *)
Usable(answers) ==
    /\ \E i \in DOMAIN answers : answers[i] = "rows"
    /\ Len(answers) = 3 => answers[1] # "none" \/ answers[2] # "none"

(* Variant with a seeded bug: a fetched payload is not cached. *)
UncachedPayload == cache

(* _save_cache *)
CachePayload == [cache EXCEPT ![this][command.ago] = 0]

(* The last answer: cache the payload, note it, store its record; or missing_report. *)
LastAnswer(a, period) ==
    /\ doing = "call" /\ Remaining > 0 /\ Len(replies) = Needed(type) - 1
    /\ (a = "none" => try = Attempts - 1)
    /\ spent' = spent + 1 /\ Trouble(a # "rows") /\ NextType
    /\ IF Usable(Append(replies, a))
       THEN /\ cache' = CachePayload /\ fetched' = [fetched EXCEPT ![this][command.ago] = @ + 1]
            /\ mem' = [Note(0, period) EXCEPT !.calls = mem.calls + 1]
       ELSE mem' = [mem EXCEPT !.calls = @ + 1] /\ UNCHANGED <<cache, fetched>>
    /\ UNCHANGED <<command, stopped, saved, garbled, bounds>>
-------------------------------------------------------------------------------
(* The process is gone. *)
Down == doing' = "idle" /\ at' = <<1, 1>> /\ mem' = DefaultState /\ stopped' = FALSE

(* The next symbol, or the end of the run. *)
NextSymbol ==
    IF ~stopped /\ at[1] < Len(command.symbols)
    THEN doing' = "report" /\ at' = <<at[1] + 1, 1>> /\ UNCHANGED <<mem, stopped>>
    ELSE Down

(* _save_state after each symbol. *)
Save ==
    /\ doing = "save" /\ saved' = mem /\ garbled' = FALSE /\ NextSymbol
    /\ UNCHANGED <<command, cache, request, history, bounds>>

(* What is in a file that cannot be read does not matter. *)
Unread == saved' = IF garbled' THEN DefaultState ELSE saved

(* A save that fails is logged and the run goes on; the file may have been truncated. *)
SaveFails ==
    /\ doing = "save" /\ NextSymbol /\ garbled' \in {garbled, TRUE} /\ Unread
    /\ faults < MaxFaults /\ faults' = faults + 1
    /\ today' = [today EXCEPT !.anew = @ + 1]
    /\ UNCHANGED <<command, cache, request, spent, fetched, special>>

(* What the run can spend between two saves: one symbol, every request with all of its *)
(* attempts, for as long as the budget lasts.                                          *)
SymbolCalls ==
    LET infos == {i \in DOMAIN command.types : command.types[i] = "info"}
        most  == Attempts * (Len(command.types) + 2 * Cardinality(infos))
    IN  IF most < Limit THEN most ELSE Limit

(* The process dies, or the write of a record raises: what it has not saved is gone. *)
Crash ==
    /\ doing # "idle" /\ Down /\ replies' = <<>> /\ try' = 0
    /\ faults < MaxFaults /\ faults' = faults + 1
    /\ today' = [today EXCEPT !.forgot = @ + SymbolCalls]
    /\ UNCHANGED <<command, saved, garbled, cache, spent, fetched, special>>

(* It dies in the middle of a file that it rewrites: the state, or the report's cache file. *)
CrashInSave ==
    /\ doing = "save" /\ Down /\ garbled' = TRUE /\ Unread
    /\ faults < MaxFaults /\ faults' = faults + 1
    /\ today' = [today EXCEPT !.anew = @ + 1]
    /\ UNCHANGED <<command, cache, request, spent, fetched, special>>
CrashInCache ==
    /\ doing = "call" /\ Down /\ replies' = <<>> /\ try' = 0
    /\ File # Never /\ cache' = [cache EXCEPT ![this][command.ago] = Never]
    /\ faults < MaxFaults /\ faults' = faults + 1
    /\ today' = [today EXCEPT !.forgot = @ + SymbolCalls]
    /\ UNCHANGED <<command, saved, garbled, spent, fetched, special>>
-------------------------------------------------------------------------------
Running ==
    \/ NotDue \/ Unaffordable \/ Ask \/ Exhausted \/ Fails
    \/ \E period \in PeriodAges \cup {Never} : period \in Periods /\ CacheHit(period)
    \/ \E a \in Replies : \/ Answer(a)
                          \/ \E period \in PeriodAges \cup {Never} : /\ period \in Periods
                                                                      /\ LastAnswer(a, period)
    \/ Save \/ SaveFails

FundamentalsNext ==
    \/ NewDay \/ (\E r \in Commands : StartRun(r))
    \/ Running \/ Crash \/ CrashInSave \/ CrashInCache

FundamentalsSpec == FundamentalsInit /\ [][FundamentalsNext]_fundamentalsVars

(* A run goes on, and days go by when nothing runs; nobody has to start a run. *)
FairSpec == FundamentalsSpec /\ WF_fundamentalsVars(Running) /\ WF_fundamentalsVars(NewDay)
-------------------------------------------------------------------------------
(* However often a day's runs crash, restart and repeat one another, and     *)
(* whatever runs of the days before left in the state file, the requests of  *)
(* a day stay within daily_call_limit, with three exceptions the code makes: *)
(* each crash forgets at most the calls of one symbol, a lost state file the *)
(* count, and a run for another trade date than the last one's begins a new  *)
(* count (_reset_daily_state).                                               *)
BudgetKept == spent <= Limit + today.forgot + today.anew * Limit

(* A report is paid for once a day and trade date, however often the command *)
(* is repeated, for whichever dates, and whether it was the cache or the     *)
(* state file that a crash kept.                                             *)
OncePerDay == today.forced \/ \A r \in Reports, k \in TradeDates : fetched[r][k] <= 1

(* With one run a day and a provider that answers, no report starves behind  *)
(* those that come before it in the universe and use up the budget.  This is *)
(* of intervals, like this instance's, that leave days on which the reports  *)
(* that come first are not due: when what is due every day costs more than   *)
(* the budget, the tail of the universe is never reached.                    *)
EveryoneServed ==
    []<>today.irregular \/ \A r \in Reports : []<>(\E k \in TradeDates : fetched[r][k] > 0)
=================================================================================
