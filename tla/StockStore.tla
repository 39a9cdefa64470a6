------------------------------- MODULE StockStore -------------------------------
(***************************************************************************)
(* The daily bars and the volatility of the stocks (stock-data): the       *)
(* snapshot of a day, the backfill that goes on after the newest date a    *)
(* symbol has, alone or as the two halves of the daily schedule, and the   *)
(* command cleanup, which merges the partitions of old months into one     *)
(* file a month and may delete them.                                       *)
(*                                                                         *)
(* One command runs at a time; it can die between any two writes and in    *)
(* one: files are written in place, and what a death leaves of a partition *)
(* counts as a date by its name but cannot be read.  A value is its        *)
(* column's name: what matters is whether a row has it.                    *)
(***************************************************************************)
EXTENDS DatedFiles, Sequences, FiniteSets

CONSTANTS MonthDays,    \* trading days of a month
          KeepMonths,   \* --keep-months
          Window,       \* --days of a backfill
          MaxCommands   \* bound

Views  == {"daily_bars", "volatility"}
Month(d) == 1 + (d - 1) \div MonthDays
MonthKeys   == Universe \X {Month(d) : d \in Days}

ASSUME StockAssumption ==
    /\ {MonthDays, KeepMonths, Window} \subseteq Nat \ {0} /\ MaxCommands \in Nat

(* A column is its name and the suffixes that merges have put on it; the columns that *)
(* describe a row's origin, which both views have, are taken as one, "meta".          *)
Values(v)  == IF v = "daily_bars" THEN {<<"bar">>} ELSE {<<"iv">>, <<"hv">>}
Columns(v) == {<<"meta">>} \cup Values(v)

VARIABLES store,     \* view, symbol |-> (date of a partition |-> the values its row has)
          damaged,   \* view, symbol and date of the partitions whose file was torn
          months,    \* key |-> columns and rows of the month's file; no columns: no file
          unreadable,\* keys whose month's file was torn
          view,      \* the view that is backfilled
          auto,      \* --auto-from-latest
          chained,   \* the volatility backfill of schedule comes after this one
          window,    \* first and last day of the backfill
          pending,      \* dates to be written for the first of them, and their values
          keys,      \* keys to be merged
          failed,    \* had_errors
          remove,    \* --remove-source
          dirs,      \* date directories the cleanup has collected
          stepped,   \* history: view, symbol |-> days a command went past on purpose
          commands

commandState == <<view, auto, chained, window, queue, pending, keys, failed, remove, dirs>>
limits  == <<commands, crashes>>
stockVars == <<day, store, damaged, months, unreadable, phase, commandState, stepped, limits>>

Tables(S) == UNION {[D -> SUBSET S] : D \in SUBSET Days}

StockInit ==
    /\ day = 1 /\ store = [v \in Views |-> [s \in Universe |-> Nothing]] /\ damaged = {}
    /\ months = [k \in MonthKeys |-> [cols |-> {}, rows |-> Nothing]] /\ unreadable = {}
    /\ phase = "idle" /\ view = "daily_bars" /\ auto = FALSE /\ chained = FALSE
    /\ window = <<1, 1>>
    /\ queue = {} /\ pending = Nothing /\ keys = {} /\ failed = FALSE /\ remove = FALSE /\ dirs = {}
    /\ stepped = [v \in Views |-> [s \in Universe |-> {}]] /\ commands = 0 /\ crashes = 0

Tomorrow ==
    /\ phase = "idle" /\ day < LastDay /\ day' = day + 1
    /\ UNCHANGED <<store, damaged, months, unreadable, phase, commandState, stepped, limits>>

Command == phase = "idle" /\ commands < MaxCommands /\ commands' = commands + 1
-------------------------------------------------------------------------------
(* existing_partition_dates *)
Dates(v, s) == DOMAIN store[v][s]

(* _resolve_last_trading_date: today once its bar is published, else the day before. *)
Effective == {day - 1, day} \cap Days

(* write_dataframe: the row replaces the partition. *)
Written(v, s, d, row) == [store EXCEPT ![v][s] = With(@, d, row)]

WriteFile(v, s, d, row) ==
    /\ store' = Written(v, s, d, row) /\ damaged' = damaged \ {<<v, s, d>>}

(* The command dies in it: there is a file of that name, but no row. *)
TearFile(v, s, d) ==
    /\ crashes < MaxCrashes /\ crashes' = crashes + 1
    /\ store' = Written(v, s, d, {}) /\ damaged' = damaged \cup {<<v, s, d>>}

(* Days that a row of day first would leave out. *)
Skipped(v, s, first) == {e \in 1 .. first - 1 : \A d \in Dates(v, s) : d < e}
StepOver(v, s, first) == [stepped EXCEPT ![v][s] = @ \cup Skipped(v, s, first)]

(* A snapshot writes the row of one day; the days between the newest date and it are *)
(* left out.                                                                         *)
Snapshot(v, s, d, row) ==
    /\ Command /\ d \in Effective
    /\ \/ WriteFile(v, s, d, row) /\ UNCHANGED crashes
       \/ TearFile(v, s, d)
    /\ stepped' = StepOver(v, s, d)
    /\ UNCHANGED <<day, months, unreadable, phase, commandState>>

(* DailyBarsRunner.run writes the bar if it came. *)
SnapshotBars(s, d) == Snapshot("daily_bars", s, d, Values("daily_bars"))

(* VolatilityRunner.run_snapshot writes whatever came, nothing included. *)
SnapshotVolatility(s, d, row) == Snapshot("volatility", s, d, row)
-------------------------------------------------------------------------------
(* run_backfill of one view, or the first half of schedule. *)
StartBackfill(v, last, fromNewest, chain) ==
    /\ Command /\ last \in Effective /\ (chain => v = "daily_bars" /\ fromNewest)
    /\ phase' = "next" /\ view' = v /\ auto' = fromNewest /\ chained' = chain
    /\ queue' = Universe /\ window' = <<last - Window + 1, last>>
    /\ UNCHANGED <<day, store, damaged, months, unreadable, pending, keys, failed, remove,
                   dirs, stepped, crashes>>

(* start_date *)
First ==
    IF Dates(view, sym) # {} /\ (auto \/ Newest(Dates(view, sym)) >= window[1])
    THEN Newest(Dates(view, sym)) + 1 ELSE window[1]

(* Bars come without gaps from the first day on: all of them, none when the request *)
(* fails or the symbol does not qualify, all but the last one when it is not out.   *)
BarDays(answer) ==
    {d \in Days : /\ First <= d /\ answer # "none"
                  /\ IF answer = "all" THEN d <= window[2] ELSE d < window[2]}

(* The requests for a symbol; every date that has a bar of any kind makes a row. *)
Fetch(answer) ==
    /\ phase = "next" /\ queue # {} /\ phase' = "fill"
    /\ pending' = [d \in UNION {BarDays(answer[c]) : c \in Values(view)} |->
                  {c \in Values(view) : d \in BarDays(answer[c])}]
    /\ stepped' = StepOver(view, sym, First)
    /\ UNCHANGED <<day, store, damaged, months, unreadable, view, auto, chained, window,
                   queue, keys, failed, remove, dirs, limits>>

(* Variant with a seeded bug: the newest bar is written first. *)
NewestFirst(D) == {d \in D : \A e \in D : e <= d}

(* Bars come, and dates are sorted, the oldest first. *)
NextDate(D) == {d \in D : \A e \in D : d <= e}

Write ==
    /\ phase = "fill"
    /\ \E d \in NextDate(DOMAIN pending) : /\ WriteFile(view, sym, d, pending[d])
                                         /\ pending' = Without(pending, d)
    /\ UNCHANGED <<day, months, unreadable, phase, view, auto, chained, window, queue, keys,
                   failed, remove, dirs, stepped, limits>>

SymbolDone ==
    /\ phase = "fill" /\ DOMAIN pending = {} /\ phase' = "next" /\ queue' = queue \ {sym}
    /\ UNCHANGED <<day, store, damaged, months, unreadable, view, auto, chained, window,
                   pending, keys, failed, remove, dirs, stepped, limits>>

(* The end of the run; schedule goes on with the volatility. *)
RunDone ==
    /\ phase = "next" /\ queue = {}
    /\ IF chained THEN phase' = "next" /\ view' = "volatility" /\ queue' = Universe
                  ELSE phase' = "idle" /\ view' = "daily_bars" /\ UNCHANGED queue
    /\ auto' = (auto /\ chained) /\ chained' = FALSE
    /\ window' = IF chained THEN window ELSE <<1, 1>>
    /\ UNCHANGED <<day, store, damaged, months, unreadable, pending, keys, failed, remove,
                   dirs, stepped, limits>>

(* A backfill raises, or the process dies, perhaps in a write; schedule logs the *)
(* exception and goes on.                                                        *)
RunFails ==
    /\ phase \in {"next", "fill"} /\ pending' = Nothing
    /\ \/ crashes < MaxCrashes /\ crashes' = crashes + 1 /\ UNCHANGED <<store, damaged>>
       \/ phase = "fill" /\ \E d \in NextDate(DOMAIN pending) : TearFile(view, sym, d)
    /\ \/ /\ phase' = "idle" /\ queue' = {} /\ view' = "daily_bars" /\ auto' = FALSE
          /\ window' = <<1, 1>>
       \/ /\ chained /\ phase' = "next" /\ queue' = Universe /\ view' = "volatility"
          /\ UNCHANGED <<auto, window>>
    /\ chained' = FALSE
    /\ UNCHANGED <<day, months, unreadable, keys, failed, remove, dirs, stepped, commands>>
-------------------------------------------------------------------------------
(* cleanup works on the months before the last KeepMonths, this one included. *)
Cutoff == (Month(day) - KeepMonths) * MonthDays + 1
OldDates(v, s) == {d \in Dates(v, s) : d < Cutoff}
OldKeys == {<<x[1], Month(x[2])>> : x \in {y \in Universe \X Days :
                                             \E v \in Views : y[2] \in OldDates(v, y[1])}}

(* _collect_files lists what there is to merge and the directories it is in. *)
StartCleanup(r) ==
    /\ Command /\ OldKeys # {} /\ phase' = "merge" /\ keys' = OldKeys
    /\ dirs' = {x \in Views \X Days : \E s \in Universe : x[2] \in OldDates(x[1], s)}
    /\ remove' = r /\ failed' = FALSE
    /\ UNCHANGED <<day, store, damaged, months, unreadable, view, auto, chained, window,
                   queue, pending, stepped, crashes>>

(* The partitions of a key in one view. *)
Source(v, k) == {d \in OldDates(v, k[1]) : Month(d) = k[2]}

(* price_df: the month's file followed by the bars; the later row of a date wins. *)
PriceFrame(k) ==
    LET bars == Source("daily_bars", k)
    IN  [cols |-> months[k].cols \cup (IF bars = {} THEN {} ELSE Columns("daily_bars")),
         rows |-> [d \in bars \cup DOMAIN months[k].rows |->
                     IF d \in bars THEN store["daily_bars"][k[1]][d] ELSE months[k].rows[d]]]

VolFrame(k) ==
    LET vols == Source("volatility", k)
    IN  [cols |-> IF vols = {} THEN {} ELSE Columns("volatility"),
         rows |-> [d \in vols |-> store["volatility"][k[1]][d]]]

(* DataFrame.merge gives the columns that both frames have a suffix each. *)
Renamed(S, common, suffix) == {IF c \in common THEN Append(c, suffix) ELSE c : c \in S}
At(f, d) == IF d \in DOMAIN f.rows THEN f.rows[d] ELSE {}

Join(l, r) ==
    LET common == l.cols \cap r.cols
        both(a, b) == Renamed(a, common, "_price") \cup Renamed(b, common, "_vol")
    IN  [cols |-> both(l.cols, r.cols),
         rows |-> [d \in DOMAIN l.rows \cup DOMAIN r.rows |-> both(At(l, d), At(r, d))]]

(* It raises MergeError when a suffix makes a name that the frame already has. *)
Clash(l, r) == \E c \in l.cols \cap r.cols : Append(c, "_price") \in l.cols

MergedMonth(k) ==
    LET l == PriceFrame(k)
        r == VolFrame(k)
    IN  IF r.cols = {} THEN l ELSE IF l.cols = {} THEN r ELSE Join(l, r)

key == CHOOSE k \in keys : TRUE
MergeFails == \/ key \in unreadable \/ Clash(PriceFrame(key), VolFrame(key))
              \/ \E v \in Views : \E d \in Source(v, key) : <<v, key[1], d>> \in damaged

MergeKey ==
    /\ phase = "merge" /\ keys # {} /\ keys' = keys \ {key}
    /\ IF MergeFails THEN failed' = TRUE /\ UNCHANGED months
                     ELSE months' = [months EXCEPT ![key] = MergedMonth(key)] /\ UNCHANGED failed
    /\ UNCHANGED <<day, store, damaged, unreadable, phase, view, auto, chained, window,
                   queue, pending, remove, dirs, stepped, limits>>

(* Variant with a seeded bug: sources are removed although a merge failed. *)
RemovesAnyway == remove

(* Sources are removed only if every key was merged. *)
Removes == remove /\ ~failed

CleanupOver == phase' = "idle" /\ keys' = {} /\ failed' = FALSE /\ remove' = FALSE /\ dirs' = {}

MergesDone ==
    /\ phase = "merge" /\ keys = {}
    /\ IF Removes THEN phase' = "delete" /\ UNCHANGED <<keys, failed, remove, dirs>> ELSE CleanupOver
    /\ UNCHANGED <<day, store, damaged, months, unreadable, view, auto, chained, window,
                   queue, pending, stepped, limits>>

(* sorted(price_dates | vol_dates): the bars' directories come first. *)
Before(a, b) == IF a[1] = b[1] THEN a[2] <= b[2] ELSE a[1] = "daily_bars"
NextDir == {x \in dirs : \A y \in dirs : Before(x, y)}

DeleteDir ==
    /\ phase = "delete"
    /\ \E x \in NextDir :
          /\ dirs' = dirs \ {x}
          /\ store' = [store EXCEPT ![x[1]] = [s \in Universe |-> Without(@[s], x[2])]]
          /\ damaged' = damaged \ ({x[1]} \X Universe \X {x[2]})
          /\ stepped' = [stepped EXCEPT ![x[1]] = [s \in Universe |-> @[s] \cup {x[2]}]]
    /\ UNCHANGED <<day, months, unreadable, phase, view, auto, chained, window, queue,
                   pending, keys, failed, remove, limits>>

DeletesDone ==
    /\ phase = "delete" /\ dirs = {} /\ CleanupOver
    /\ UNCHANGED <<day, store, damaged, months, unreadable, view, auto, chained, window,
                   queue, pending, stepped, limits>>

(* cleanup dies; in the write of a month's file that file is torn. *)
CleanupDies ==
    /\ phase \in {"merge", "delete"} /\ CleanupOver
    /\ crashes < MaxCrashes /\ crashes' = crashes + 1
    /\ unreadable' \in {unreadable} \cup
                       (IF phase = "merge" /\ keys # {} /\ ~MergeFails THEN {unreadable \cup {key}} ELSE {})
    /\ UNCHANGED <<day, store, damaged, months, view, auto, chained, window, queue, pending,
                   stepped, commands>>
-------------------------------------------------------------------------------
Answers == {"all", "late", "none"}

StockNext ==
    \/ Tomorrow
    \/ \E s \in Universe, d \in Days :
         \/ SnapshotBars(s, d)
         \/ \E row \in SUBSET Values("volatility") : SnapshotVolatility(s, d, row)
    \/ \E v \in Views, d \in Days, fromNewest, chain \in BOOLEAN :
         StartBackfill(v, d, fromNewest, chain)
    \/ \E answer \in [Values(view) -> Answers] : Fetch(answer)
    \/ Write \/ SymbolDone \/ RunDone \/ RunFails
    \/ \E r \in BOOLEAN : StartCleanup(r)
    \/ MergeKey \/ MergesDone \/ DeleteDir \/ DeletesDone \/ CleanupDies

StockSpec == StockInit /\ [][StockNext]_stockVars
-------------------------------------------------------------------------------
(* What a column is made of. *)
Parts == {"meta", "bar", "iv", "hv", "_price", "_vol"}

StockTypeOK ==
    /\ day \in Days /\ phase \in {"idle", "next", "fill", "merge", "delete"} /\ view \in Views
    /\ store \in [Views -> [Universe -> Tables(UNION {Values(v) : v \in Views})]]
    /\ \A v \in Views, s \in Universe : store[v][s] \in Tables(Values(v))
    /\ damaged \subseteq Views \X Universe \X Days /\ pending \in Tables(Values(view))
    /\ stepped \in [Views -> [Universe -> SUBSET Days]]
    /\ DOMAIN months = MonthKeys /\ unreadable \subseteq MonthKeys
    /\ \A k \in MonthKeys : /\ months[k].cols \subseteq Seq(Parts) /\ DOMAIN months[k].rows \subseteq Days
                        /\ \A d \in DOMAIN months[k].rows : months[k].rows[d] \subseteq months[k].cols
    /\ {auto, chained, failed, remove} \subseteq BOOLEAN
    /\ window \in Int \X Days /\ window[1] <= window[2] /\ queue \subseteq Universe /\ keys \subseteq MonthKeys
    /\ dirs \subseteq Views \X Days
    /\ commands \in 0 .. MaxCommands /\ crashes \in 0 .. MaxCrashes

(* The dates whose row can be read. *)
Readable(v, s) == {d \in Dates(v, s) : <<v, s, d>> \notin damaged}

(* The next backfill goes on after the newest date, so a day below that date *)
(* has its row unless a snapshot, or a window, went past it or a cleanup has *)
(* taken it, wherever a backfill died; a day whose very file a command died  *)
(* in the write of is the exception, and there is at most one for a death.   *)
NoHoles ==
    /\ \A v \in Views, s \in Universe : \A d \in Dates(v, s) : \A e \in 1 .. d - 1 :
          e \in Readable(v, s) \/ e \in stepped[v][s] \/ <<v, s, e>> \in damaged
    /\ Cardinality(damaged) <= crashes

(* A backfill --auto-from-latest is said to resume: what it is about to     *)
(* write leaves no day out that an earlier command did not go past on        *)
(* purpose, be it that it died.  It begins after a torn file: TLC refutes    *)
(* this property.                                                            *)
ResumeLeavesNoHole ==
    phase = "fill" /\ auto =>
        \A d \in DOMAIN pending : 1 .. d - 1 \subseteq
            DOMAIN pending \cup Readable(view, sym) \cup stepped[view][sym]

(* The month's file has the value of a column under that name or a suffixed one. *)
Held(k, d, c) == \E x \in At(months[k], d) : x[1] = c[1]

(* A partition is deleted only when it could be read and the file of its     *)
(* month has its values, whatever failed and in whatever order cleanups were *)
(* cut short before.                                                         *)
DeletedIsMerged ==
    [][\A v \in Views, s \in Universe : \A d \in Dates(v, s) \ DOMAIN store'[v][s] :
          /\ <<v, s, d>> \notin damaged /\ <<s, Month(d)>> \notin unreadable
          /\ \A c \in store[v][s][d] : Held(<<s, Month(d)>>, d, c)]_stockVars
================================================================================
