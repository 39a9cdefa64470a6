---------------------------- MODULE DailyPipeline ----------------------------
(***************************************************************************)
(* From the clean snapshots of a trade date to its daily files.            *)
(* RollupRunner.run (pipeline/rollup.py) selects one row per contract and  *)
(* overwrites daily_clean, then daily_adjusted, partition by partition;    *)
(* EnrichmentRunner.run (pipeline/enrichment.py) later reads daily_clean,  *)
(* asks the gateway for open interest for minutes, and overwrites the same *)
(* files, then appends to the enrichment view.  Both are started by the    *)
(* scheduler, the CLI and the dashboard, in any order and more than once,  *)
(* and share nothing but the files.                                        *)
(*                                                                         *)
(* A row is abstracted to where it comes from (view, slot, number of the   *)
(* capture), its open interest and its quality flags.  A write of a file   *)
(* is atomic here; IntradayStore looks inside it.                          *)
(***************************************************************************)
EXTENDS Integers, FiniteSets

CONSTANTS Symbols,       \* underlyings, one partition each
          Conids,        \* contracts of an underlying
          Slots,         \* slot indexes that occur
          LastSlot,      \* slots[-1], the slot close-snapshot captures
          SlotParams,    \* <<close_slot, fallback_slot>> of the entry points
          CapturedOI,    \* open interest a capture comes with
          AllowFallback, \* rollup.allow_intraday_fallback
          Forces,        \* values of force_overwrite
          Jobs,          \* threads and processes that run rollups and enrichments
          MaxClock,      \* bound: captures of one behaviour
          MaxStarts,     \* bound: rollups and enrichments of one behaviour
          NoRow

Missing == -1              \* open_interest is None or NaN
OI      == {Missing, 0, 1} \* 0: the gateway said so

ASSUME DailyAssumption ==
    /\ LastSlot \in Nat /\ Slots \subseteq 0 .. LastSlot /\ LastSlot \in Slots
    /\ SlotParams \subseteq Nat \X Nat
    /\ CapturedOI \subseteq OI
    /\ AllowFallback \in BOOLEAN /\ Forces \subseteq BOOLEAN
    /\ IsFiniteSet(Jobs)
    /\ MaxClock \in Nat /\ MaxStarts \in Nat

VARIABLES snap,     \* snap[v][s][c][k]: row of contract c, slot k in clean/view=v
          daily,    \* daily[s][c]: view=daily_clean
          adjusted, \* view=daily_adjusted
          log,      \* log[s][c]: records of the contract in view=enrichment
          job,      \* what each job is doing, and its local variables
          clock,    \* captures so far
          starts,   \* rollups and enrichments started so far
          seen,     \* history: what the rollup that wrote daily[s] had read
          base,     \* history: log[s] at that moment
          spoiled   \* history: symbols on which jobs overlapped or one stopped

files == <<daily, adjusted, log>>
vars  == <<snap, files, job, clock, starts, seen, base, spoiled>>

Views   == {"intraday", "close"}
Flags   == {"missing_oi", "delayed_fallback", "fallback_intraday",
            "oi_enriched", "oi_overwritten", "list_as_text"}
SnapRow == [ver : 1 .. MaxClock, ok : BOOLEAN, oi : OI]
DayRow  == [slot : Slots, ver : 1 .. MaxClock, strategy : {"close", "slot_1530", "last_good"},
            view : Views, oi : OI, flags : SUBSET Flags]
ASSUME NoRowAssumption == NoRow \notin SnapRow \cup DayRow

Part    == [Conids -> [Slots -> SnapRow \cup {NoRow}]]
Frame   == [Conids -> DayRow \cup {NoRow}]

NoPart  == [c \in Conids |-> [k \in Slots |-> NoRow]]
NoFrame == [c \in Conids |-> NoRow]
Unseen  == [close |-> LastSlot, part |-> NoPart]
Idle    == [pc |-> "idle", view |-> "close", slots |-> <<LastSlot, LastSlot>>,
            force |-> FALSE, todo |-> {}, cur |-> {}, part |-> NoPart,
            df |-> NoFrame, hits |-> {}, alone |-> FALSE]
Rolling   == {"roll", "rollClean", "rollAdjusted"}
Enriching == {"enrich", "fetch", "enrichClean", "enrichAdjusted", "enrichLog"}

TypeOK ==
    /\ snap \in [Views -> [Symbols -> Part]]
    /\ daily \in [Symbols -> Frame] /\ adjusted \in [Symbols -> Frame]
    /\ log \in [Symbols -> [Conids -> 0 .. MaxStarts]]
    /\ base \in [Symbols -> [Conids -> 0 .. MaxStarts]]
    /\ \A j \in Jobs : /\ job[j].pc \in {"idle"} \cup Rolling \cup Enriching
                       /\ job[j].todo \subseteq Symbols /\ job[j].cur \subseteq Symbols
                       /\ job[j].df \in Frame /\ job[j].part \in Part
                       /\ job[j].hits \subseteq Conids
                       /\ job[j].cur = {} <=> job[j].pc \in {"idle", "roll", "enrich"}
    /\ clock \in 0 .. MaxClock /\ starts \in 0 .. MaxStarts
    /\ \A s \in Symbols : seen[s].part \in Part
    /\ spoiled \subseteq Symbols

Init ==
    /\ snap = [v \in Views |-> [s \in Symbols |-> NoPart]]
    /\ daily = [s \in Symbols |-> NoFrame] /\ adjusted = daily
    /\ log = [s \in Symbols |-> [c \in Conids |-> 0]]
    /\ job = [j \in Jobs |-> Idle]
    /\ clock = 0 /\ starts = 0
    /\ seen = [s \in Symbols |-> Unseen]
    /\ base = log
    /\ spoiled = {}
-------------------------------------------------------------------------------
(* SnapshotRunner.run for one symbol and slot: of each contract a row with  *)
(* quotes, an error row (snapshot_error), or none.  A row replaces the one  *)
(* an earlier capture left for the slot, also when it is an error row.      *)
Capture(v, s, k) ==
    /\ clock < MaxClock /\ clock' = clock + 1
    /\ v = "close" => k = LastSlot
    /\ \E got \in SUBSET Conids : \E row \in [got -> [ok : BOOLEAN, oi : CapturedOI \cup {Missing}]] :
          /\ got # {} /\ \A c \in got : ~row[c].ok => row[c].oi = Missing
          /\ snap' = [snap EXCEPT ![v][s] =
                [c \in Conids |->
                    IF c \in got
                    THEN [@[c] EXCEPT ![k] = [ver |-> clock + 1, ok |-> row[c].ok,
                                              oi |-> row[c].oi]]
                    ELSE @[c]]]
    /\ UNCHANGED <<files, job, starts, seen, base, spoiled>>
-------------------------------------------------------------------------------
HasPart(part) == \E c \in Conids, k \in Slots : part[c][k] # NoRow
HasFile(v, s) == HasPart(snap[v][s])

(* The rows of a contract rollup looks at: those without snapshot_error. *)
Good(part, c) == {k \in Slots : part[c][k] # NoRow /\ part[c][k].ok}

(* Variant with a seeded bug: the last row wins over the close slot. *)
SelectedLast(view, slots, part, c) ==
    LET good == Good(part, c)
        k    == CHOOSE k \in good : \A l \in good : l <= k
    IN IF good = {} THEN NoRow
       ELSE [slot |-> k, ver |-> part[c][k].ver, strategy |-> "last_good",
             view |-> view, oi |-> part[c][k].oi, flags |-> {}]

(* _select_rows: the row of the close slot, else of the fallback slot, else *)
(* the last one; and the flags of the row, the ones _enrich_rows gave it    *)
(* (the close snapshot asks for frozen data) and fallback_intraday.         *)
Selected(view, slots, part, c) ==
    LET good == Good(part, c)
        top  == CHOOSE k \in good : \A l \in good : l <= k
        k    == IF slots[1] \in good THEN slots[1]
                ELSE IF slots[2] \in good THEN slots[2] ELSE top
    IN IF good = {} THEN NoRow
       ELSE [slot |-> k, ver |-> part[c][k].ver,
             strategy |-> IF k = slots[1] THEN "close"
                          ELSE IF k = slots[2] THEN "slot_1530" ELSE "last_good",
             view |-> view, oi |-> part[c][k].oi,
             flags |-> (IF part[c][k].oi = Missing THEN {"missing_oi"} ELSE {})
                  \cup (IF view = "close" THEN {"delayed_fallback"}
                        ELSE {"fallback_intraday"})]

(* Job j reads the file of symbol s.  (History: a job that has it open      *)
(* already overlaps with j, and neither is alone with s any more.)          *)
Others(j, s) == {i \in Jobs \ {j} : s \in job[i].cur}
OpenPart(j, s, step, part, df) ==
    /\ job' = [i \in Jobs |->
          IF i = j THEN [job[j] EXCEPT !.todo = @ \ {s}, !.cur = {s}, !.pc = step,
                               !.part = part, !.df = df, !.alone = Others(j, s) = {}]
          ELSE IF i \in Others(j, s) THEN [job[i] EXCEPT !.alone = FALSE] ELSE job[i]]
    /\ spoiled' = IF Others(j, s) = {} THEN spoiled ELSE spoiled \cup {s}
SkipPart(j, s) == job' = [job EXCEPT ![j].todo = @ \ {s}] /\ UNCHANGED spoiled

(* Variant with a seeded bug: the job forgets to close its partition. *)
NextPartOpen(j, step) == job' = [job EXCEPT ![j].pc = step, ![j].part = NoPart,
                                            ![j].df = NoFrame, ![j].hits = {}]

(* The job is done with its partition. *)
NextPart(j, step) == job' = [job EXCEPT ![j].pc = step, ![j].cur = {}, ![j].part = NoPart,
                                        ![j].df = NoFrame, ![j].hits = {}, ![j].alone = FALSE]

(* RollupRunner.run up to its loop: the close partitions, or those of the   *)
(* intraday view when there is no close partition at all and the config     *)
(* allows it.  Without partitions nothing is written.                       *)
RollupStart(j) ==
    /\ job[j].pc = "idle" /\ starts < MaxStarts /\ starts' = starts + 1
    /\ \E wanted \in (SUBSET Symbols) \ {{}}, slots \in SlotParams :
          LET closed == {s \in Symbols : HasFile("close", s)}
              view   == IF closed = {} THEN "intraday" ELSE "close"
              dirs   == {s \in Symbols : HasFile(view, s)} \cap wanted
          IN /\ closed # {} \/ AllowFallback
             /\ dirs # {}
             /\ job' = [job EXCEPT ![j] = [Idle EXCEPT !.pc = "roll", !.view = view,
                                             !.slots = slots, !.todo = dirs]]
    /\ UNCHANGED <<snap, files, clock, seen, base, spoiled>>

(* Read one partition and select; one without a good row is skipped. *)
RollupRead(j) ==
    /\ job[j].pc = "roll"
    /\ \E s \in job[j].todo :
          LET part == snap[job[j].view][s]
              df   == [c \in Conids |-> Selected(job[j].view, job[j].slots, part, c)]
          IN IF df = NoFrame THEN SkipPart(j, s) ELSE OpenPart(j, s, "rollClean", part, df)
    /\ UNCHANGED <<snap, files, clock, starts, seen, base>>

RollupClean(j) ==
    /\ job[j].pc = "rollClean"
    /\ \E s \in job[j].cur :
          /\ daily' = [daily EXCEPT ![s] = job[j].df]
          /\ seen' = [seen EXCEPT ![s] = [close |-> job[j].slots[1], part |-> job[j].part]]
          /\ base' = [base EXCEPT ![s] = log[s]]
    /\ job' = [job EXCEPT ![j].pc = "rollAdjusted"]
    /\ UNCHANGED <<snap, adjusted, log, clock, starts, spoiled>>

(* Variant with a seeded bug: the adjusted view is not written. *)
RollupAdjustedNever(j) ==
    /\ job[j].pc = "rollAdjusted"
    /\ NextPart(j, "roll")
    /\ UNCHANGED <<snap, daily, adjusted, log, clock, starts, seen, base, spoiled>>

(* The partition is complete.  When no other job had it open meanwhile,     *)
(* whatever went wrong with it before is repaired.                          *)
RollupAdjusted(j) ==
    /\ job[j].pc = "rollAdjusted"
    /\ \E s \in job[j].cur :
          /\ adjusted' = [adjusted EXCEPT ![s] = job[j].df]
          /\ spoiled' = IF job[j].alone THEN spoiled \ {s} ELSE spoiled
    /\ NextPart(j, "roll")
    /\ UNCHANGED <<snap, daily, log, clock, starts, seen, base>>
-------------------------------------------------------------------------------
(* _needs_open_interest.  The flag list comes back from Parquet as an       *)
(* array, which _normalize_flags turns into one string, so that the test    *)
(* for "missing_oi" in it fails and only a missing value decides.           *)
NeedsOpenInterest(row, force) == row # NoRow /\ (force \/ row.oi = Missing)

(* The row after a successful fetch: _flags_after_success appends to the    *)
(* one string the old list has become.                                      *)
Enriched(row, force) ==
    [row EXCEPT !.oi = 1,
                !.flags = {"list_as_text", "oi_enriched"}
                          \cup IF force /\ row.oi # Missing THEN {"oi_overwritten"} ELSE {}]

(* EnrichmentRunner.run up to its loop over the files: without a row that   *)
(* needs open interest nothing is done.                                     *)
EnrichStart(j) ==
    /\ job[j].pc = "idle" /\ starts < MaxStarts /\ starts' = starts + 1
    /\ \E wanted \in (SUBSET Symbols) \ {{}}, force \in Forces :
          /\ \E s \in wanted, c \in Conids : NeedsOpenInterest(daily[s][c], force)
          /\ job' = [job EXCEPT ![j] = [Idle EXCEPT !.pc = "enrich", !.force = force,
                            !.todo = {s \in wanted : daily[s] # NoFrame}]]
    /\ UNCHANGED <<snap, files, clock, seen, base, spoiled>>

(* Read a file again; one that needs nothing (any more) is skipped. *)
EnrichRead(j) ==
    /\ job[j].pc = "enrich"
    /\ \E s \in job[j].todo :
          IF \E c \in Conids : NeedsOpenInterest(daily[s][c], job[j].force)
          THEN OpenPart(j, s, "fetch", NoPart, daily[s])
          ELSE SkipPart(j, s)
    /\ UNCHANGED <<snap, files, clock, starts, seen, base>>

(* Ask the gateway for every row that needs it: some answer with a positive *)
(* open interest, the others are recorded as errors.  Without an answer the *)
(* file is left alone.                                                      *)
EnrichFetch(j) ==
    /\ job[j].pc = "fetch"
    /\ \E hits \in SUBSET {c \in Conids : NeedsOpenInterest(job[j].df[c], job[j].force)} :
          IF hits = {} THEN NextPart(j, "enrich")
          ELSE job' = [job EXCEPT ![j].pc = "enrichClean", ![j].hits = hits,
                         ![j].df = [c \in Conids |-> IF c \in hits
                                                     THEN Enriched(@[c], job[j].force) ELSE @[c]]]
    /\ UNCHANGED <<snap, files, clock, starts, seen, base, spoiled>>

(* A failed write of daily_clean is logged and the partition given up. *)
EnrichClean(j) ==
    /\ job[j].pc = "enrichClean"
    /\ \/ /\ \E s \in job[j].cur : daily' = [daily EXCEPT ![s] = job[j].df]
          /\ job' = [job EXCEPT ![j].pc = "enrichAdjusted"]
          /\ UNCHANGED spoiled
       \/ /\ NextPart(j, "enrich")
          /\ UNCHANGED <<daily, spoiled>>
    /\ UNCHANGED <<snap, adjusted, log, clock, starts, seen, base>>

(* A failed write of daily_adjusted is logged, and the run goes on. *)
EnrichAdjusted(j) ==
    /\ job[j].pc = "enrichAdjusted"
    /\ \E s \in job[j].cur :
          \/ adjusted' = [adjusted EXCEPT ![s] = job[j].df] /\ UNCHANGED spoiled
          \/ spoiled' = spoiled \cup {s} /\ UNCHANGED adjusted
    /\ job' = [job EXCEPT ![j].pc = "enrichLog"]
    /\ UNCHANGED <<snap, daily, log, clock, starts, seen, base>>

(* Variant with a seeded bug: every row of the file is logged. *)
EnrichLogAll(j) ==
    /\ job[j].pc = "enrichLog"
    /\ \E s \in job[j].cur : log' = [log EXCEPT ![s] = [c \in Conids |-> @[c] + 1]]
    /\ NextPart(j, "enrich")
    /\ UNCHANGED <<snap, daily, adjusted, clock, starts, seen, base, spoiled>>

(* Append the updates to the enrichment view. *)
EnrichLog(j) ==
    /\ job[j].pc = "enrichLog"
    /\ \E s \in job[j].cur :
          log' = [log EXCEPT ![s] = [c \in Conids |-> IF c \in job[j].hits
                                                      THEN @[c] + 1 ELSE @[c]]]
    /\ NextPart(j, "enrich")
    /\ UNCHANGED <<snap, daily, adjusted, clock, starts, seen, base, spoiled>>

(* The loop is over. *)
Finish(j) ==
    /\ job[j].pc \in {"roll", "enrich"} /\ job[j].todo = {}
    /\ job' = [job EXCEPT ![j] = Idle]
    /\ UNCHANGED <<snap, files, clock, starts, seen, base, spoiled>>

(* The process is killed or an exception leaves run() (every write of       *)
(* rollup, the last write of enrichment).                                   *)
Stop(j) ==
    /\ job[j].pc # "idle"
    /\ spoiled' = IF job[j].pc \in {"rollAdjusted", "enrichAdjusted", "enrichLog"}
                  THEN spoiled \cup job[j].cur ELSE spoiled
    /\ job' = [job EXCEPT ![j] = Idle]
    /\ UNCHANGED <<snap, files, clock, starts, seen, base>>

Rollup(j) == RollupStart(j) \/ RollupRead(j) \/ RollupClean(j) \/ RollupAdjusted(j)
Enrich(j) == \/ EnrichStart(j) \/ EnrichRead(j) \/ EnrichFetch(j) \/ EnrichClean(j)
             \/ EnrichAdjusted(j) \/ EnrichLog(j)

Next == \/ \E v \in Views, s \in Symbols, k \in Slots : Capture(v, s, k)
        \/ \E j \in Jobs : Rollup(j) \/ Enrich(j) \/ Finish(j) \/ Stop(j)

Spec == Init /\ [][Next]_vars
-------------------------------------------------------------------------------
(* Symbols whose files nobody is changing and no accident has touched since *)
(* the last complete rollup.                                                *)
Settled == {s \in Symbols \ spoiled : \A j \in Jobs : s \notin job[j].cur}

(* daily_adjusted shows the rows of daily_clean, whichever of rollup and    *)
(* enrichment wrote last, and a complete rollup repairs what a stopped or   *)
(* overlapping job left behind.                                             *)
AdjustedMatches == \A s \in Settled : adjusted[s] = daily[s]

(* Enrichment, repeated or failing for some contracts, leaves the selection *)
(* of the last rollup alone: the daily rows are those of the contracts that *)
(* had a quote without error in what rollup read, each with its own quote   *)
(* of the close slot if there was one (_select_rows, run).                  *)
SelectionKept ==
    \A s \in Symbols \ spoiled, c \in Conids :
        LET good == Good(seen[s].part, c)
            row  == daily[s][c]
        IN /\ row = NoRow <=> good = {}
           /\ row # NoRow => /\ row.slot \in good
                             /\ seen[s].close \in good => row.slot = seen[s].close
                             /\ row.ver = seen[s].part[c][row.slot].ver

(* The enrichment view and daily_clean tell the same story since the last   *)
(* rollup: an enriched row has a record, one only unless it was forced, and *)
(* no other row has any.                                                    *)
EnrichmentLogged ==
    \A s \in Settled, c \in Conids :
        LET row == daily[s][c]
            new == log[s][c] - base[s][c]
        IN /\ new > 0 <=> row # NoRow /\ "oi_enriched" \in row.flags
           /\ new > 1 => "oi_overwritten" \in row.flags
===============================================================================
