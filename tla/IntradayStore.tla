---------------------------- MODULE IntradayStore ----------------------------
(***************************************************************************)
(* SnapshotRunner.run (pipeline/snapshot.py) seen from its files.  A run   *)
(* captures rows for one slot, then merges them into one Parquet file per  *)
(* partition: first every partition of the raw layer, then every partition *)
(* of the clean layer.  A merge is read, concatenate, deduplicate and      *)
(* overwrite in place (ParquetWriter.write_dataframe), without a lock and  *)
(* without a temporary file.  Runs overlap when a slot takes longer than   *)
(* the distance to the next (APScheduler starts every slot in a thread of  *)
(* its own) or when the CLI is used next to the scheduler, and a run may   *)
(* die between any two steps.                                              *)
(*                                                                         *)
(* A row is abstracted to its key (conid, slot) and its asof_ts: a file    *)
(* maps each key to the asof of the row it holds, 0 when it holds none.    *)
(* The asof of an answered contract is the time of its ticker, that of an  *)
(* error row, which has no ticker time, the time of the slot.              *)
(***************************************************************************)
EXTENDS Integers

CONSTANTS Runs,     \* calls of SnapshotRunner.run for one trade date and view
          Symbols,  \* underlyings; a partition per symbol and layer
          Conids,   \* contracts of an underlying
          Slots,    \* half-hour slots of the day, named by their times
          MaxClock  \* bound: the last time at which a capture may take place

ASSUME StoreAssumption == /\ MaxClock \in Nat \ {0} /\ Symbols # {}
                          /\ Slots \subseteq 1 .. MaxClock

VARIABLES file,       \* file[f][k]: asof of the row of key k in file f
          torn,       \* files truncated by a write that has not finished
          pc,         \* where each run is
          slot,       \* the slot of a run
          rows,       \* rows[r][s]: the rows of symbol s run r holds in memory
          todo,       \* files the run has still to merge into
          target,     \* the file it is merging into
          merged,     \* the frame it is about to write
          clock,      \* time of the last capture
          latest,     \* history: latest[f][k], newest row written for k
          overlapped, \* history: files two runs had open at once
          crashed     \* history: files a run died on in the middle of a write

run  == <<pc, slot, rows, todo, target, merged>>
vars == <<file, torn, run, clock, latest, overlapped, crashed>>

Layers == {"raw", "clean"}
Files  == Layers \X Symbols
Keys   == Conids \X Slots
Asof   == 0 .. MaxClock
Frames == [Keys -> Asof]
Empty  == [k \in Keys |-> 0]
Steps  == {"idle", "read", "open", "write", "done", "dead"}

(* What the variable target holds before a run merges anything. *)
Nowhere == CHOOSE f \in Files : TRUE

(* The file a run has read, and has not finished writing. *)
Merging(r, f) == pc[r] \in {"open", "write"} /\ target[r] = f

TypeOK ==
    /\ file \in [Files -> Frames]
    /\ torn \subseteq Files
    /\ pc \in [Runs -> Steps]
    /\ slot \in [Runs -> Slots]
    /\ rows \in [Runs -> [Symbols -> Frames]]
    /\ todo \in [Runs -> SUBSET Files]
    /\ target \in [Runs -> Files]
    /\ \A r \in Runs : pc[r] \in {"open", "write"} => target[r] \in todo[r]
    /\ merged \in [Runs -> Frames]
    /\ clock \in Asof
    /\ latest \in [Files -> Frames]
    /\ overlapped \subseteq Files
    /\ crashed \subseteq Files

Init ==
    /\ file = [f \in Files |-> Empty]
    /\ torn = {}
    /\ pc = [r \in Runs |-> "idle"]
    /\ slot \in [Runs -> Slots]
    /\ rows = [r \in Runs |-> [s \in Symbols |-> Empty]]
    /\ todo = [r \in Runs |-> {}]
    /\ target = [r \in Runs |-> Nowhere]
    /\ merged = [r \in Runs |-> Empty]
    /\ clock = 0
    /\ latest = [f \in Files |-> Empty]
    /\ overlapped = {}
    /\ crashed = {}
-------------------------------------------------------------------------------
(* Variant with a seeded bug: drop_duplicates keeps the first row of a key. *)
MergeKeepFirst(old, new) ==
    [k \in Keys |-> IF old[k] # 0 THEN old[k] ELSE new[k]]

(* _merge_and_write_partition: concat, sort by asof_ts, and of each         *)
(* (conid, sample_time) keep the last row.                                  *)
Merge(old, new) ==
    [k \in Keys |-> IF new[k] >= old[k] THEN new[k] ELSE old[k]]

(* The rows a run captured for one symbol, at time now: one per contract it *)
(* came to.  A contract that answered has the time of the answer; one that  *)
(* failed, or timed out before any tick, gets a row with the error and the  *)
(* time of the slot (_enrich_rows: row.pop("asof") or sample_time).         *)
Captured(r, got, answered, now) ==
    [k \in Keys |-> IF k[1] \notin got \/ k[2] # slot[r] THEN 0
                    ELSE IF k[1] \in answered THEN now ELSE slot[r]]

(* The session: every symbol in turn, a failed reference price, contract    *)
(* list or snapshot skipping the symbol.  The label of a slot may be given  *)
(* by hand or fall back on the first of the day, so that a slot may be      *)
(* captured before its time.  Ticks do not fall exactly on slot times.      *)
(* Nothing is written before the session is closed, and nothing at all when *)
(* no symbol gave rows.                                                     *)
Capture(r) ==
    /\ pc[r] = "idle"
    /\ \E now \in Asof \ Slots, got, answered \in [Symbols -> SUBSET Conids] :
          LET hit == {s \in Symbols : got[s] # {}}
          IN /\ clock < now
             /\ \A s \in Symbols : answered[s] \subseteq got[s]
             /\ clock' = now
             /\ rows' = [rows EXCEPT ![r] =
                            [s \in Symbols |-> Captured(r, got[s], answered[s], now)]]
             /\ todo' = [todo EXCEPT ![r] = Layers \X hit]
             /\ pc' = [pc EXCEPT ![r] = IF hit = {} THEN "done" ELSE "read"]
    /\ UNCHANGED <<file, torn, slot, target, merged, latest, overlapped, crashed>>

(* Variant with a seeded bug: the two layers are written in any order. *)
NextFileAnyLayer(r, f) == f \in todo[r]

(* Every partition of the raw layer is written before the first of clean. *)
NextFile(r, f) ==
    /\ f \in todo[r]
    /\ f[1] = "clean" => \A g \in todo[r] : g[1] = "clean"

(* Variant with a seeded bug: the new rows replace the partition. *)
ReadPartitionNothing(r) ==
    /\ pc[r] = "read"
    /\ \E f \in Files :
          /\ NextFile(r, f)
          /\ target' = [target EXCEPT ![r] = f]
          /\ merged' = [merged EXCEPT ![r] = rows[r][f[2]]]
          /\ overlapped' = IF \E q \in Runs : Merging(q, f)
                           THEN overlapped \cup {f} ELSE overlapped
    /\ pc' = [pc EXCEPT ![r] = "open"]
    /\ UNCHANGED <<file, torn, slot, rows, todo, clock, latest, crashed>>

(* Read the existing file.  One that cannot be parsed is logged and treated *)
(* as missing.                                                              *)
ReadPartition(r) ==
    /\ pc[r] = "read"
    /\ \E f \in Files :
          /\ NextFile(r, f)
          /\ target' = [target EXCEPT ![r] = f]
          /\ merged' = [merged EXCEPT ![r] =
                           Merge(IF f \in torn THEN Empty ELSE file[f], rows[r][f[2]])]
          /\ overlapped' = IF \E q \in Runs : Merging(q, f)
                           THEN overlapped \cup {f} ELSE overlapped
    /\ pc' = [pc EXCEPT ![r] = "open"]
    /\ UNCHANGED <<file, torn, slot, rows, todo, clock, latest, crashed>>

(* pq.write_table opens, and truncates, the file it is to replace. *)
OpenPartition(r) ==
    /\ pc[r] = "open"
    /\ torn' = torn \cup {target[r]}
    /\ pc' = [pc EXCEPT ![r] = "write"]
    /\ UNCHANGED <<file, slot, rows, todo, target, merged, clock, latest,
                   overlapped, crashed>>

(* write_table returns.  When another run is writing the same file, what is *)
(* left is either this frame or no Parquet file at all.                     *)
FinishPartition(r) ==
    /\ pc[r] = "write"
    /\ LET f     == target[r]
           other == \E q \in Runs \ {r} : pc[q] = "write" /\ target[q] = f
       IN /\ file' = [file EXCEPT ![f] = merged[r]]
          /\ \/ torn' = torn \ {f}
             \/ other /\ torn' = torn
          /\ latest' = [latest EXCEPT ![f] = Merge(@, rows[r][f[2]])]
          /\ todo' = [todo EXCEPT ![r] = @ \ {f}]
          /\ pc' = [pc EXCEPT ![r] = IF todo[r] = {f} THEN "done" ELSE "read"]
    /\ merged' = [merged EXCEPT ![r] = Empty]
    /\ UNCHANGED <<slot, rows, target, clock, overlapped, crashed>>

(* The run dies: killed, or write_table raises.  The rows of the partitions *)
(* it has not reached are gone with it.                                     *)
Die(r) ==
    /\ pc[r] \in {"read", "open", "write"}
    /\ pc' = [pc EXCEPT ![r] = "dead"]
    /\ crashed' = IF pc[r] = "write" THEN crashed \cup {target[r]} ELSE crashed
    /\ rows' = [rows EXCEPT ![r] = [s \in Symbols |-> Empty]]
    /\ merged' = [merged EXCEPT ![r] = Empty]
    /\ todo' = [todo EXCEPT ![r] = {}]
    /\ UNCHANGED <<file, torn, slot, target, clock, latest, overlapped>>

Next == \E r \in Runs : \/ Capture(r) \/ ReadPartition(r) \/ OpenPartition(r)
                        \/ FinishPartition(r) \/ Die(r)

Spec == Init /\ [][Next]_vars
-------------------------------------------------------------------------------
Intact(f) == f \notin overlapped \cup crashed

(* No lost update: a partition that no two runs had open at once, and on    *)
(* which no run died, holds the newest row ever written for each key, in    *)
(* whatever order the runs captured and wrote (_merge_and_write_partition). *)
NothingLost == \A f \in Files : Intact(f) => file[f] = latest[f]

(* The clean layer never shows a row newer than the raw layer's, or one the *)
(* raw layer lacks: a run that dies halfway leaves raw ahead, never clean.  *)
CleanBehindRaw ==
    \A s \in Symbols : Intact(<<"raw", s>>) /\ Intact(<<"clean", s>>) =>
        \A k \in Keys : file[<<"clean", s>>][k] <= file[<<"raw", s>>][k]

(* A run that returns has its rows in both layers for good, or rows of the   *)
(* same keys with a later stamp, however often the slot is captured again.   *)
(* So an answer that came after the time of its slot gives way only to a     *)
(* newer answer: the error row of a repeated capture, stamped with the slot, *)
(* is the one that is dropped.                                               *)
ReturnedRunKept ==
    \A r \in Runs : pc[r] = "done" =>
        \A f \in Files, k \in Keys : Intact(f) => rows[r][f[2]][k] <= file[f][k]

(* The data contract calls asof_ts the time of the capture and lets the      *)
(* newest win, so the answers of the newest capture are in the files when it *)
(* returns.  The error row of a slot that was captured before its time has   *)
(* a time still to come, and keeps out the answer of the next capture: TLC   *)
(* refutes this property.                                                    *)
NewestAnswerKept ==
    \A r \in Runs : pc[r] = "done" =>
        \A f \in Files, k \in Keys :
            Intact(f) /\ rows[r][f[2]][k] = clock => file[f][k] = clock
===============================================================================
