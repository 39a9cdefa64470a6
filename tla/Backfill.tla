------------------------------- MODULE Backfill -------------------------------
(***************************************************************************)
(* The backfill of a range of days (pipeline/backfill.py) from a queue     *)
(* file per day (util/queue.py), started by the commands update (one day,  *)
(* from the queue it finds) and backfill (plans every day anew, then runs  *)
(* the range).  One process at a time, which may crash and be started      *)
(* again.  A symbol's data is abstracted to whether every contract is in   *)
(* it, the exchanges of a symbol to one.                                   *)
(*                                                                         *)
(* In mode snapshot BackfillRunner.run passes timeout and poll_interval to *)
(* a default snapshot_fetcher that takes neither (lines 171-175, 321-328): *)
(* every task with contracts fails.                                        *)
(***************************************************************************)
EXTENDS Integers, Sequences, FiniteSets

CONSTANTS Universe,   \* the symbols of the universe, in order
          Wanted,     \* values of --symbols: subsequences of Universe
          LastDay,    \* a backfill covers the days 1 .. LastDay
          TradingDays,
          UpdateDays, \* the days update is started for
          Faulty,     \* symbols whose price or contracts can never be had
          Limits,     \* values of --limit, 0 for none
          MaxFaults,  \* bound: crashes, stops and failures of other symbols
          MaxPlans    \* bound: backfill commands

Symbols == {Universe[i] : i \in DOMAIN Universe}
Days    == 1 .. LastDay
Layers  == 1 .. 3   \* raw, clean, adjusted: the order they are written in

ASSUME BackfillAssumption ==
    /\ \A i, j \in DOMAIN Universe : Universe[i] = Universe[j] => i = j
    /\ Wanted \subseteq Seq(Symbols)
    /\ LastDay \in Nat /\ TradingDays \cup UpdateDays \subseteq Days /\ Faulty \subseteq Symbols
    /\ Limits \subseteq Nat /\ {MaxFaults, MaxPlans} \subseteq Nat

VARIABLES mode, limit,       \* configuration and --limit
          pc, cmd, execute, wanted, day,
          queue,    \* the deque of the day
          left,     \* turns of the loop over max_items that are left
          task, layer, content, after,
          file,     \* day |-> lines of the queue file
          exists,   \* days with a queue file
          broken,   \* days whose file ends in half a line
          data,     \* day |-> layer |-> symbol |-> what the partition holds
          planned,  \* history: day |-> symbols of its last plan
          settled,  \* history: day |-> symbols processed and not begun again
          gaps,     \* history: day |-> symbols processed with contracts missing
          dropped,  \* history: day |-> symbols taken out because nothing came
          cut,      \* history: day |-> symbols taken out by a stop before any row
          hit,      \* history: days whose queue file was hit by a crash in save
          faults, plans

config  == <<mode, limit>>
command == <<cmd, execute, wanted>>
working == <<task, layer, content>>
disk    == <<file, exists, broken>>
history == <<planned, settled, gaps, dropped, cut, hit>>
bounds  == <<faults, plans>>
vars == <<config, pc, command, day, queue, left, working, after, disk, data, history, bounds>>

Elements(s) == {s[i] : i \in DOMAIN s}
NoTask == "none"
Steps  == {"down", "plan", "planned", "range", "load", "session", "next", "task", "write",
           "save", "endday"}

TypeOK ==
    /\ mode \in {"snapshot", "historical"} /\ limit \in Limits
    /\ pc \in Steps /\ after \in {"planned", "session", "next", "endday"}
    /\ cmd \in {"update", "backfill"} /\ execute \in BOOLEAN /\ wanted \in Wanted
    /\ day \in 1 .. LastDay + 1 /\ (pc \notin {"down", "plan", "range"} => day \in Days)
    /\ queue \in Seq(Symbols) /\ left \in Nat
    /\ task \in Symbols \cup {NoTask} /\ (pc \in {"task", "write"} => task \in Symbols)
    /\ layer \in Layers /\ content \in {"whole", "part"}
    /\ file \in [Days -> Seq(Symbols)] /\ exists \subseteq Days /\ broken \subseteq exists
    /\ data \in [Days -> [Layers -> [Symbols -> {"none", "part", "whole", "torn"}]]]
    /\ planned \in [Days -> SUBSET Symbols] /\ settled \in [Days -> SUBSET Symbols]
    /\ gaps \in [Days -> SUBSET Symbols] /\ dropped \in [Days -> SUBSET Symbols]
    /\ cut \in [Days -> SUBSET Symbols] /\ hit \subseteq Days
    /\ faults \in 0 .. MaxFaults /\ plans \in 0 .. MaxPlans

Init ==
    /\ mode \in {"snapshot", "historical"} /\ limit \in Limits
    /\ pc = "down" /\ cmd = "update" /\ execute = FALSE /\ wanted \in Wanted /\ day = 1
    /\ queue = <<>> /\ left = 0 /\ task = NoTask /\ layer = 1 /\ content = "whole"
    /\ after = "next"
    /\ file = [d \in Days |-> <<>>] /\ exists = {} /\ broken = {}
    /\ data = [d \in Days |-> [l \in Layers |-> [s \in Symbols |-> "none"]]]
    /\ planned = [d \in Days |-> {}] /\ settled = planned /\ gaps = planned /\ dropped = planned
    /\ cut = planned /\ hit = {} /\ faults = 0 /\ plans = 0
-------------------------------------------------------------------------------
(* The process is over, and with it its variables. *)
Ended == /\ pc' = "down" /\ cmd' = "update" /\ execute' = FALSE /\ day' = 1
         /\ queue' = <<>> /\ left' = 0 /\ task' = NoTask /\ layer' = 1 /\ content' = "whole"
         /\ after' = "next"
         /\ UNCHANGED wanted

(* The command update: run for one day, trading day or not. *)
StartUpdate(d, w) ==
    /\ pc = "down" /\ pc' = "load"
    /\ cmd' = "update" /\ execute' = TRUE /\ wanted' = w /\ day' = d
    /\ UNCHANGED <<config, queue, left, working, after, disk, data, history, bounds>>

(* The command backfill: every trading day of the range is planned first. *)
StartBackfill(w) ==
    /\ pc = "down" /\ pc' = "plan"
    /\ plans < MaxPlans /\ plans' = plans + 1
    /\ cmd' = "backfill" /\ execute' \in BOOLEAN /\ wanted' = w /\ day' = 1
    /\ UNCHANGED <<config, queue, left, working, after, disk, data, history, faults>>

(* BackfillPlanner.plan: a fresh queue over whatever the file had. *)
Plan(next) ==
    /\ queue' = wanted /\ pc' = "save" /\ after' = next
    /\ planned' = [planned EXCEPT ![day] = Elements(wanted)]
    /\ dropped' = [dropped EXCEPT ![day] = {}] /\ cut' = [cut EXCEPT ![day] = {}]
    /\ settled' = [settled EXCEPT ![day] = @ \ Elements(wanted)]
    /\ hit' = hit \ {day}
    /\ UNCHANGED <<config, command, day, left, working, disk, data, gaps, bounds>>

PlanDay == pc = "plan" /\ day \in TradingDays /\ Plan("planned")

Planned ==
    /\ pc = "planned" \/ (pc = "plan" /\ day \in Days \ TradingDays)
    /\ day' = day + 1 /\ pc' = "plan"
    /\ UNCHANGED <<config, command, queue, left, working, after, disk, data, history, bounds>>

Execute ==
    /\ pc = "plan" /\ day > LastDay /\ execute
    /\ pc' = "range" /\ day' = 1
    /\ UNCHANGED <<config, command, queue, left, working, after, disk, data, history, bounds>>

PlanOnly ==
    /\ pc = "plan" /\ day > LastDay /\ ~execute /\ Ended
    /\ UNCHANGED <<config, disk, data, history, bounds>>
-------------------------------------------------------------------------------
(* run_range: one turn of its loop. *)
Range ==
    /\ pc = "range" /\ day \in Days
    /\ IF day \in TradingDays THEN pc' = "load" /\ UNCHANGED day
                              ELSE pc' = "range" /\ day' = day + 1
    /\ UNCHANGED <<config, command, queue, left, working, after, disk, data, history, bounds>>

RangeEnds ==
    /\ pc = "range" /\ day > LastDay /\ Ended
    /\ UNCHANGED <<config, disk, data, history, bounds>>

(* run: the queue file, if there is one, with whatever symbols it has. *)
Load ==
    /\ pc = "load" /\ day \in exists \ broken
    /\ queue' = file[day]
    /\ pc' = IF file[day] = <<>> THEN "endday" ELSE "session"
    /\ UNCHANGED <<config, command, day, left, working, after, disk, data, history, bounds>>

LoadPlans ==
    /\ pc = "load" /\ day \notin exists
    /\ Plan(IF wanted = <<>> THEN "endday" ELSE "session")

(* An exception of json.loads ends the process. *)
LoadRaises ==
    /\ pc = "load" /\ day \in broken /\ Ended
    /\ UNCHANGED <<config, disk, data, history, bounds>>

(* The session opens, or raises out of run. *)
Session ==
    /\ pc = "session" /\ pc' = "next"
    /\ left' = IF limit = 0 \/ limit > Len(queue) THEN Len(queue) ELSE limit
    /\ UNCHANGED <<config, command, day, queue, working, after, disk, data, history, bounds>>

SessionRaises ==
    /\ pc = "session" /\ Ended
    /\ faults < MaxFaults /\ faults' = faults + 1
    /\ UNCHANGED <<config, disk, data, history, plans>>

(* One turn of the loop: the first task is popped. *)
NextTask ==
    /\ pc = "next"
    /\ IF left = 0 \/ queue = <<>>
       THEN pc' = "endday" /\ UNCHANGED <<queue, left, task, settled, gaps>>
       ELSE /\ task' = Head(queue) /\ queue' = Tail(queue) /\ left' = left - 1
            /\ settled' = [settled EXCEPT ![day] = @ \ {Head(queue)}]
            /\ gaps' = [gaps EXCEPT ![day] = @ \ {Head(queue)}]
            /\ pc' = "task"
    /\ UNCHANGED <<config, command, day, layer, content, after, disk, data, planned, dropped,
                   cut, hit, bounds>>
-------------------------------------------------------------------------------
(* queue.save(), and then the next step of run. *)
SaveThen(next) == pc' = "save" /\ after' = next

(* Variant with a seeded bug: the failed task is left out of the queue. *)
RequeueNot ==
    /\ SaveThen("endday")
    /\ UNCHANGED <<queue, task>>

(* Variant with a seeded bug: the failed task goes back to the front. *)
RequeueFront ==
    /\ queue' = <<task>> \o queue /\ task' = NoTask
    /\ SaveThen("endday")

(* The task goes to the end of the queue and the loop ends. *)
Requeue ==
    /\ queue' = Append(queue, task) /\ task' = NoTask
    /\ SaveThen("endday")

(* stop_requested, which only backfill passes: before a task, in the loop   *)
(* over its contracts, and in run_range.  It is true when nothing has been  *)
(* reported for a while; reporting the stop makes it false again.           *)
StopRequested == cmd = "backfill" /\ faults < MaxFaults /\ faults' = faults + 1

StopBefore ==
    /\ pc = "task" /\ StopRequested /\ Requeue
    /\ UNCHANGED <<config, command, day, left, layer, content, disk, data, history, plans>>

StopRange ==
    /\ pc = "range" /\ day \in Days /\ StopRequested /\ Ended
    /\ UNCHANGED <<config, disk, data, history, plans>>

(* An exception before anything is written. *)
FetchFails ==
    /\ pc = "task" /\ Requeue
    /\ IF task \in Faulty \/ mode = "snapshot" THEN UNCHANGED faults
       ELSE faults < MaxFaults /\ faults' = faults + 1
    /\ UNCHANGED <<config, command, day, left, layer, content, disk, data, history, plans>>

(* The task is not put back. *)
TaskGone == /\ task' = NoTask /\ SaveThen("next")
            /\ UNCHANGED <<queue, layer, content, planned, settled, gaps, hit>>

(* No contracts, or no rows for any of them, be it that every request       *)
(* failed: those errors are logged contract by contract.                    *)
FetchNothing ==
    /\ pc = "task" /\ task \notin Faulty /\ TaskGone
    /\ dropped' = [dropped EXCEPT ![day] = @ \cup {task}]
    /\ UNCHANGED <<config, command, day, left, disk, data, cut, bounds>>

Rows(c) ==
    /\ pc' = "write" /\ layer' = 1 /\ content' = c
    /\ UNCHANGED <<queue, task, after, history>>

(* _fetch_historical_rows goes on after a contract whose requests failed. *)
FetchRows ==
    /\ pc = "task" /\ task \notin Faulty /\ mode = "historical"
    /\ \/ Rows("whole") /\ UNCHANGED faults
       \/ Rows("part") /\ faults < MaxFaults /\ faults' = faults + 1
    /\ UNCHANGED <<config, command, day, left, disk, data, plans>>

(* A stop in the loop over the contracts: run goes on with the rows so far. *)
StopWithRows ==
    /\ pc = "task" /\ task \notin Faulty /\ mode = "historical" /\ StopRequested
    /\ Rows("part")
    /\ UNCHANGED <<config, command, day, left, disk, data, plans>>

(* When there is no row yet, run takes it for a symbol without data: unlike *)
(* a stop before the task, this one does not put the task back, and the run *)
(* goes on with the next.                                                   *)
StopInHistory ==
    /\ pc = "task" /\ task \notin Faulty /\ mode = "historical" /\ StopRequested
    /\ TaskGone
    /\ cut' = [cut EXCEPT ![day] = @ \cup {task}]
    /\ UNCHANGED <<config, command, day, left, disk, data, dropped, plans>>

(* Variant with a seeded bug: success is counted before the adjusted view   *)
(* is written.                                                              *)
WriteTwoLayers ==
    /\ pc = "write"
    /\ data' = [data EXCEPT ![day][layer][task] = content]
    /\ IF layer < 2
       THEN layer' = layer + 1 /\ UNCHANGED <<pc, task, after, settled, gaps>>
       ELSE /\ settled' = [settled EXCEPT ![day] = @ \cup {task}]
            /\ gaps' = [gaps EXCEPT ![day] = IF content = "part" THEN @ \cup {task} ELSE @]
            /\ task' = NoTask /\ SaveThen("next") /\ UNCHANGED layer
    /\ UNCHANGED <<config, command, day, queue, left, content, disk, planned, dropped, cut,
                   hit, bounds>>

(* The partition of a layer is overwritten; after the last one the task is  *)
(* processed.                                                               *)
Write ==
    /\ pc = "write"
    /\ data' = [data EXCEPT ![day][layer][task] = content]
    /\ IF layer < 3
       THEN layer' = layer + 1 /\ UNCHANGED <<pc, task, after, settled, gaps>>
       ELSE /\ settled' = [settled EXCEPT ![day] = @ \cup {task}]
            /\ gaps' = [gaps EXCEPT ![day] = IF content = "part" THEN @ \cup {task} ELSE @]
            /\ task' = NoTask /\ SaveThen("next") /\ UNCHANGED layer
    /\ UNCHANGED <<config, command, day, queue, left, content, disk, planned, dropped, cut,
                   hit, bounds>>

(* The writer or the cleaner raises. *)
WriteFails ==
    /\ pc = "write" /\ Requeue
    /\ faults < MaxFaults /\ faults' = faults + 1
    /\ \E v \in {"torn", data[day][layer][task]} : data' = [data EXCEPT ![day][layer][task] = v]
    /\ UNCHANGED <<config, command, day, left, layer, content, disk, history, plans>>

(* PersistentQueue.save, to its end. *)
Save ==
    /\ pc = "save" /\ pc' = after
    /\ file' = [file EXCEPT ![day] = queue]
    /\ exists' = exists \cup {day} /\ broken' = broken \ {day}
    /\ UNCHANGED <<config, command, day, queue, left, working, after, data, history, bounds>>

(* run returns; run_range goes on with the next day. *)
EndDay ==
    /\ pc = "endday" /\ cmd = "backfill"
    /\ pc' = "range" /\ day' = day + 1 /\ queue' = <<>> /\ left' = 0
    /\ UNCHANGED <<config, command, working, after, disk, data, history, bounds>>

UpdateEnds ==
    /\ pc = "endday" /\ cmd = "update" /\ Ended
    /\ UNCHANGED <<config, disk, data, history, bounds>>

(* The process dies: a save leaves the first lines it was to write and      *)
(* perhaps half of the next, a write of a partition an unreadable file.     *)
Crash ==
    /\ pc # "down" /\ Ended
    /\ faults < MaxFaults /\ faults' = faults + 1
    /\ IF pc # "save" THEN UNCHANGED <<disk, hit>>
       ELSE \E n \in 0 .. Len(queue) :
              /\ file' = [file EXCEPT ![day] = SubSeq(queue, 1, n)]
              /\ exists' = exists \cup {day}
              /\ \/ broken' = broken \ {day}
                 \/ n < Len(queue) /\ broken' = broken \cup {day}
              /\ hit' = hit \cup {day}
    /\ IF pc # "write" THEN UNCHANGED data
       ELSE \E v \in {"torn", data[day][layer][task]} : data' = [data EXCEPT ![day][layer][task] = v]
    /\ UNCHANGED <<config, planned, settled, gaps, dropped, cut, plans>>

GoesOn == \/ PlanDay \/ Planned \/ Execute \/ PlanOnly \/ Range \/ RangeEnds
          \/ Load \/ LoadPlans \/ LoadRaises \/ Session \/ NextTask
          \/ FetchFails \/ FetchNothing \/ FetchRows \/ Write \/ Save \/ EndDay \/ UpdateEnds

Next == \/ \E w \in Wanted : StartBackfill(w) \/ \E d \in UpdateDays : StartUpdate(d, w)
        \/ GoesOn \/ SessionRaises
        \/ StopBefore \/ StopRange \/ StopWithRows \/ StopInHistory \/ WriteFails \/ Crash

Spec == Init /\ [][Next]_vars

(* A started command goes on, and update is started for every day again and *)
(* again.                                                                   *)
FairSpec == /\ Spec /\ WF_vars(GoesOn)
            /\ \A d \in UpdateDays : SF_vars(\E w \in Wanted : StartUpdate(d, w))
-------------------------------------------------------------------------------
(* A task of the last plan of a day is in the queue file until it has been  *)
(* processed or has come back with nothing: neither the failure of a task,  *)
(* a stop before it, a limit nor a crash between pop and save loses it.     *)
(* Two things do: a crash inside save, and a stop inside its history before *)
(* any row (backfill.py:336-341), which StopKeepsTask is about.             *)
NothingForgotten ==
    \A d \in Days : \A s \in planned[d] :
        \/ s \in Elements(file[d]) \cup settled[d] \cup dropped[d] \cup cut[d]
        \/ d \in hit \/ (pc = "save" /\ day = d)

(* The option --timeout is said to abort the execution, and the queue to    *)
(* serve resumable batches: a task a stop interrupts stays in the queue, to *)
(* be taken up again.  StopInHistory breaks this: TLC refutes the property. *)
StopKeepsTask ==
    \A d \in Days : cut[d] \subseteq Elements(file[d])

(* The layers of a processed symbol agree, and they are complete unless     *)
(* contracts were passed over, whatever earlier attempts left behind.       *)
SettledIsWhole ==
    \A d \in Days : \A s \in settled[d] : \A l \in Layers :
        data[d][l][s] = IF s \in gaps[d] THEN "part" ELSE "whole"

(* A symbol that always fails does not hold up the others: with update      *)
(* repeated, every other symbol gets its turn (the failed task goes to the  *)
(* end), unless a stop inside its history or a crash inside save lost it.   *)
OthersProceed ==
    mode = "historical" =>
        \A d \in UpdateDays : \A s \in Symbols \ Faulty :
            []<>(s \in settled[d] \cup dropped[d] \cup cut[d] \/ s \notin planned[d] \/ d \in hit)
===============================================================================
