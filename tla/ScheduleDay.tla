------------------------------ MODULE ScheduleDay ------------------------------
(***************************************************************************)
(* The command schedule (cli.py) and its ScheduleRunner (scheduler.py):    *)
(* plan the jobs of a day, hand them to APScheduler or simulate them, stay *)
(* up for one day, until all jobs are done (--exit-when-idle) or for good  *)
(* (--continuous); and the verdict of qa.py over what the jobs left.       *)
(*                                                                         *)
(* The threads are the command's own, the scheduler's, which submits due   *)
(* jobs and tells the listener so, and one of the pool per job, which runs *)
(* it and tells the listener how it ended.  Time is counted in ticks, a    *)
(* fixed number to the day; it passes whether or not the threads keep up   *)
(* (the machine may sleep).  The data of a day is that of one symbol.      *)
(***************************************************************************)
EXTENDS Integers, FiniteSets

CONSTANTS LastDay,      \* the days are 1 .. LastDay
          TradingDays, EarlyDays,
          Ticks,        \* ticks of a day
          Open, Close, EarlyClose, Step,   \* ticks of the session, slot distance
          UpdateTick, EnrichTick,          \* timezone.update_time, enrichment.run_time
          InitTick,     \* --daily-init-time
          Grace, InitGrace,                \* misfire graces
          CoveragePct, DelayedPct,         \* qa thresholds
          TotalSlots,   \* slots a day has for qa.py
          Launches,     \* live commands: mode, day and kinds of jobs not skipped
          MaxStarts, MaxFaults             \* bounds: commands; crashes and failing jobs

Kinds   == {"snapshot", "close", "enrichment"}
Days    == 1 .. LastDay
Horizon == (LastDay + 1) * Ticks - 1
Start0(d) == (d - 1) * Ticks
Today(t)  == 1 + t \div Ticks

ASSUME ScheduleAssumption ==
    /\ {LastDay, Ticks, Open, Close, EarlyClose, UpdateTick, EnrichTick, InitTick} \subseteq Nat
    /\ {Grace, InitGrace, CoveragePct, DelayedPct, MaxStarts, MaxFaults} \subseteq Nat
    /\ Launches \subseteq {"plain", "idle"} \X Days \X SUBSET Kinds
    /\ Step \in Nat \ {0} /\ TotalSlots \in Nat \ {0} /\ Ticks > 0
    /\ \A t \in {Close, EarlyClose, UpdateTick} :
          t + Grace < Ticks + EnrichTick   \* minutes of grace against half a day
    /\ EarlyDays \subseteq TradingDays /\ TradingDays \subseteq Days
-------------------------------------------------------------------------------
(* _slot_schedule: every Step from the open, and the close itself. *)
SlotTicks(d) ==
    LET end == IF d \in EarlyDays THEN EarlyClose ELSE Close
    IN  {t \in Open .. end : (t - Open) % Step = 0} \cup {end}

Job(d, k, t) == [day |-> d, kind |-> k, time |-> t]

(* plan_day: the slots, the close snapshot with the rollup, next day the enrichment. *)
Plan(d, include) ==
    IF d \notin TradingDays THEN {}
    ELSE {j \in {Job(d, "snapshot", Start0(d) + t) : t \in SlotTicks(d)}
                \cup {Job(d, "close", Start0(d) + UpdateTick),
                      Job(d, "enrichment", Start0(d + 1) + EnrichTick)} : j.kind \in include}

Jobs == UNION {Plan(d, Kinds) : d \in Days}
-------------------------------------------------------------------------------
VARIABLES now,
          pc,        \* the command: "down", "starting", "up" or "simulate"
          mode,      \* "plain", "idle" (--exit-when-idle) or "continuous"
          include,   \* kinds not skipped by an option
          store,     \* APScheduler's jobs that are not yet submitted
          stage,     \* job |-> where its run in the pool is
          told,      \* job |-> where SUBMITTED is on its way to the listener
          pending, running, errors,   \* shared with the listener, under job_state_lock
          lastInit, initing,          \* continuous: last_init_day, day of a running init
          cron,      \* the day daily-init fires next
          todo,      \* jobs the simulation has left
          slots, delayed,   \* day |-> slots that have rows, slots whose rows are delayed
          daily,     \* day |-> "none", "close" or "fallback": rollup_strategy
          oi,        \* day |-> the daily rows have their open interest
          verdict,   \* day |-> status in the metrics file, "FAIL" for no file
          outcome,   \* history: job |-> how it ended in this process
          planned,   \* history: jobs the process was to run
          code,      \* history: exit code of the last --exit-when-idle
          results,   \* history: what had become of its jobs
          twice,     \* history: jobs submitted twice by one process
          simulated, \* history: days that were simulated
          starts, faults

process == <<store, stage, told, pending, running, errors, lastInit, initing, cron, todo>>
data    == <<slots, delayed, daily, oi>>
history == <<outcome, planned, code, results, twice, simulated>>
bounds  == <<starts, faults>>
vars == <<now, pc, mode, include, process, data, verdict, history, bounds>>

Outcomes == {"none", "ok", "error", "missed"}
Stages   == {"out", "queued", "running", "ended", "telling"}

TypeOK ==
    /\ now \in 0 .. Horizon /\ pc \in {"down", "starting", "up", "simulate"}
    /\ mode \in {"plain", "idle", "continuous"} /\ include \subseteq Kinds
    /\ store \subseteq Jobs /\ todo \subseteq Jobs /\ planned \subseteq Jobs /\ twice \subseteq Jobs
    /\ stage \in [Jobs -> Stages] /\ told \in [Jobs -> {"no", "due", "checked"}]
    /\ pending \subseteq planned /\ running \subseteq planned /\ errors \in BOOLEAN
    /\ lastInit \in 0 .. LastDay + 1 /\ initing \in 0 .. LastDay + 1 /\ cron \in 0 .. LastDay + 2
    /\ \A d \in Days : /\ slots[d] \subseteq SlotTicks(d) /\ delayed[d] \subseteq slots[d]
                       /\ daily[d] \in {"none", "close", "fallback"} /\ oi[d] \in BOOLEAN
                       /\ verdict[d] \in {"PASS", "FAIL"}
    /\ outcome \in [Jobs -> Outcomes] /\ code \in {"none", "0", "1"}
    /\ results \subseteq Outcomes
    /\ simulated \subseteq Days /\ starts \in 0 .. MaxStarts /\ faults \in 0 .. MaxFaults

Init ==
    /\ now = 0 /\ pc = "down" /\ mode = "plain" /\ include = Kinds
    /\ store = {} /\ stage = [j \in Jobs |-> "out"] /\ told = [j \in Jobs |-> "no"]
    /\ pending = {} /\ running = {} /\ errors = FALSE
    /\ lastInit = 0 /\ initing = 0 /\ cron = 0 /\ todo = {}
    /\ slots = [d \in Days |-> {}] /\ delayed = slots
    /\ daily = [d \in Days |-> "none"] /\ oi = [d \in Days |-> FALSE]
    /\ verdict = [d \in Days |-> "FAIL"]
    /\ outcome = [j \in Jobs |-> "none"] /\ planned = {} /\ code = "none" /\ results = {} /\ twice = {}
    /\ simulated = {} /\ starts = 0 /\ faults = 0

(* Assumed: no capture or rollup takes until its day's enrichment is due. *)
Overnight(t) == \E j \in Jobs : /\ stage[j] = "running" /\ j.kind # "enrichment"
                                 /\ t >= Start0(j.day + 1) + EnrichTick

Tick == /\ now < Horizon /\ now' = now + 1
        /\ ~Overnight(now + 1)
        /\ UNCHANGED <<pc, mode, include, process, data, verdict, history, bounds>>

(* The process is gone, and its jobs, which only memory had, with it. *)
Over == /\ pc' = "down" /\ mode' = "plain" /\ include' = Kinds
        /\ store' = {} /\ stage' = [j \in Jobs |-> "out"] /\ told' = [j \in Jobs |-> "no"]
        /\ pending' = {} /\ running' = {} /\ errors' = FALSE
        /\ lastInit' = 0 /\ initing' = 0 /\ cron' = 0 /\ todo' = {}
        /\ outcome' = [j \in Jobs |-> "none"] /\ planned' = {}
-------------------------------------------------------------------------------
(* Variant with a seeded bug: every job in the store is removed first. *)
RescheduledAlone(d, jobs) == jobs

(* schedule_one_day after its checks.  A rescheduled day replaces its own jobs. *)
Rescheduled(d, jobs) == {j \in store : j.day # d} \cup jobs

(* Variant with a seeded bug: jobs skipped by an option are waited for. *)
StartLiveForAll(d, m, kinds) ==
    /\ pc = "down" /\ starts < MaxStarts /\ starts' = starts + 1
    /\ Plan(d, kinds) # {}
    /\ pc' = "up" /\ mode' = m /\ include' = kinds
    /\ store' = Rescheduled(d, Plan(d, kinds))
    /\ pending' = Plan(d, Kinds) /\ planned' = Plan(d, kinds)
    /\ UNCHANGED <<now, stage, told, running, errors, lastInit, initing, cron, todo, data,
                   verdict, outcome, code, results, twice, simulated, faults>>

(* --live for one day, in the main thread, before the scheduler starts: the *)
(* checks pass, or Exit ends the command, which then has changed nothing.   *)
StartLive(d, m, kinds) ==
    /\ pc = "down" /\ starts < MaxStarts /\ starts' = starts + 1
    /\ Plan(d, kinds) # {}
    /\ pc' = "up" /\ mode' = m /\ include' = kinds
    /\ store' = Rescheduled(d, Plan(d, kinds))
    /\ pending' = Plan(d, kinds) /\ planned' = Plan(d, kinds)
    /\ UNCHANGED <<now, stage, told, running, errors, lastInit, initing, cron, todo, data,
                   verdict, outcome, code, results, twice, simulated, faults>>

(* --continuous: init_today is called once before the scheduler starts, then daily. *)
StartContinuous ==
    /\ pc = "down" /\ starts < MaxStarts /\ starts' = starts + 1
    /\ pc' = "starting" /\ mode' = "continuous" /\ include' = Kinds
    /\ lastInit' = Today(now) /\ initing' = Today(now)
    /\ UNCHANGED <<now, store, stage, told, pending, running, errors, cron, todo, data, verdict,
                   history, faults>>

InitTime == Start0(cron) + InitTick

(* Variant with a seeded bug: init_today does not look at last_init_day. *)
InitDueAlways == TRUE

(* A day is initialised once. *)
InitDue == lastInit # Today(now)

(* daily-init fires, unless its time is longer ago than its grace. *)
DailyInit ==
    /\ pc = "up" /\ mode = "continuous" /\ initing = 0 /\ now >= InitTime
    /\ cron' = cron + 1
    /\ IF now - InitTime <= InitGrace /\ InitDue
       THEN lastInit' = Today(now) /\ initing' = Today(now)
       ELSE UNCHANGED <<lastInit, initing>>
    /\ UNCHANGED <<now, pc, mode, include, store, stage, told, pending, running, errors, todo,
                   data, verdict, history, bounds>>

(* scheduler.start() comes after the first init_today. *)
StartScheduler ==
    /\ pc' = "up"
    /\ cron' = IF pc = "up" THEN cron
               ELSE IF now % Ticks <= InitTick THEN Today(now) ELSE Today(now) + 1

(* The precheck and the plan of init_today, which may take their time. *)
InitDone ==
    /\ initing # 0 /\ initing' = 0 /\ StartScheduler
    /\ LET jobs == IF initing \in Days THEN Plan(initing, include) ELSE {}
       IN  /\ store' = IF jobs = {} THEN store ELSE Rescheduled(initing, jobs)
           /\ planned' = planned \cup jobs
    /\ UNCHANGED <<now, mode, include, stage, told, pending, running, errors, lastInit,
                   todo, data, verdict, outcome, code, results, twice, simulated, bounds>>

(* Exit or an exception: it is reported and the day is not tried again. *)
InitFails ==
    /\ initing # 0 /\ initing' = 0 /\ StartScheduler
    /\ faults < MaxFaults /\ faults' = faults + 1
    /\ UNCHANGED <<now, mode, include, store, stage, told, pending, running, errors, lastInit,
                   todo, data, verdict, history, starts>>
-------------------------------------------------------------------------------
(* The first of a set of jobs, or one of them where a tick has several. *)
First(S) == {j \in S : \A k \in S : j.time <= k.time}

(* The scheduler's thread: the first of the due jobs goes to the pool and out of the store. *)
Submit(j) ==
    /\ pc = "up" /\ j \in First(store) /\ now >= j.time
    /\ store' = store \ {j}
    /\ stage' = [stage EXCEPT ![j] = "queued"] /\ told' = [told EXCEPT ![j] = IF mode = "idle" THEN "due" ELSE "no"]
    /\ twice' = IF outcome[j] # "none" \/ stage[j] # "out" THEN twice \cup {j} ELSE twice
    /\ UNCHANGED <<now, pc, mode, include, pending, running, errors, lastInit, initing, cron, todo,
                   data, verdict, outcome, planned, code, results, simulated, bounds>>

(* _listener looks at pending_job_ids before it takes the lock ...*)
TellSubmitted(j) ==
    /\ pc = "up" /\ told[j] = "due" /\ \A k \in Jobs : told[k] # "checked"
    /\ told' = [told EXCEPT ![j] = IF j \in pending THEN "checked" ELSE "no"]
    /\ UNCHANGED <<now, pc, mode, include, store, stage, pending, running, errors, lastInit,
                   initing, cron, todo, data, verdict, history, bounds>>

(* ... and adds the job under the lock. *)
NoteSubmitted(j) ==
    /\ pc = "up" /\ told[j] = "checked"
    /\ told' = [told EXCEPT ![j] = "no"] /\ running' = running \cup {j}
    /\ UNCHANGED <<now, pc, mode, include, store, stage, pending, errors, lastInit, initing, cron,
                   todo, data, verdict, history, bounds>>

(* The listener is there for --exit-when-idle only. *)
Ended(j) == [stage EXCEPT ![j] = IF mode = "idle" THEN "ended" ELSE "out"]

(* misfire_grace_time: so late a job is not run. *)
TooLate(j) == now - j.time > Grace

(* A thread of the pool takes the job. *)
Begin(j) ==
    /\ pc = "up" /\ stage[j] = "queued"
    /\ IF TooLate(j)
       THEN /\ stage' = Ended(j)
            /\ outcome' = [outcome EXCEPT ![j] = "missed"]
       ELSE stage' = [stage EXCEPT ![j] = "running"] /\ UNCHANGED outcome
    /\ UNCHANGED <<now, pc, mode, include, store, told, pending, running, errors, lastInit, initing,
                   cron, todo, data, verdict, planned, code, results, twice, simulated, bounds>>

(* What a job does to the data of its day when it returns.  A job that      *)
(* returns may have got nothing: errors of single symbols are only logged.  *)
Effect(j, got, late) ==
    LET d == j.day
    IN  CASE j.kind = "snapshot" ->
               /\ slots' = IF got THEN [slots EXCEPT ![d] = @ \cup {j.time - Start0(d)}] ELSE slots
               /\ delayed' = IF got
                    THEN [delayed EXCEPT ![d] = IF late THEN @ \cup {j.time - Start0(d)}
                                                        ELSE @ \ {j.time - Start0(d)}]
                    ELSE delayed
               /\ UNCHANGED <<daily, oi>>
          [] j.kind = "close" ->
               /\ daily' = [daily EXCEPT ![d] = IF got THEN "close"
                                                ELSE IF slots[d] # {} THEN "fallback" ELSE @]
               /\ oi' = [oi EXCEPT ![d] = IF got \/ slots[d] # {} THEN FALSE ELSE @]
               /\ UNCHANGED <<slots, delayed>>
          [] j.kind = "enrichment" ->
               /\ oi' = [oi EXCEPT ![d] = @ \/ (got /\ daily[d] # "none")]
               /\ UNCHANGED <<slots, delayed, daily>>

Return(j, got, late) ==
    /\ j.kind # "snapshot" \/ ~got => ~late
    /\ pc = "up" /\ stage[j] = "running"
    /\ stage' = Ended(j) /\ outcome' = [outcome EXCEPT ![j] = "ok"]
    /\ Effect(j, got, late)
    /\ UNCHANGED <<now, pc, mode, include, store, told, pending, running, errors, lastInit, initing,
                   cron, todo, verdict, planned, code, results, twice, simulated, bounds>>

(* An exception: of the close snapshot, so that there is no rollup, or of any runner. *)
Fail(j) ==
    /\ pc = "up" /\ stage[j] = "running"
    /\ faults < MaxFaults /\ faults' = faults + 1
    /\ stage' = Ended(j) /\ outcome' = [outcome EXCEPT ![j] = "error"]
    /\ UNCHANGED <<now, pc, mode, include, store, told, pending, running, errors, lastInit, initing,
                   cron, todo, data, verdict, planned, code, results, twice, simulated, starts>>

TellEnded(j) ==
    /\ pc = "up" /\ stage[j] = "ended"
    /\ stage' = [stage EXCEPT ![j] = IF j \in pending THEN "telling" ELSE "out"]
    /\ UNCHANGED <<now, pc, mode, include, store, told, pending, running, errors, lastInit, initing,
                   cron, todo, data, verdict, history, bounds>>

(* Variant with a seeded bug: a missed job is not an error. *)
CountsErrorsOnly(j) == outcome[j] = "error"

CountsAsError(j) == outcome[j] \in {"error", "missed"}

NoteEnded(j) ==
    /\ pc = "up" /\ stage[j] = "telling"
    /\ stage' = [stage EXCEPT ![j] = "out"]
    /\ pending' = pending \ {j} /\ running' = running \ {j}
    /\ errors' = (errors \/ CountsAsError(j))
    /\ UNCHANGED <<now, pc, mode, include, store, told, lastInit, initing, cron, todo, data,
                   verdict, history, bounds>>

(* The loop of the main thread.  shutdown waits for what still runs. *)
Exit ==
    /\ pc = "up" /\ mode = "idle" /\ pending = {} /\ running = {}
    /\ Over
    /\ code' = (IF errors THEN "1" ELSE "0") /\ results' = {outcome[j] : j \in planned}
    /\ UNCHANGED <<now, data, verdict, twice, simulated, bounds>>
-------------------------------------------------------------------------------
(* --simulate: the jobs of the day at once, one after the other. *)
StartSimulation(d, kinds) ==
    /\ pc = "down" /\ starts < MaxStarts /\ starts' = starts + 1
    /\ Plan(d, kinds) # {}
    /\ pc' = "simulate" /\ todo' = Plan(d, kinds)
    /\ simulated' = simulated \cup {d}
    /\ UNCHANGED <<now, mode, include, store, stage, told, pending, running, errors, lastInit,
                   initing, cron, data, verdict, outcome, planned, code, results, twice, faults>>

Simulate(got, late) ==
    /\ pc = "simulate"
    /\ \E j \in First(todo) : /\ j.kind # "snapshot" \/ ~got => ~late
                             /\ Effect(j, got, late) /\ todo' = todo \ {j}
    /\ UNCHANGED <<now, pc, mode, include, store, stage, told, pending, running, errors, lastInit,
                   initing, cron, verdict, history, bounds>>

SimulateFails ==
    /\ pc = "simulate" /\ \E j \in First(todo) : todo' = todo \ {j}
    /\ faults < MaxFaults /\ faults' = faults + 1
    /\ UNCHANGED <<now, pc, mode, include, store, stage, told, pending, running, errors, lastInit,
                   initing, cron, data, verdict, history, starts>>

SimulationEnds ==
    /\ pc = "simulate" /\ todo = {} /\ Over
    /\ UNCHANGED <<now, data, verdict, code, results, twice, simulated, bounds>>

(* A death of the process, or Ctrl-C. *)
Crash ==
    /\ pc # "down" /\ faults < MaxFaults /\ faults' = faults + 1 /\ Over
    /\ UNCHANGED <<now, data, verdict, code, results, twice, simulated, starts>>
-------------------------------------------------------------------------------
(* Variant with a seeded bug: a share of no rows is the whole. *)
EnrichedOrNothing(d) == daily[d] = "none" \/ oi[d]

(* _metric_oi_enrichment, with the threshold between nothing and everything. *)
Enriched(d) == daily[d] # "none" /\ oi[d]

(* QAMetricsCalculator.evaluate: coverage, delayed rows, fallback rows, open interest. *)
Evaluate(d) ==
    IF /\ 100 * Cardinality(slots[d]) >= CoveragePct * TotalSlots
       /\ 100 * Cardinality(delayed[d]) <= DelayedPct * Cardinality(slots[d])
       /\ daily[d] # "fallback"
       /\ Enriched(d)
    THEN "PASS" ELSE "FAIL"

(* The command qa, at any time; the metrics file is overwritten. *)
Qa(d) ==
    /\ verdict' = [verdict EXCEPT ![d] = Evaluate(d)] /\ verdict' # verdict
    /\ UNCHANGED <<now, pc, mode, include, process, data, history, bounds>>
-------------------------------------------------------------------------------
Listener == \E j \in Jobs : TellSubmitted(j) \/ NoteSubmitted(j) \/ TellEnded(j) \/ NoteEnded(j)
Threads ==
    \/ DailyInit \/ InitDone \/ InitFails
    \/ \E j \in Jobs : Submit(j) \/ Begin(j) \/ Fail(j)
    \/ \E j \in Jobs, got, late \in BOOLEAN : Return(j, got, late)
    \/ Listener \/ Exit

Next ==
    \/ Tick \/ Threads \/ Crash
    \/ \E l \in Launches : StartLive(l[2], l[1], l[3]) \/ StartSimulation(l[2], l[3])
    \/ StartContinuous
    \/ (\E got, late \in BOOLEAN : Simulate(got, late)) \/ SimulateFails \/ SimulationEnds
    \/ \E d \in Days : Qa(d)

Spec == Init /\ [][Next]_vars

(* Time passes and the threads are scheduled; nobody has to start a command. *)
FairSpec == Spec /\ WF_vars(Tick) /\ WF_vars(Threads)
-------------------------------------------------------------------------------
(* A process submits no job twice, at whatever time of day it is started and *)
(* daily-init is set to: no slot is captured again by a second plan.         *)
NoJobTwice == twice = {}

(* Planning a day takes no other day's job away: the enrichment of the day   *)
(* before is still due when the next day is initialised.                     *)
ScheduledJobsStay ==
    [][pc = "up" /\ pc' = "up" => \A j \in store \ store' : stage'[j] = "queued"]_vars

(* --exit-when-idle comes back with 0 only if every job of the day ran       *)
(* without an exception, and with 1 only if one did not; in either case no   *)
(* job is left, whatever the order in which the listener hears of them.      *)
ExitTellsTheTruth ==
    /\ code = "0" => results \subseteq {"ok"}
    /\ code = "1" => "none" \notin results /\ results # {"ok"}

(* A PASS in the metrics file is final: no job that still comes changes what *)
(* qa would say of the day.  A simulated day may be captured again.          *)
VerdictStands ==
    \A d \in Days \ simulated : verdict[d] = "PASS" => Evaluate(d) = "PASS"

(* Help text of --exit-when-idle: the command exits once all scheduled jobs  *)
(* have finished.                                                            *)
ExitsWhenIdle ==
    (pc = "up" /\ mode = "idle" /\ \A j \in planned : outcome[j] # "none") ~> pc = "down"
================================================================================
