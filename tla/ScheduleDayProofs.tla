--------------------------- MODULE ScheduleDayProofs ---------------------------
(***************************************************************************)
(* The theorems of ScheduleDay, for any calendar, any times of the day,    *)
(* any commands and any number of starts and faults: a process submits a   *)
(* job once and keeps those of other days, the exit code tells how the     *)
(* jobs ended, and a PASS of qa stays one.                                 *)
(***************************************************************************)
EXTENDS ScheduleDay, TLAPS

ControlType ==
    /\ now \in 0 .. Horizon /\ pc \in {"down", "starting", "up", "simulate"}
    /\ mode \in {"plain", "idle", "continuous"} /\ include \subseteq Kinds
    /\ errors \in BOOLEAN
    /\ lastInit \in 0 .. LastDay + 1 /\ initing \in 0 .. LastDay + 1 /\ cron \in 0 .. LastDay + 2
    /\ code \in {"none", "0", "1"} /\ results \subseteq Outcomes
    /\ simulated \subseteq Days /\ starts \in 0 .. MaxStarts /\ faults \in 0 .. MaxFaults

JobsType ==
    /\ store \subseteq Jobs /\ todo \subseteq Jobs /\ planned \subseteq Jobs /\ twice \subseteq Jobs
    /\ stage \in [Jobs -> Stages] /\ told \in [Jobs -> {"no", "due", "checked"}]
    /\ outcome \in [Jobs -> Outcomes]
    /\ pending \subseteq planned /\ running \subseteq planned

DataType ==
    /\ slots \in [Days -> SUBSET Int] /\ delayed \in [Days -> SUBSET Int]
    /\ daily \in [Days -> {"none", "close", "fallback"}] /\ oi \in [Days -> BOOLEAN]
    /\ verdict \in [Days -> {"PASS", "FAIL"}]
    /\ \A d \in Days : slots[d] \subseteq SlotTicks(d) /\ delayed[d] \subseteq slots[d]

Typed == ControlType /\ JobsType /\ DataType

(* What a process knows of its jobs: those it has planned.  A job waits in *)
(* the store untouched, and whatever has happened to a job, it was planned *)
(* under the options of the process.                                       *)
Touched(j) == stage[j] # "out" \/ outcome[j] # "none" \/ told[j] # "no"
Plans ==
    /\ pc \in {"down", "starting", "simulate"} => planned = {}
    /\ store \subseteq planned
    /\ \A j \in Jobs : Touched(j) => j \in planned
    /\ \A j \in store : stage[j] = "out" /\ outcome[j] = "none"
    /\ \A j \in planned : j \in Plan(j.day, include)

(* The days of a continuous command are initialised in their order, so that *)
(* a day that is being initialised has no job yet.                          *)
DaysInOrder ==
    /\ initing # 0 => /\ mode = "continuous" /\ pc \in {"starting", "up"} /\ initing = lastInit
                      /\ \A j \in planned : j.day < initing
    /\ mode = "continuous" => lastInit <= Today(now) /\ \A j \in planned : j.day <= lastInit
    /\ pc = "down" => mode = "plain"

(* The bookkeeping of the listener: a job that is no longer pending has     *)
(* ended, and errors says whether one of those ended badly.                 *)
Heard ==
    /\ \A j \in Jobs : /\ stage[j] \in {"queued", "running"} => outcome[j] = "none"
                       /\ stage[j] \in {"ended", "telling"} => outcome[j] # "none"
    /\ mode = "idle" => /\ \A j \in planned \ pending : outcome[j] # "none"
                        /\ errors <=> \E j \in planned \ pending : CountsAsError(j)
    /\ pc = "down" => ~errors

(* When the open interest of a day comes, its captures and its rollup are   *)
(* over: none runs at that time, and none begins so late.                   *)
Morning(d) == Start0(d + 1) + EnrichTick
Watched ==
    /\ \A j \in Jobs : stage[j] \in {"queued", "running"} => now >= j.time
    /\ \A j \in Jobs : stage[j] = "running" /\ j.kind # "enrichment" => now < Morning(j.day)
    /\ \A d \in Days \ simulated : oi[d] => now >= Morning(d)
    /\ \A j \in todo : j.day \in simulated

IInv == /\ Typed /\ Plans /\ DaysInOrder /\ Heard /\ Watched
        /\ NoJobTwice /\ ExitTellsTheTruth /\ VerdictStands
-------------------------------------------------------------------------------
(* The clock. *)
LEMMA Divided ==
  ASSUME NEW t \in Nat
  PROVE  /\ t \div Ticks \in Nat
         /\ (t \div Ticks) * Ticks <= t /\ t < (t \div Ticks) * Ticks + Ticks
  BY ScheduleAssumption

LEMMA Times ==
  ASSUME NEW a \in Int, NEW b \in Int
  PROVE  /\ a * Ticks \in Int
         /\ a <= b => a * Ticks <= b * Ticks
         /\ (a + 1) * Ticks = a * Ticks + Ticks
  BY ScheduleAssumption

LEMMA TodayType ==
  ASSUME NEW t \in 0 .. Horizon
  PROVE  Today(t) \in 1 .. LastDay + 1
<1>1. PICK L \in Nat, T \in Nat \ {0} : L = LastDay /\ T = Ticks
  BY ScheduleAssumption
<1>2. PICK q \in Nat : q = t \div Ticks
  BY <1>1, Divided DEF Horizon
<1>3. PICK a \in Int, b \in Int : a = q * T /\ b = (L + 1) * T
  OBVIOUS
<1>4. a <= t /\ t < b
  BY <1>1, <1>2, <1>3, Divided DEF Horizon
<1>5. q <= L
  <2>1. ASSUME L + 1 <= q PROVE FALSE
    <3>1. b <= a
      BY <1>1, <1>3, <2>1, Times
    <3>2. QED BY <1>4, <3>1 DEF Horizon
  <2>2. QED BY <2>1
<1>6. Today(t) = 1 + q
  BY <1>2 DEF Today
<1>7. QED BY <1>1, <1>5, <1>6

LEMMA TodayGrows ==
  ASSUME NEW t \in Nat
  PROVE  Today(t) <= Today(t + 1)
<1>1. PICK T \in Nat \ {0} : T = Ticks
  BY ScheduleAssumption
<1>2. PICK q \in Nat, r \in Nat : q = t \div Ticks /\ r = (t + 1) \div Ticks
  BY Divided
<1>3. PICK a \in Int, b \in Int : a = q * T /\ b = r * T
  OBVIOUS
<1>4. a <= t /\ t + 1 < b + T
  BY <1>1, <1>2, <1>3, Divided
<1>5. q <= r
  <2>1. ASSUME r + 1 <= q PROVE FALSE
    <3>1. (r + 1) * T = b + T /\ (r + 1) * T <= a
      BY <1>1, <1>3, <2>1, Times
    <3>2. QED BY <1>4, <3>1
  <2>2. QED BY <2>1
<1>6. QED BY <1>2, <1>5 DEF Today

LEMMA StartType ==
  ASSUME NEW d \in Days
  PROVE  /\ Start0(d) \in Nat /\ Start0(d + 1) = Start0(d) + Ticks
         /\ Start0(d + 1) \in Nat /\ Morning(d) \in Nat
<1>1. PICK e \in Nat, T \in Nat : e = d - 1 /\ d = e + 1 /\ T = Ticks
  <2>1. d \in Int /\ 1 <= d
    BY ScheduleAssumption DEF Days
  <2>2. d - 1 \in Nat /\ d = (d - 1) + 1 /\ Ticks \in Nat
    BY <2>1, ScheduleAssumption
  <2>3. QED BY <2>2
<1>2. e * T \in Nat /\ (e + 1) * T = e * T + T
  BY <1>1, Times
<1>3. Start0(d) = e * T /\ Start0(d + 1) = (e + 1) * T
  <2>1. d - 1 = e /\ (d + 1) - 1 = e + 1
    BY <1>1
  <2>2. QED BY <1>1, <2>1 DEF Start0
<1>4. QED BY <1>1, <1>2, <1>3, ScheduleAssumption DEF Morning

(* daily-init has fired for the days up to today. *)
LEMMA CronBound ==
  ASSUME NEW t \in 0 .. Horizon, NEW c \in 0 .. LastDay + 2, t >= Start0(c) + InitTick
  PROVE  c + 1 \in 0 .. LastDay + 2
<1>1. PICK L \in Nat, T \in Nat \ {0}, i \in Nat : L = LastDay /\ T = Ticks /\ i = InitTick
  BY ScheduleAssumption
<1>2. PICK e \in Int : e = c - 1
  BY <1>1
<1>3. PICK a \in Int, b \in Int : a = e * T /\ b = (L + 1) * T
  OBVIOUS
<1>4. a + i <= t /\ t < b
  BY <1>1, <1>2, <1>3 DEF Start0, Horizon
<1>5. e <= L
  <2>1. ASSUME L + 1 <= e PROVE FALSE
    <3>1. b <= a
      BY <1>1, <1>3, <2>1, Times
    <3>2. QED BY <1>4, <3>1, <1>1 DEF Horizon
  <2>2. QED BY <2>1
<1>6. QED BY <1>1, <1>2, <1>5

-------------------------------------------------------------------------------
(* The jobs of a plan. *)
LEMMA SlotTimes ==
  ASSUME NEW d, NEW t \in SlotTicks(d)
  PROVE  t \in Nat /\ (t <= Close \/ t <= EarlyClose)
  BY ScheduleAssumption DEF SlotTicks

LEMMA PlanParts ==
  ASSUME NEW d, NEW kinds \in SUBSET Kinds, NEW j \in Plan(d, kinds)
  PROVE  /\ d \in Days /\ j.day = d /\ j.kind \in kinds /\ j.time \in Nat
         /\ j.kind = "snapshot" => \E t \in SlotTicks(d) : j.time = Start0(d) + t
         /\ j.kind = "close" => j.time = Start0(d) + UpdateTick
         /\ j.kind = "enrichment" => j.time = Morning(d)
         /\ j \in Plan(d, Kinds)
<1>1. d \in Days /\ d \in TradingDays
  BY ScheduleAssumption DEF Plan
<1>2. /\ j.kind \in kinds
      /\ j \in {Job(d, "snapshot", Start0(d) + t) : t \in SlotTicks(d)}
               \cup {Job(d, "close", Start0(d) + UpdateTick),
                     Job(d, "enrichment", Start0(d + 1) + EnrichTick)}
  BY <1>1 DEF Plan
<1>3. Start0(d) \in Nat /\ Start0(d + 1) \in Nat /\ UpdateTick \in Nat /\ EnrichTick \in Nat
  BY <1>1, StartType, ScheduleAssumption
<1>4. j \in Plan(d, Kinds)
  BY <1>1, <1>2 DEF Plan
<1>5. CASE \E t \in SlotTicks(d) : j = Job(d, "snapshot", Start0(d) + t)
  <2>1. PICK t \in SlotTicks(d) : j = Job(d, "snapshot", Start0(d) + t)
    BY <1>5
  <2>2. j.day = d /\ j.kind = "snapshot" /\ j.time = Start0(d) + t
    BY <2>1 DEF Job
  <2>3. t \in Nat
    BY SlotTimes
  <2>4. QED BY <1>1, <1>2, <1>3, <1>4, <2>2, <2>3
<1>6. CASE j = Job(d, "close", Start0(d) + UpdateTick)
  BY <1>1, <1>2, <1>3, <1>4, <1>6 DEF Job
<1>7. CASE j = Job(d, "enrichment", Start0(d + 1) + EnrichTick)
  BY <1>1, <1>2, <1>3, <1>4, <1>7 DEF Job, Morning
<1>8. QED BY <1>2, <1>5, <1>6, <1>7

LEMMA PlannedJobs ==
  ASSUME NEW d, NEW kinds \in SUBSET Kinds
  PROVE  Plan(d, kinds) \subseteq Jobs
  BY PlanParts DEF Jobs

LEMMA JobParts ==
  ASSUME NEW j \in Jobs
  PROVE  /\ j.day \in Days /\ j.kind \in Kinds /\ j.time \in Nat
         /\ j.kind = "snapshot" => j.time - Start0(j.day) \in SlotTicks(j.day)
         /\ j.kind = "enrichment" => j.time = Morning(j.day)
         /\ j.kind # "enrichment" => j.time + Grace < Morning(j.day)
<1>1. PICK d \in Days : j \in Plan(d, Kinds)
  BY DEF Jobs
<1>2. /\ j.day = d /\ j.kind \in Kinds /\ j.time \in Nat
      /\ j.kind = "snapshot" => \E t \in SlotTicks(d) : j.time = Start0(d) + t
      /\ j.kind = "close" => j.time = Start0(d) + UpdateTick
      /\ j.kind = "enrichment" => j.time = Morning(d)
  BY <1>1, PlanParts
<1>3. Start0(d) \in Nat /\ Morning(d) = Start0(d) + Ticks + EnrichTick
  BY StartType, ScheduleAssumption DEF Morning
<1>4. j.kind = "snapshot" => j.time - Start0(j.day) \in SlotTicks(j.day)
  <2>1. ASSUME NEW t \in SlotTicks(d), j.time = Start0(d) + t PROVE j.time - Start0(d) = t
    BY <1>3, <2>1, SlotTimes
  <2>2. QED BY <1>2, <2>1
<1>5. j.kind # "enrichment" => \E t \in Nat : /\ j.time = Start0(d) + t
                                              /\ t <= Close \/ t <= EarlyClose \/ t <= UpdateTick
  BY <1>2, SlotTimes, ScheduleAssumption DEF Kinds
<1>6. ASSUME j.kind # "enrichment" PROVE j.time + Grace < Morning(j.day)
  <2>1. PICK t \in Nat : /\ j.time = Start0(d) + t
                         /\ t <= Close \/ t <= EarlyClose \/ t <= UpdateTick
    BY <1>5, <1>6
  <2>2. PICK s \in Nat, g \in Nat, n \in Nat, e \in Nat :
             s = Start0(d) /\ g = Grace /\ n = Ticks /\ e = EnrichTick
    <3>1. Grace \in Nat /\ Ticks \in Nat /\ EnrichTick \in Nat
      BY ScheduleAssumption
    <3>2. QED BY <1>3, <3>1
  <2>3. t + g < n + e
    BY <2>1, <2>2, ScheduleAssumption
  <2>4. QED BY <1>2, <1>3, <2>1, <2>2, <2>3
<1>7. QED BY <1>2, <1>4, <1>6

LEMMA LaunchParts ==
  ASSUME NEW l \in Launches
  PROVE  l[1] \in {"plain", "idle"} /\ l[2] \in Days /\ l[3] \in SUBSET Kinds
  BY ScheduleAssumption

-------------------------------------------------------------------------------
(* Types. *)
LEMMA InitTyped == Init => Typed
<1> SUFFICES ASSUME Init PROVE Typed
  OBVIOUS
<1>1. 0 \in 0 .. Horizon /\ LastDay \in Nat /\ MaxStarts \in Nat /\ MaxFaults \in Nat
  <2>1. LastDay + 1 \in Nat /\ 0 + 1 <= LastDay + 1 /\ Ticks \in Nat /\ Ticks > 0
        /\ MaxStarts \in Nat /\ MaxFaults \in Nat /\ LastDay \in Nat
    BY ScheduleAssumption
  <2>2. 1 * Ticks <= (LastDay + 1) * Ticks /\ (LastDay + 1) * Ticks \in Int
    BY <2>1, Times
  <2>3. QED BY <2>1, <2>2 DEF Horizon
<1>2. ControlType
  <2>1. 0 \in 0 .. LastDay + 1 /\ 0 \in 0 .. LastDay + 2 /\ 0 \in 0 .. MaxStarts /\ 0 \in 0 .. MaxFaults
    BY <1>1
  <2>2. QED BY <1>1, <2>1, Zenon DEF Init, ControlType
<1>3. JobsType
  BY DEF Init, JobsType, Stages, Outcomes
<1>4. DataType
  BY DEF Init, DataType
<1>5. QED BY <1>2, <1>3, <1>4 DEF Typed

(* What a job leaves of its day. *)
LEMMA EffectTyped ==
  ASSUME DataType, NEW j \in Jobs, NEW got \in BOOLEAN, NEW late \in BOOLEAN,
         Effect(j, got, late), UNCHANGED verdict
  PROVE  DataType'
<1>1. PICK d \in Days : d = j.day
  BY JobParts
<1>2. PICK x : x = j.time - Start0(d)
  OBVIOUS
<1>3. SlotTicks(d) \subseteq Int
  BY SlotTimes
<1>4. CASE j.kind = "snapshot"
  <2>1. x \in SlotTicks(d) /\ x \in Int
    BY <1>1, <1>2, <1>3, <1>4, JobParts
  <2>2. /\ slots' = slots \/ slots' = [slots EXCEPT ![d] = slots[d] \cup {x}]
        /\ UNCHANGED <<daily, oi, verdict>>
    BY <1>1, <1>2, <1>4 DEF Effect
  <2>3. \/ UNCHANGED <<slots, delayed>>
        \/ /\ slots' = [slots EXCEPT ![d] = slots[d] \cup {x}]
           /\ \/ delayed' = [delayed EXCEPT ![d] = delayed[d] \cup {x}]
              \/ delayed' = [delayed EXCEPT ![d] = delayed[d] \ {x}]
    BY <1>1, <1>2, <1>4 DEF Effect, DataType
  <2>4. QED BY <2>1, <2>2, <2>3 DEF DataType
<1>5. CASE j.kind = "close"
  <2>1. /\ UNCHANGED <<slots, delayed, verdict>>
        /\ \E v \in {"close", "fallback", daily[d]} : daily' = [daily EXCEPT ![d] = v]
        /\ \E o \in {FALSE, oi[d]} : oi' = [oi EXCEPT ![d] = o]
    BY <1>1, <1>5 DEF Effect
  <2>2. QED BY <2>1 DEF DataType
<1>6. CASE j.kind = "enrichment"
  <2>1. UNCHANGED <<slots, delayed, daily, verdict>>
    BY <1>6 DEF Effect
  <2>2. oi' \in [Days -> BOOLEAN]
    BY <1>1, <1>6 DEF Effect, DataType
  <2>3. QED BY <2>1, <2>2 DEF DataType
<1>7. QED BY <1>4, <1>5, <1>6, JobParts DEF Kinds

LEMMA ControlStep == ASSUME Typed, Next PROVE ControlType'
<1> USE DEF process, data, history, bounds
<1>0. /\ LastDay \in Nat /\ MaxStarts \in Nat /\ MaxFaults \in Nat
      /\ 0 \in 0 .. LastDay + 1 /\ 0 \in 0 .. LastDay + 2
  BY ScheduleAssumption
<1>1. ControlType /\ JobsType /\ Today(now) \in 1 .. LastDay + 1
  BY TodayType DEF Typed, ControlType
<1>2. CASE Tick
  <2>1. Horizon \in Int
    <3>1. LastDay + 1 \in Int
      BY <1>0
    <3>2. QED BY <3>1, Times, ScheduleAssumption DEF Horizon
  <2>2. now' \in 0 .. Horizon
    BY <1>1, <1>2, <2>1 DEF Tick, ControlType
  <2>3. QED BY <1>1, <1>2, <2>2 DEF Tick, ControlType
<1>3. CASE DailyInit
  <2>1. cron' \in 0 .. LastDay + 2
    BY <1>1, <1>3, CronBound DEF DailyInit, InitTime, ControlType
  <2>2. lastInit' \in {lastInit, Today(now)} /\ initing' \in {initing, Today(now)}
    BY <1>3 DEF DailyInit
  <2>3. QED BY <1>0, <1>1, <1>3, <2>1, <2>2 DEF DailyInit, ControlType
<1>4. CASE InitDone \/ InitFails
  <2>1. StartScheduler /\ initing' = 0
    BY <1>4 DEF InitDone, InitFails
  <2>2. cron' \in 0 .. LastDay + 2
    <3>1. PICK D \in Nat, L \in Nat : D = Today(now) /\ L = LastDay /\ D <= L + 1
      BY <1>0, <1>1
    <3>2. cron' \in {cron, D, D + 1}
      BY <2>1, <3>1 DEF StartScheduler
    <3>3. D \in 0 .. L + 2 /\ D + 1 \in 0 .. L + 2
      BY <3>1
    <3>4. QED BY <1>1, <3>1, <3>2, <3>3 DEF ControlType
  <2>3. faults' \in 0 .. MaxFaults
    BY <1>0, <1>1, <1>4 DEF InitDone, InitFails, ControlType
  <2>4. UNCHANGED <<now, mode, include, errors, lastInit, code, results, simulated, starts>>
    BY <1>4 DEF InitDone, InitFails
  <2>5. QED BY <1>0, <1>1, <2>1, <2>2, <2>3, <2>4 DEF ControlType, StartScheduler
<1>5. ASSUME NEW j \in Jobs,
             Submit(j) \/ TellSubmitted(j) \/ NoteSubmitted(j) \/ Begin(j) \/ TellEnded(j) \/ NoteEnded(j)
      PROVE  ControlType'
  <2>1. /\ UNCHANGED <<now, pc, mode, include, lastInit, initing, cron, code, results, simulated, starts, faults>>
        /\ errors' = errors \/ errors' = (errors \/ CountsAsError(j))
    BY <1>5 DEF Submit, TellSubmitted, NoteSubmitted, Begin, TellEnded, NoteEnded
  <2>2. errors' \in BOOLEAN
    BY <1>1, <2>1 DEF ControlType, CountsAsError
  <2>3. QED BY <1>1, <2>1, <2>2 DEF ControlType
<1>6. ASSUME NEW j \in Jobs, Fail(j) PROVE ControlType'
  <2>1. faults' \in 0 .. MaxFaults
    BY <1>0, <1>1, <1>6 DEF Fail, ControlType
  <2>2. QED BY <1>1, <1>6, <2>1 DEF Fail, ControlType
<1>7. ASSUME NEW j \in Jobs, NEW got \in BOOLEAN, NEW late \in BOOLEAN, Return(j, got, late)
      PROVE  ControlType'
  BY <1>1, <1>7 DEF Return, ControlType
<1>8. CASE Exit
  <2>1. code' \in {"0", "1"} /\ results' \subseteq Outcomes
    BY <1>1, <1>8 DEF Exit, JobsType
  <2>2. QED BY <1>0, <1>1, <1>8, <2>1 DEF Exit, Over, ControlType
<1>9. CASE Crash \/ SimulationEnds
  <2>1. faults' \in 0 .. MaxFaults
    BY <1>0, <1>1, <1>9 DEF Crash, SimulationEnds, ControlType
  <2>2. QED BY <1>0, <1>1, <1>9, <2>1 DEF Crash, SimulationEnds, Over, ControlType
<1>10. ASSUME NEW l \in Launches, StartLive(l[2], l[1], l[3]) \/ StartSimulation(l[2], l[3])
       PROVE  ControlType'
  <2>1. starts' \in 0 .. MaxStarts
    BY <1>0, <1>1, <1>10 DEF StartLive, StartSimulation, ControlType
  <2>2. /\ UNCHANGED <<now, errors, lastInit, initing, cron, code, results, faults>>
        /\ mode' \in {mode, l[1]} /\ include' \in {include, l[3]}
        /\ simulated' \in {simulated, simulated \cup {l[2]}} /\ pc' \in {"up", "simulate"}
    BY <1>10 DEF StartLive, StartSimulation
  <2>3. QED BY <1>1, <2>1, <2>2, LaunchParts DEF ControlType
<1>11. CASE StartContinuous
  <2>1. starts' \in 0 .. MaxStarts
    BY <1>0, <1>1, <1>11 DEF StartContinuous, ControlType
  <2>2. lastInit' \in 0 .. LastDay + 1 /\ initing' \in 0 .. LastDay + 1
    BY <1>0, <1>1, <1>11 DEF StartContinuous
  <2>3. QED BY <1>1, <1>11, <2>1, <2>2 DEF StartContinuous, ControlType
<1>12. ASSUME NEW got \in BOOLEAN, NEW late \in BOOLEAN, Simulate(got, late) PROVE ControlType'
  BY <1>1, <1>12 DEF Simulate, ControlType
<1>13. CASE SimulateFails
  <2>1. faults' \in 0 .. MaxFaults
    BY <1>0, <1>1, <1>13 DEF SimulateFails, ControlType
  <2>2. QED BY <1>1, <1>13, <2>1 DEF SimulateFails, ControlType
<1>14. ASSUME NEW d \in Days, Qa(d) PROVE ControlType'
  BY <1>1, <1>14 DEF Qa, ControlType
<1>15. QED
  BY <1>2, <1>3, <1>4, <1>5, <1>6, <1>7, <1>8, <1>9, <1>10, <1>11, <1>12, <1>13, <1>14
  DEF Next, Threads, Listener

LEMMA JobsStep == ASSUME Typed, Plans, Next PROVE JobsType'
<1> USE DEF process, data, history, bounds
<1>1. JobsType /\ include \in SUBSET Kinds
  BY DEF Typed, ControlType
<1>2. CASE Tick \/ DailyInit \/ InitFails \/ StartContinuous \/ \E d \in Days : Qa(d)
  BY <1>1, <1>2 DEF Tick, DailyInit, InitFails, StartContinuous, Qa, JobsType
<1>3. CASE InitDone
  <2>1. PICK jobs \in SUBSET Jobs :
           /\ store' \subseteq store \cup jobs /\ planned' = planned \cup jobs
           /\ UNCHANGED <<stage, told, pending, running, todo, outcome, twice>>
    <3>1. PICK jobs : jobs = IF initing \in Days THEN Plan(initing, include) ELSE {}
      OBVIOUS
    <3>2. jobs \subseteq Jobs
      BY <1>1, <3>1, PlannedJobs
    <3>3. /\ store' \subseteq store \cup jobs /\ planned' = planned \cup jobs
          /\ UNCHANGED <<stage, told, pending, running, todo, outcome, twice>>
      BY <1>3, <3>1 DEF InitDone, Rescheduled
    <3>4. QED BY <3>2, <3>3
  <2>2. QED BY <1>1, <2>1 DEF JobsType
<1>4. ASSUME NEW j \in Jobs, Submit(j) PROVE JobsType'
  <2>1. /\ j \in store /\ store' \subseteq store /\ twice' \subseteq twice \cup {j}
        /\ stage' = [stage EXCEPT ![j] = "queued"]
        /\ \E s \in {"due", "no"} : told' = [told EXCEPT ![j] = s]
        /\ UNCHANGED <<todo, planned, pending, running, outcome>>
    BY <1>4 DEF Submit, First
  <2>2. j \in planned /\ told' \in [Jobs -> {"no", "due", "checked"}]
    BY <1>1, <2>1 DEF JobsType, Plans
  <2>3. QED BY <1>1, <2>1, <2>2 DEF JobsType, Stages
<1>5. ASSUME NEW j \in Jobs, TellSubmitted(j) \/ TellEnded(j) PROVE JobsType'
  BY <1>1, <1>5 DEF TellSubmitted, TellEnded, JobsType, Stages
<1>6. ASSUME NEW j \in Jobs, NoteSubmitted(j) \/ NoteEnded(j) PROVE JobsType'
  <2>1. j \in planned
    BY <1>6 DEF NoteSubmitted, NoteEnded, Plans, Touched
  <2>2. QED BY <1>1, <1>6, <2>1 DEF NoteSubmitted, NoteEnded, JobsType, Stages
<1>7. ASSUME NEW j \in Jobs,
             Begin(j) \/ Fail(j) \/ \E got, late \in BOOLEAN : Return(j, got, late)
      PROVE  JobsType'
  <2>1. /\ \E s \in {"running", "ended", "out"} : stage' = [stage EXCEPT ![j] = s]
        /\ \E o \in {"missed", "ok", "error", outcome[j]} : outcome' = [outcome EXCEPT ![j] = o]
        /\ UNCHANGED <<store, told, pending, running, todo, planned, twice>>
    <3>1. CASE Begin(j)
      BY <1>1, <3>1 DEF Begin, Ended, JobsType
    <3>2. CASE Fail(j) \/ \E got, late \in BOOLEAN : Return(j, got, late)
      BY <3>2 DEF Fail, Return, Ended
    <3>3. QED BY <1>7, <3>1, <3>2
  <2>2. outcome[j] \in Outcomes
    BY <1>1 DEF JobsType
  <2>3. QED BY <1>1, <2>1, <2>2 DEF JobsType, Stages, Outcomes
<1>8. CASE Exit \/ Crash \/ SimulationEnds
  <2>1. Over /\ UNCHANGED twice
    BY <1>8 DEF Exit, Crash, SimulationEnds
  <2>2. QED BY <1>1, <2>1 DEF Over, JobsType, Stages, Outcomes
<1>9. ASSUME NEW l \in Launches, StartLive(l[2], l[1], l[3]) PROVE JobsType'
  <2>1. PICK jobs \in SUBSET Jobs : jobs = Plan(l[2], l[3])
    BY PlannedJobs, LaunchParts
  <2>2. /\ store' \subseteq store \cup jobs /\ pending' = jobs /\ planned' = jobs
        /\ planned = {} /\ UNCHANGED <<stage, told, running, todo, outcome, twice>>
    BY <1>9, <2>1 DEF StartLive, Rescheduled, Plans
  <2>3. QED BY <1>1, <2>1, <2>2 DEF JobsType
<1>10. ASSUME NEW l \in Launches, StartSimulation(l[2], l[3]) PROVE JobsType'
  <2>1. Plan(l[2], l[3]) \subseteq Jobs
    BY PlannedJobs, LaunchParts
  <2>2. QED BY <1>1, <1>10, <2>1 DEF StartSimulation, JobsType
<1>11. CASE SimulateFails \/ \E got, late \in BOOLEAN : Simulate(got, late)
  <2>1. /\ todo' \subseteq todo
        /\ UNCHANGED <<store, stage, told, pending, running, planned, outcome, twice>>
    BY <1>11 DEF SimulateFails, Simulate
  <2>2. QED BY <1>1, <2>1 DEF JobsType
<1>12. QED
  BY <1>2, <1>3, <1>4, <1>5, <1>6, <1>7, <1>8, <1>9, <1>10, <1>11 DEF Next, Threads, Listener

LEMMA DataStep == ASSUME Typed, Next PROVE DataType'
<1> USE DEF process, data, history, bounds
<1>1. DataType /\ todo \subseteq Jobs
  BY DEF Typed, JobsType
<1>2. CASE UNCHANGED <<slots, delayed, daily, oi, verdict>>
  BY <1>1, <1>2 DEF DataType
<1>3. ASSUME NEW j \in Jobs, NEW got \in BOOLEAN, NEW late \in BOOLEAN, Return(j, got, late)
      PROVE  DataType'
  <2>1. Effect(j, got, late) /\ UNCHANGED verdict
    BY <1>3 DEF Return
  <2>2. QED BY <1>1, <2>1, EffectTyped
<1>4. ASSUME NEW got \in BOOLEAN, NEW late \in BOOLEAN, Simulate(got, late) PROVE DataType'
  <2>1. PICK j \in Jobs : Effect(j, got, late) /\ UNCHANGED verdict
    BY <1>1, <1>4 DEF Simulate, First
  <2>2. QED BY <1>1, <2>1, EffectTyped
<1>5. ASSUME NEW d \in Days, Qa(d) PROVE DataType'
  <2>1. \E v \in {"PASS", "FAIL"} : verdict' = [verdict EXCEPT ![d] = v]
    BY <1>5 DEF Qa, Evaluate
  <2>2. QED BY <1>1, <1>5, <2>1 DEF Qa, DataType
<1>6. QED
  BY <1>2, <1>3, <1>4, <1>5
  DEF Next, Threads, Listener, Tick, DailyInit, InitDone, InitFails, Submit, Begin, Fail, TellSubmitted,
      NoteSubmitted, TellEnded, NoteEnded, Exit, Crash, StartLive, StartSimulation, StartContinuous,
      SimulateFails, SimulationEnds

-------------------------------------------------------------------------------
(* The plans of a process. *)
LEMMA OverStarts == ASSUME Over PROVE Plans' /\ DaysInOrder'
  BY DEF Over, Plans, Touched, DaysInOrder

(* A day that is planned by a running command has had no job before. *)
LEMMA NewDay ==
  ASSUME Typed, Plans, DaysInOrder, initing # 0, NEW j \in Plan(initing, include)
  PROVE  j \in Jobs /\ j \notin planned /\ ~Touched(j)
<1>1. include \in SUBSET Kinds
  BY DEF Typed, ControlType
<1>2. j \in Jobs /\ j.day = initing /\ initing \in Days
  BY <1>1, PlanParts, PlannedJobs
<1>3. j \notin planned
  BY <1>2, ScheduleAssumption DEF DaysInOrder, Days
<1>4. QED BY <1>2, <1>3 DEF Plans

LEMMA PlansStep == ASSUME Typed, Plans, DaysInOrder, Next PROVE Plans'
<1> USE DEF process, data, history, bounds
<1>1. JobsType /\ include \in SUBSET Kinds
  BY DEF Typed, ControlType
<1>2. CASE UNCHANGED <<store, stage, told, outcome, planned, include>>
           /\ (pc' \in {"down", "starting", "simulate"} => pc \in {"down", "starting", "simulate"})
  BY <1>2 DEF Plans, Touched
<1>3. CASE \/ Tick \/ DailyInit \/ \E d \in Days : Qa(d)
           \/ SimulateFails \/ \E got, late \in BOOLEAN : Simulate(got, late)
           \/ \E l \in Launches : StartSimulation(l[2], l[3])
  BY <1>2, <1>3 DEF Tick, DailyInit, Qa, SimulateFails, Simulate, StartSimulation
<1>4. CASE InitFails
  <2>1. pc' = "up" /\ UNCHANGED <<store, stage, told, outcome, planned, include>>
    BY <1>4 DEF InitFails, StartScheduler
  <2>2. QED BY <1>2, <2>1
<1>5. CASE StartContinuous
  <2>1. /\ planned = {} /\ store = {} /\ \A j \in Jobs : ~Touched(j)
        /\ UNCHANGED <<store, stage, told, outcome, planned>>
    BY <1>5 DEF StartContinuous, Plans
  <2>2. QED BY <2>1 DEF Plans, Touched
<1>6. CASE InitDone
  <2>1. PICK jobs \in SUBSET Jobs :
           /\ jobs = {} \/ jobs = Plan(initing, include)
           /\ store' \subseteq store \cup jobs /\ planned' = planned \cup jobs
           /\ pc' = "up" /\ UNCHANGED <<stage, told, outcome, include>> /\ initing # 0
    <3>1. PICK jobs : jobs = IF initing \in Days THEN Plan(initing, include) ELSE {}
      OBVIOUS
    <3>2. jobs \subseteq Jobs /\ (jobs = {} \/ jobs = Plan(initing, include))
      BY <1>1, <3>1, PlannedJobs
    <3>3. /\ store' \subseteq store \cup jobs /\ planned' = planned \cup jobs
          /\ pc' = "up" /\ UNCHANGED <<stage, told, outcome, include>> /\ initing # 0
      BY <1>6, <3>1 DEF InitDone, Rescheduled, StartScheduler
    <3>4. QED BY <3>2, <3>3
  <2>2. \A j \in jobs : j.day = initing /\ ~Touched(j) /\ j \in Plan(j.day, include)
    BY <1>1, <2>1, NewDay, PlanParts
  <2>3. \A j \in store' : stage'[j] = "out" /\ outcome'[j] = "none"
    BY <2>1, <2>2 DEF Plans, Touched
  <2>4. QED BY <2>1, <2>2, <2>3 DEF Plans, Touched
<1>7. ASSUME NEW j \in Jobs, Submit(j) PROVE Plans'
  <2>1. /\ j \in store /\ store' = store \ {j} /\ stage' = [stage EXCEPT ![j] = "queued"]
        /\ \A k \in Jobs \ {j} : told'[k] = told[k]
        /\ pc = "up" /\ UNCHANGED <<pc, outcome, planned, include>>
    BY <1>1, <1>7 DEF Submit, First, JobsType
  <2>2. \A k \in Jobs \ {j} : stage'[k] = stage[k]
    BY <1>1, <2>1 DEF JobsType
  <2>3. QED BY <1>1, <2>1, <2>2 DEF Plans, Touched, JobsType
<1>8. ASSUME NEW j \in Jobs,
             \/ TellSubmitted(j) \/ NoteSubmitted(j) \/ TellEnded(j) \/ NoteEnded(j)
             \/ Begin(j) \/ Fail(j) \/ \E got, late \in BOOLEAN : Return(j, got, late)
      PROVE  Plans'
  <2>1. /\ \A k \in Jobs \ {j} : /\ stage'[k] = stage[k] /\ outcome'[k] = outcome[k]
                               /\ told'[k] = told[k]
        /\ Touched(j) /\ UNCHANGED <<pc, store, planned, include>>
        /\ stage[j] # "out" \/ UNCHANGED <<stage, outcome>>
    <3>1. CASE TellSubmitted(j) \/ NoteSubmitted(j)
      BY <1>1, <3>1 DEF TellSubmitted, NoteSubmitted, JobsType, Touched
    <3>2. CASE TellEnded(j) \/ NoteEnded(j)
      BY <1>1, <3>2 DEF TellEnded, NoteEnded, JobsType, Touched
    <3>3. CASE Begin(j)
      BY <1>1, <3>3 DEF Begin, Ended, JobsType, Touched
    <3>4. CASE Fail(j) \/ \E got, late \in BOOLEAN : Return(j, got, late)
      BY <1>1, <3>4 DEF Fail, Return, Ended, JobsType, Touched
    <3>5. QED BY <1>8, <3>1, <3>2, <3>3, <3>4
  <2>2. \A k \in store : stage'[k] = "out" /\ outcome'[k] = "none"
    BY <1>1, <2>1 DEF Plans, JobsType
  <2>3. \A k \in Jobs : Touched(k)' => k \in planned
    BY <2>1 DEF Plans, Touched
  <2>4. QED BY <2>1, <2>2, <2>3 DEF Plans
<1>9. CASE Exit \/ Crash \/ SimulationEnds
  BY <1>9, OverStarts DEF Exit, Crash, SimulationEnds
<1>10. ASSUME NEW l \in Launches, StartLive(l[2], l[1], l[3]) PROVE Plans'
  <2>1. PICK jobs \in SUBSET Jobs :
           /\ jobs = Plan(l[2], l[3]) /\ \A j \in jobs : j \in Plan(j.day, l[3])
    BY PlannedJobs, PlanParts, LaunchParts
  <2>2. /\ planned = {} /\ store = {} /\ \A j \in Jobs : ~Touched(j)
        /\ store' \subseteq jobs /\ planned' = jobs /\ include' = l[3] /\ pc' = "up"
        /\ UNCHANGED <<stage, told, outcome>>
    BY <1>10, <2>1 DEF StartLive, Rescheduled, Plans
  <2>3. store' \subseteq planned'
    BY <2>2
  <2>4. QED BY <2>1, <2>2 DEF Plans, Touched
<1>11. QED
  BY <1>3, <1>4, <1>5, <1>6, <1>7, <1>8, <1>9, <1>10 DEF Next, Threads, Listener

LEMMA DaysStep == ASSUME Typed, Plans, DaysInOrder, Next PROVE DaysInOrder'
<1> USE DEF process, data, history, bounds
<1>1. /\ Today(now) \in 1 .. LastDay + 1 /\ lastInit \in 0 .. LastDay + 1
      /\ include \in SUBSET Kinds /\ planned \subseteq Jobs
      /\ LastDay \in Nat /\ now \in Nat
  BY TodayType, ScheduleAssumption DEF Typed, ControlType, JobsType, Horizon
<1>2. \A j \in planned : j.day \in Int
  BY <1>1, JobParts DEF Days
<1>3. CASE UNCHANGED <<now, pc, mode, lastInit, initing, planned>>
  BY <1>3 DEF DaysInOrder
<1>4. CASE Tick
  <2>1. Today(now) <= Today(now') /\ Today(now') \in Int
    <3>1. now' = now + 1 /\ now + 1 \in Nat /\ Today(now + 1) \in Int
      BY <1>1, <1>4, Divided DEF Tick, Today
    <3>2. Today(now) <= Today(now + 1)
      BY <1>1, TodayGrows
    <3>3. QED BY <3>1, <3>2
  <2>2. QED BY <1>1, <1>4, <2>1 DEF Tick, DaysInOrder
<1>5. CASE DailyInit
  <2>1. CASE UNCHANGED <<lastInit, initing>>
    BY <1>3, <1>5, <2>1 DEF DailyInit
  <2>2. CASE InitDue /\ lastInit' = Today(now) /\ initing' = Today(now)
    <3>1. /\ lastInit < Today(now) /\ mode = "continuous" /\ pc = "up"
          /\ UNCHANGED <<now, pc, mode, planned>>
      BY <1>1, <1>5, <2>2 DEF DailyInit, InitDue, DaysInOrder
    <3>2. \A j \in planned : j.day < Today(now)
      BY <1>1, <1>2, <3>1 DEF DaysInOrder
    <3>3. QED BY <1>1, <1>2, <2>2, <3>1, <3>2 DEF DaysInOrder, Today
  <2>3. QED BY <1>5, <2>1, <2>2 DEF DailyInit
<1>6. CASE InitFails
  <2>1. initing' = 0 /\ pc' = "up" /\ UNCHANGED <<now, mode, lastInit, planned>>
    BY <1>6 DEF InitFails, StartScheduler
  <2>2. QED BY <2>1 DEF DaysInOrder, Today
<1>7. CASE InitDone
  <2>1. PICK jobs : jobs = IF initing \in Days THEN Plan(initing, include) ELSE {}
    OBVIOUS
  <2>2. \A j \in jobs : j.day = initing
    BY <1>1, <2>1, PlanParts
  <2>3. /\ initing # 0 /\ initing' = 0 /\ planned' = planned \cup jobs /\ pc' = "up"
        /\ UNCHANGED <<now, mode, lastInit>>
    BY <1>7, <2>1 DEF InitDone, StartScheduler
  <2>4. lastInit <= Today(now) /\ \A j \in planned' : j.day <= lastInit
    BY <1>1, <2>2, <2>3 DEF DaysInOrder
  <2>5. QED BY <2>3, <2>4 DEF DaysInOrder, Today
<1>8. ASSUME NEW j \in Jobs,
             \/ Submit(j) \/ TellSubmitted(j) \/ NoteSubmitted(j) \/ TellEnded(j) \/ NoteEnded(j)
             \/ Begin(j) \/ Fail(j) \/ \E got, late \in BOOLEAN : Return(j, got, late)
      PROVE  DaysInOrder'
  BY <1>3, <1>8 DEF Submit, TellSubmitted, NoteSubmitted, TellEnded, NoteEnded, Begin, Fail, Return
<1>9. CASE Exit \/ Crash \/ SimulationEnds
  BY <1>9, OverStarts DEF Exit, Crash, SimulationEnds
<1>10. ASSUME NEW l \in Launches, StartLive(l[2], l[1], l[3]) PROVE DaysInOrder'
  <2>1. pc = "down" /\ initing = 0 /\ initing' = 0 /\ mode' = l[1] /\ pc' = "up"
    BY <1>10 DEF StartLive, DaysInOrder
  <2>2. QED BY <2>1, LaunchParts DEF DaysInOrder
<1>11. ASSUME NEW l \in Launches, StartSimulation(l[2], l[3]) PROVE DaysInOrder'
  <2>1. /\ pc = "down" /\ initing = 0 /\ mode = "plain" /\ pc' = "simulate"
        /\ UNCHANGED <<initing, mode>>
    BY <1>11 DEF StartSimulation, DaysInOrder
  <2>2. QED BY <2>1 DEF DaysInOrder
<1>12. CASE StartContinuous
  <2>1. /\ planned = {} /\ planned' = {} /\ pc' = "starting" /\ mode' = "continuous"
        /\ lastInit' = Today(now) /\ initing' = Today(now) /\ now' = now
    BY <1>12 DEF StartContinuous, Plans
  <2>2. QED BY <1>1, <2>1 DEF DaysInOrder, Today
<1>13. CASE SimulateFails \/ (\E got, late \in BOOLEAN : Simulate(got, late)) \/ \E d \in Days : Qa(d)
  BY <1>3, <1>13 DEF SimulateFails, Simulate, Qa
<1>14. QED
  BY <1>4, <1>5, <1>6, <1>7, <1>8, <1>9, <1>10, <1>11, <1>12, <1>13 DEF Next, Threads, Listener

-------------------------------------------------------------------------------
(* The listener. *)
LEMMA HeardStep == ASSUME Typed, Plans, DaysInOrder, Heard, Next PROVE Heard'
<1> USE DEF process, data, history, bounds
<1>1. JobsType /\ errors \in BOOLEAN
  BY DEF Typed, ControlType
<1>2. CASE UNCHANGED <<stage, outcome, mode, planned, pending, errors>> /\ (pc' = "down" => pc = "down")
  BY <1>2 DEF Heard, CountsAsError
<1>3. CASE \/ Tick \/ DailyInit \/ \E d \in Days : Qa(d)
           \/ SimulateFails \/ \E got, late \in BOOLEAN : Simulate(got, late)
           \/ \E l \in Launches : StartSimulation(l[2], l[3])
  BY <1>2, <1>3 DEF Tick, DailyInit, Qa, SimulateFails, Simulate, StartSimulation
<1>4. CASE InitFails
  BY <1>2, <1>4 DEF InitFails, StartScheduler
<1>5. CASE InitDone \/ StartContinuous
  <2>1. mode' = "continuous" /\ pc' # "down" /\ UNCHANGED <<stage, outcome>>
    BY <1>5 DEF InitDone, StartContinuous, StartScheduler, DaysInOrder
  <2>2. QED BY <2>1 DEF Heard
<1>6. ASSUME NEW j \in Jobs, Submit(j) PROVE Heard'
  <2>1. /\ j \in store /\ stage' = [stage EXCEPT ![j] = "queued"] /\ outcome[j] = "none"
        /\ UNCHANGED <<pc, mode, planned, pending, outcome, errors>>
    BY <1>6 DEF Submit, First, Plans
  <2>2. /\ \A k \in Jobs : stage'[k] = IF k = j THEN "queued" ELSE stage[k]
        /\ UNCHANGED <<pc, mode, planned, pending, outcome, errors>>
    BY <1>1, <2>1 DEF JobsType
  <2>3. QED BY <2>1, <2>2 DEF Heard, CountsAsError
<1>7. ASSUME NEW j \in Jobs, TellSubmitted(j) \/ NoteSubmitted(j) PROVE Heard'
  BY <1>2, <1>7 DEF TellSubmitted, NoteSubmitted
<1>8. ASSUME NEW j \in Jobs, TellEnded(j) PROVE Heard'
  <2>1. /\ stage[j] = "ended" /\ \E s \in {"telling", "out"} : stage' = [stage EXCEPT ![j] = s]
        /\ UNCHANGED <<pc, mode, planned, pending, outcome, errors>>
    BY <1>8 DEF TellEnded
  <2>2. \A k \in Jobs : stage'[k] = stage[k] \/ (k = j /\ stage'[k] \in {"telling", "out"})
    BY <1>1, <2>1 DEF JobsType
  <2>3. QED BY <2>1, <2>2 DEF Heard, CountsAsError
<1>9. ASSUME NEW j \in Jobs,
             Begin(j) \/ Fail(j) \/ \E got, late \in BOOLEAN : Return(j, got, late)
      PROVE  Heard'
  <2>1. /\ stage[j] \in {"queued", "running"} /\ pc = "up"
        /\ \/ stage' = [stage EXCEPT ![j] = "running"] /\ outcome' = outcome
           \/ /\ \E s \in {"ended", "out"} : stage' = [stage EXCEPT ![j] = s]
              /\ \E o \in {"missed", "ok", "error"} : outcome' = [outcome EXCEPT ![j] = o]
        /\ UNCHANGED <<pc, mode, planned, pending, errors>>
    <3>1. CASE Begin(j)
      BY <3>1 DEF Begin, Ended
    <3>2. CASE Fail(j) \/ \E got, late \in BOOLEAN : Return(j, got, late)
      BY <3>2 DEF Fail, Return, Ended
    <3>3. QED BY <1>9, <3>1, <3>2
  <2>2. /\ \A k \in Jobs \ {j} : stage'[k] = stage[k] /\ outcome'[k] = outcome[k]
        /\ stage'[j] = "running" => outcome'[j] = outcome[j]
        /\ stage'[j] \in {"running", "ended", "out"}
        /\ stage'[j] \in {"ended", "out"} => outcome'[j] # "none"
    BY <1>1, <2>1 DEF JobsType
  <2>3. outcome[j] = "none"
    BY <2>1 DEF Heard
  <2>4. mode = "idle" => j \notin planned \ pending
    BY <2>3 DEF Heard
  <2>5. mode = "idle" => \A k \in planned \ pending : outcome'[k] = outcome[k]
    BY <1>1, <2>2, <2>4 DEF JobsType
  <2>6. QED BY <2>1, <2>2, <2>3, <2>5 DEF Heard, CountsAsError
<1>10. ASSUME NEW j \in Jobs, NoteEnded(j) PROVE Heard'
  <2>1. /\ stage[j] = "telling" /\ stage' = [stage EXCEPT ![j] = "out"] /\ pending' = pending \ {j}
        /\ errors' = (errors \/ CountsAsError(j)) /\ pc = "up"
        /\ UNCHANGED <<pc, mode, planned, outcome>>
    BY <1>10 DEF NoteEnded
  <2>2. \A k \in Jobs : stage'[k] = stage[k] \/ (k = j /\ stage'[k] = "out")
    BY <1>1, <2>1 DEF JobsType
  <2>3. j \in planned /\ outcome[j] # "none"
    BY <2>1 DEF Heard, Plans, Touched
  <2>4. planned' \ pending' = (planned \ pending) \cup {j}
    BY <2>1, <2>3
  <2>5. \A k \in Jobs : CountsAsError(k)' <=> CountsAsError(k)
    BY <2>1 DEF CountsAsError
  <2>6. ASSUME mode = "idle"
        PROVE  errors' <=> \E k \in planned' \ pending' : CountsAsError(k)'
    <3>1. errors <=> \E k \in planned \ pending : CountsAsError(k)
      BY <2>6 DEF Heard
    <3>2. planned \subseteq Jobs
      BY <1>1 DEF JobsType
    <3>3. errors' <=> (errors \/ CountsAsError(j))
      BY <1>1, <2>1 DEF CountsAsError
    <3>4. QED BY <2>4, <2>5, <3>1, <3>2, <3>3
  <2>7. QED BY <2>1, <2>2, <2>3, <2>4, <2>6 DEF Heard
<1>11. CASE Exit \/ Crash \/ SimulationEnds
  <2>1. Over
    BY <1>11 DEF Exit, Crash, SimulationEnds
  <2>2. QED BY <2>1 DEF Over, Heard
<1>12. ASSUME NEW l \in Launches, StartLive(l[2], l[1], l[3]) PROVE Heard'
  <2>1. /\ planned' = pending' /\ ~errors /\ pc' = "up" /\ UNCHANGED <<stage, outcome, errors>>
    BY <1>12 DEF StartLive, Heard
  <2>2. QED BY <2>1 DEF Heard
<1>13. QED
  BY <1>3, <1>4, <1>5, <1>6, <1>7, <1>8, <1>9, <1>10, <1>11, <1>12 DEF Next, Threads, Listener

(* The command returns when no job is pending: all have ended, and errors   *)
(* is about all of them.                                                    *)
LEMMA ExitStep == ASSUME Heard, ExitTellsTheTruth, JobsType, Next PROVE ExitTellsTheTruth'
<1> USE DEF process, data, history, bounds
<1>1. CASE UNCHANGED <<code, results>>
  BY <1>1 DEF ExitTellsTheTruth
<1>2. CASE Exit
  <2>1. /\ mode = "idle" /\ pending = {} /\ results' = {outcome[j] : j \in planned}
        /\ code' = IF errors THEN "1" ELSE "0"
    BY <1>2 DEF Exit
  <2>2. /\ \A j \in planned : outcome[j] # "none" /\ outcome[j] \in Outcomes
        /\ errors <=> \E j \in planned : outcome[j] \in {"error", "missed"}
    BY <2>1 DEF Heard, CountsAsError, JobsType
  <2>3. CASE errors
    <3>1. PICK j \in planned : outcome[j] \in {"error", "missed"}
      BY <2>2, <2>3
    <3>2. outcome[j] \in results' /\ "none" \notin results' /\ code' = "1"
      BY <2>1, <2>2, <2>3
    <3>3. QED BY <3>1, <3>2 DEF ExitTellsTheTruth
  <2>4. CASE ~errors
    <3>1. \A j \in planned : outcome[j] = "ok"
      BY <2>2, <2>4 DEF Outcomes
    <3>2. results' \subseteq {"ok"} /\ code' = "0"
      BY <2>1, <2>4, <3>1
    <3>3. QED BY <3>2 DEF ExitTellsTheTruth
  <2>5. QED BY <2>3, <2>4
<1>3. QED
  BY <1>1, <1>2 DEF Next, Threads, Listener, Tick, DailyInit, InitDone, InitFails, Submit, Begin, Fail, Return,
     TellSubmitted, NoteSubmitted, TellEnded, NoteEnded, Crash, StartLive, StartSimulation, StartContinuous,
     Simulate, SimulateFails, SimulationEnds, Qa

(* A job that is submitted has waited in the store. *)
LEMMA OnceStep == ASSUME Plans, NoJobTwice, Next PROVE NoJobTwice'
<1> USE DEF process, data, history, bounds
<1>1. CASE UNCHANGED twice
  BY <1>1 DEF NoJobTwice
<1>2. ASSUME NEW j \in Jobs, Submit(j) PROVE NoJobTwice'
  <2>1. j \in store /\ outcome[j] = "none" /\ stage[j] = "out"
    BY <1>2 DEF Submit, First, Plans
  <2>2. QED BY <1>2, <2>1 DEF Submit, NoJobTwice
<1>3. QED
  BY <1>1, <1>2 DEF Next, Threads, Listener, Tick, DailyInit, InitDone, InitFails, Begin, Fail, Return,
     TellSubmitted, NoteSubmitted, TellEnded, NoteEnded, Exit, Crash, StartLive, StartSimulation,
     StartContinuous, Simulate, SimulateFails, SimulationEnds, Qa

-------------------------------------------------------------------------------
(* The morning after. *)
LEMMA OverWatched ==
  ASSUME Watched, Over, UNCHANGED <<now, oi, simulated>>
  PROVE  Watched'
  BY DEF Watched, Over, Morning, Start0

(* What a job that is running may change of a day that has its open interest. *)
LEMMA EffectOnDay ==
  ASSUME DataType, NEW j \in Jobs, NEW got \in BOOLEAN, NEW late \in BOOLEAN, Effect(j, got, late),
         NEW d \in Days
  PROVE  /\ j.day # d \/ j.kind = "enrichment" =>
               slots'[d] = slots[d] /\ delayed'[d] = delayed[d] /\ daily'[d] = daily[d]
         /\ j.day # d => oi'[d] = oi[d]
         /\ j.kind = "enrichment" /\ oi[d] => oi'[d]
         /\ j.kind # "enrichment" /\ oi'[d] => oi[d]
<1>1. /\ slots \in [Days -> SUBSET Int] /\ delayed \in [Days -> SUBSET Int]
      /\ daily \in [Days -> {"none", "close", "fallback"}] /\ oi \in [Days -> BOOLEAN]
  BY DEF DataType
<1>2. PICK e \in Days : e = j.day
  BY JobParts
<1>3. PICK x : x = j.time - Start0(e)
  OBVIOUS
<1>4. CASE j.kind = "snapshot"
  <2>1. /\ UNCHANGED <<daily, oi>>
        /\ slots' = slots \/ slots' = [slots EXCEPT ![e] = slots[e] \cup {x}]
        /\ \/ delayed' = delayed
           \/ delayed' = [delayed EXCEPT ![e] = delayed[e] \cup {x}]
           \/ delayed' = [delayed EXCEPT ![e] = delayed[e] \ {x}]
    BY <1>1, <1>2, <1>3, <1>4 DEF Effect
  <2>2. e # d => slots'[d] = slots[d] /\ delayed'[d] = delayed[d]
    BY <1>1, <2>1
  <2>3. QED BY <1>2, <1>4, <2>1, <2>2
<1>5. CASE j.kind = "close"
  <2>1. /\ UNCHANGED <<slots, delayed>>
        /\ \E v \in {"close", "fallback", daily[e]} : daily' = [daily EXCEPT ![e] = v]
        /\ \E o \in {FALSE, oi[e]} : oi' = [oi EXCEPT ![e] = o]
    BY <1>2, <1>5 DEF Effect
  <2>2. /\ e # d => daily'[d] = daily[d] /\ oi'[d] = oi[d]
        /\ oi'[d] \in {FALSE, oi[d]}
    BY <1>1, <2>1
  <2>3. QED BY <1>2, <1>5, <2>1, <2>2
<1>6. CASE j.kind = "enrichment"
  <2>1. UNCHANGED <<slots, delayed, daily>>
    BY <1>6 DEF Effect
  <2>2. oi' = [oi EXCEPT ![e] = oi[e] \/ (got /\ daily[e] # "none")]
    BY <1>2, <1>6 DEF Effect
  <2>3. (e # d => oi'[d] = oi[d]) /\ (oi[d] => oi'[d])
    BY <1>1, <2>2
  <2>4. QED BY <1>2, <1>6, <2>1, <2>3
<1>7. QED BY <1>4, <1>5, <1>6, JobParts DEF Kinds

LEMMA WatchedStep == ASSUME Typed, Plans, Watched, Next PROVE Watched'
<1> USE DEF process, data, history, bounds
<1>1. /\ JobsType /\ DataType /\ now \in Nat /\ \A d \in Days : Morning(d) \in Nat
      /\ \A j \in Jobs : j.time \in Nat /\ j.day \in Days
  BY StartType, JobParts DEF Typed, ControlType, Horizon
<1>2. CASE UNCHANGED <<now, stage, oi, simulated>> /\ todo' \subseteq todo
  BY <1>2 DEF Watched, Morning, Start0
<1>3. CASE \/ DailyInit \/ InitDone \/ InitFails \/ StartContinuous \/ SimulateFails
           \/ (\E d \in Days : Qa(d)) \/ (\E l \in Launches : StartLive(l[2], l[1], l[3]))
           \/ \E j \in Jobs : TellSubmitted(j) \/ NoteSubmitted(j)
  BY <1>2, <1>3 DEF DailyInit, InitDone, InitFails, StartContinuous, SimulateFails, Qa, StartLive,
                    TellSubmitted, NoteSubmitted
<1>4. CASE Tick
  <2>1. /\ now' = now + 1 /\ UNCHANGED <<stage, oi, simulated, todo>>
        /\ ~\E j \in Jobs : stage[j] = "running" /\ j.kind # "enrichment" /\ now + 1 >= Morning(j.day)
    BY <1>4 DEF Tick, Overnight, Morning
  <2>2. \A j \in Jobs : stage'[j] = "running" /\ j.kind # "enrichment" => now' < Morning(j.day)
    BY <1>1, <2>1
  <2>3. \A j \in Jobs : stage'[j] \in {"queued", "running"} => now' >= j.time
    BY <1>1, <2>1 DEF Watched
  <2>4. \A d \in Days \ simulated : oi[d] => now' >= Morning(d)
    BY <1>1, <2>1 DEF Watched
  <2>5. QED BY <2>1, <2>2, <2>3, <2>4 DEF Watched, Morning, Start0
<1>5. ASSUME NEW j \in Jobs, Submit(j) PROVE Watched'
  <2>1. /\ now >= j.time /\ stage' = [stage EXCEPT ![j] = "queued"]
        /\ UNCHANGED <<now, oi, simulated, todo>>
    BY <1>5 DEF Submit
  <2>2. \A k \in Jobs : stage'[k] = stage[k] \/ (k = j /\ stage'[k] = "queued")
    BY <1>1, <2>1 DEF JobsType
  <2>3. QED BY <2>1, <2>2 DEF Watched, Morning, Start0
<1>6. ASSUME NEW j \in Jobs, Begin(j) PROVE Watched'
  <2>1. /\ stage[j] = "queued" /\ UNCHANGED <<now, oi, simulated, todo>>
        /\ \/ stage' = [stage EXCEPT ![j] = "running"] /\ ~TooLate(j)
           \/ \E s \in {"ended", "out"} : stage' = [stage EXCEPT ![j] = s]
    BY <1>6 DEF Begin, Ended
  <2>2. /\ \A k \in Jobs : stage'[k] = stage[k] \/ (k = j /\ stage'[k] \in {"running", "ended", "out"})
        /\ stage'[j] = "running" => ~TooLate(j)
    BY <1>1, <2>1 DEF JobsType
  <2>3. stage'[j] = "running" /\ j.kind # "enrichment" => now < Morning(j.day)
    <3>1. ASSUME ~TooLate(j), j.kind # "enrichment" PROVE now < Morning(j.day)
      <4>1. Grace \in Nat /\ now - j.time <= Grace /\ j.time + Grace < Morning(j.day)
        BY <1>1, <3>1, JobParts, ScheduleAssumption DEF TooLate
      <4>2. QED BY <1>1, <4>1
    <3>2. QED BY <2>2, <3>1
  <2>4. now >= j.time
    BY <2>1 DEF Watched
  <2>5. QED BY <2>1, <2>2, <2>3, <2>4 DEF Watched, Morning, Start0
<1>7. ASSUME NEW j \in Jobs, Fail(j) \/ TellEnded(j) \/ NoteEnded(j) PROVE Watched'
  <2>1. /\ \E s \in {"ended", "telling", "out"} : stage' = [stage EXCEPT ![j] = s]
        /\ UNCHANGED <<now, oi, simulated, todo>>
    BY <1>7 DEF Fail, TellEnded, NoteEnded, Ended
  <2>2. \A k \in Jobs : stage'[k] = stage[k] \/ stage'[k] \in {"ended", "telling", "out"}
    BY <1>1, <2>1 DEF JobsType
  <2>3. QED BY <2>1, <2>2 DEF Watched, Morning, Start0
<1>8. ASSUME NEW j \in Jobs, NEW got \in BOOLEAN, NEW late \in BOOLEAN, Return(j, got, late) PROVE Watched'
  <2>1. /\ stage[j] = "running" /\ \E s \in {"ended", "out"} : stage' = [stage EXCEPT ![j] = s]
        /\ Effect(j, got, late) /\ UNCHANGED <<now, simulated, todo>>
    BY <1>8 DEF Return, Ended
  <2>2. \A k \in Jobs : stage'[k] = stage[k] \/ stage'[k] \in {"ended", "out"}
    BY <1>1, <2>1 DEF JobsType
  <2>3. ASSUME NEW d \in Days \ simulated, oi'[d] PROVE now >= Morning(d)
    <3>1. CASE oi[d]
      BY <3>1 DEF Watched
    <3>2. CASE ~oi[d]
      <4>1. j.day = d /\ j.kind = "enrichment"
        BY <1>1, <2>1, <2>3, <3>2, EffectOnDay
      <4>2. now >= j.time /\ j.time = Morning(d)
        BY <2>1, <4>1, JobParts DEF Watched
      <4>3. QED BY <4>2
    <3>3. QED BY <3>1, <3>2
  <2>4. QED BY <2>1, <2>2, <2>3 DEF Watched, Morning, Start0
<1>9. CASE Exit \/ Crash \/ SimulationEnds
  BY <1>9, OverWatched DEF Exit, Crash, SimulationEnds
<1>10. ASSUME NEW l \in Launches, StartSimulation(l[2], l[3]) PROVE Watched'
  <2>1. /\ todo' = Plan(l[2], l[3]) /\ simulated' = simulated \cup {l[2]} /\ UNCHANGED <<now, stage, oi>>
    BY <1>10 DEF StartSimulation
  <2>2. \A j \in todo' : j.day \in simulated'
    BY <2>1, PlanParts, LaunchParts
  <2>3. QED BY <2>1, <2>2 DEF Watched, Morning, Start0
<1>11. ASSUME NEW got \in BOOLEAN, NEW late \in BOOLEAN, Simulate(got, late) PROVE Watched'
  <2>1. PICK j \in todo : /\ Effect(j, got, late) /\ todo' = todo \ {j}
                          /\ UNCHANGED <<now, stage, simulated>>
    BY <1>11 DEF Simulate, First
  <2>2. j \in Jobs /\ j.day \in simulated
    BY <1>1, <2>1 DEF JobsType, Watched
  <2>3. \A d \in Days \ simulated : oi'[d] = oi[d]
    BY <1>1, <2>1, <2>2, EffectOnDay
  <2>4. QED BY <2>1, <2>3 DEF Watched, Morning, Start0
<1>12. QED
  BY <1>3, <1>4, <1>5, <1>6, <1>7, <1>8, <1>9, <1>10, <1>11 DEF Next, Threads, Listener

(* The verdict of qa depends on the data of the day alone. *)
LEMMA VerdictOfDay ==
  ASSUME NEW d \in Days, slots'[d] = slots[d], delayed'[d] = delayed[d], daily'[d] = daily[d],
         oi'[d] = oi[d]
  PROVE  Evaluate(d)' = Evaluate(d)
  BY DEF Evaluate, Enriched

LEMMA VerdictStep == ASSUME Typed, Watched, VerdictStands, Next PROVE VerdictStands'
<1> USE DEF process, data, history, bounds
<1>1. /\ JobsType /\ DataType /\ now \in Nat /\ \A d \in Days : Morning(d) \in Nat
  BY StartType DEF Typed, ControlType, Horizon
<1>2. CASE UNCHANGED <<slots, delayed, daily, oi, verdict>> /\ simulated \subseteq simulated'
  BY <1>2, VerdictOfDay DEF VerdictStands
<1>3. ASSUME NEW d \in Days, Qa(d) PROVE VerdictStands'
  <2>1. /\ verdict' = [verdict EXCEPT ![d] = Evaluate(d)]
        /\ UNCHANGED <<slots, delayed, daily, oi, simulated>>
    BY <1>3 DEF Qa
  <2>2. \A e \in Days : /\ Evaluate(e)' = Evaluate(e)
                        /\ verdict'[e] = IF e = d THEN Evaluate(e) ELSE verdict[e]
    BY <1>1, <2>1, VerdictOfDay DEF DataType
  <2>3. QED BY <2>1, <2>2 DEF VerdictStands
<1>4. ASSUME NEW j \in Jobs, NEW got \in BOOLEAN, NEW late \in BOOLEAN, Return(j, got, late)
      PROVE  VerdictStands'
  <2>1. stage[j] = "running" /\ Effect(j, got, late) /\ UNCHANGED <<simulated, verdict>>
    BY <1>4 DEF Return
  <2>2. ASSUME NEW d \in Days \ simulated, verdict[d] = "PASS" PROVE Evaluate(d)' = "PASS"
    <3>1. Evaluate(d) = "PASS" /\ oi[d]
      BY <2>2 DEF VerdictStands, Evaluate, Enriched
    <3>2. now >= Morning(d)
      BY <3>1 DEF Watched
    <3>3. j.day # d \/ j.kind = "enrichment"
      <4>1. j.kind # "enrichment" => now < Morning(j.day)
        BY <2>1 DEF Watched
      <4>2. j.day = d => Morning(j.day) = Morning(d)
        OBVIOUS
      <4>3. QED BY <1>1, <3>2, <4>1, <4>2
    <3>4. /\ slots'[d] = slots[d] /\ delayed'[d] = delayed[d] /\ daily'[d] = daily[d]
          /\ oi'[d] \in BOOLEAN /\ oi'[d]
      <4>1. DataType'
        BY <1>1, <2>1, EffectTyped
      <4>2. QED BY <1>1, <2>1, <3>1, <3>3, <4>1, EffectOnDay DEF DataType
    <3>5. oi'[d] = oi[d]
      BY <1>1, <3>1, <3>4 DEF DataType
    <3>6. QED BY <3>1, <3>4, <3>5, VerdictOfDay
  <2>3. QED BY <2>1, <2>2 DEF VerdictStands
<1>5. ASSUME NEW got \in BOOLEAN, NEW late \in BOOLEAN, Simulate(got, late) PROVE VerdictStands'
  <2>1. PICK j \in todo : Effect(j, got, late) /\ UNCHANGED <<simulated, verdict>>
    BY <1>5 DEF Simulate, First
  <2>2. j \in Jobs /\ j.day \in simulated
    BY <1>1, <2>1 DEF JobsType, Watched
  <2>3. ASSUME NEW d \in Days \ simulated PROVE Evaluate(d)' = Evaluate(d)
    <3>1. /\ slots'[d] = slots[d] /\ delayed'[d] = delayed[d] /\ daily'[d] = daily[d]
          /\ oi'[d] = oi[d]
      BY <1>1, <2>1, <2>2, EffectOnDay
    <3>2. QED BY <3>1, VerdictOfDay
  <2>4. QED BY <2>1, <2>3 DEF VerdictStands
<1>6. QED
  BY <1>2, <1>3, <1>4, <1>5 DEF Next, Threads, Listener, Tick, DailyInit, InitDone, InitFails, Submit, Begin,
     Fail, TellSubmitted, NoteSubmitted, TellEnded, NoteEnded, Exit, Crash, StartLive, StartSimulation,
     StartContinuous, SimulateFails, SimulationEnds

-------------------------------------------------------------------------------
LEMMA InitOK == Init => IInv
<1> SUFFICES ASSUME Init PROVE IInv
  OBVIOUS
<1>1. Plans /\ DaysInOrder /\ Heard
  BY DEF Init, Plans, Touched, DaysInOrder, Heard
<1>2. Watched /\ NoJobTwice /\ ExitTellsTheTruth /\ VerdictStands
  BY DEF Init, Watched, NoJobTwice, ExitTellsTheTruth, VerdictStands
<1>3. QED BY <1>1, <1>2, InitTyped DEF IInv

LEMMA StepOK == IInv /\ [Next]_vars => IInv'
<1> SUFFICES ASSUME IInv, [Next]_vars PROVE IInv'
  OBVIOUS
<1>1. CASE Next
  <2>1. Typed'
    BY <1>1, ControlStep, JobsStep, DataStep DEF IInv, Typed
  <2>2. Plans' /\ DaysInOrder' /\ Heard'
    BY <1>1, PlansStep, DaysStep, HeardStep DEF IInv
  <2>3. Watched' /\ VerdictStands'
    BY <1>1, WatchedStep, VerdictStep DEF IInv
  <2>4. NoJobTwice' /\ ExitTellsTheTruth'
    BY <1>1, OnceStep, ExitStep DEF IInv, Typed
  <2>5. QED BY <2>1, <2>2, <2>3, <2>4 DEF IInv
<1>2. CASE UNCHANGED vars
  <2> USE <1>2 DEF vars, process, data, history, bounds
  <2>1. Typed'
    BY DEF IInv, Typed, ControlType, JobsType, DataType
  <2>2. Plans' /\ DaysInOrder' /\ Heard'
    BY DEF IInv, Plans, Touched, DaysInOrder, Heard, CountsAsError, Today
  <2>3. Watched'
    BY DEF IInv, Watched, Morning, Start0
  <2>4. NoJobTwice' /\ ExitTellsTheTruth' /\ VerdictStands'
    BY VerdictOfDay DEF IInv, NoJobTwice, ExitTellsTheTruth, VerdictStands
  <2>5. QED BY <2>1, <2>2, <2>3, <2>4 DEF IInv
<1>3. QED BY <1>1, <1>2

LEMMA Invariance == Spec => []IInv
  BY InitOK, StepOK, PTL DEF Spec

-------------------------------------------------------------------------------
(* Every variable of the command, its scheduler and the data of the days   *)
(* keeps its type, for any times of the day; daily-init stays within the   *)
(* days there are (schedule).                                              *)
THEOREM TypeCorrect == Spec => []TypeOK
<1>1. IInv => TypeOK
  BY DEF IInv, Typed, ControlType, JobsType, DataType, TypeOK
<1>2. QED BY <1>1, Invariance, PTL

(* However late a continuous command is started and whenever daily-init    *)
(* fires, init_today plans no day a second time.                           *)
THEOREM SubmittedOnce == Spec => []NoJobTwice
<1>1. IInv => NoJobTwice
  BY DEF IInv
<1>2. QED BY <1>1, Invariance, PTL

(* The listener and the pool may be heard in any order: --exit-when-idle   *)
(* exits with 0 only if all its jobs ended well, with 1 only if one did    *)
(* not, and with none left (_listener).                                    *)
THEOREM ExitIsHonest == Spec => []ExitTellsTheTruth
<1>1. IInv => ExitTellsTheTruth
  BY DEF IInv
<1>2. QED BY <1>1, Invariance, PTL

(* Once qa has passed a day, no job of a live command that still runs or   *)
(* comes changes its verdict, whatever fails, dies or is started again.    *)
THEOREM PassIsFinal == Spec => []VerdictStands
<1>1. IInv => VerdictStands
  BY DEF IInv
<1>2. QED BY <1>1, Invariance, PTL

(* A job leaves the store of a running command only when the pool has it:  *)
(* planning the next day keeps the enrichment that is due in the morning   *)
(* (schedule_one_day).                                                     *)
THEOREM JobsStay == Spec => ScheduledJobsStay
<1> DEFINE Stays == pc = "up" /\ pc' = "up" => \A j \in store \ store' : stage'[j] = "queued"
<1>1. ASSUME IInv, [Next]_vars PROVE [Stays]_vars
  <2> USE DEF process, data, history, bounds
  <2>1. JobsType /\ Plans
    BY <1>1 DEF IInv, Typed
  <2>2. CASE store \subseteq store' \/ pc # "up" \/ pc' # "up"
    BY <2>2
  <2>3. ASSUME NEW j \in Jobs, Submit(j) PROVE Stays
    <3>1. store' = store \ {j} /\ stage' = [stage EXCEPT ![j] = "queued"]
      BY <2>3 DEF Submit
    <3>2. stage'[j] = "queued" /\ store \ store' \subseteq {j}
      BY <2>1, <3>1 DEF JobsType
    <3>3. QED BY <3>2
  <2>4. CASE InitDone
    <3>1. PICK jobs : jobs = IF initing \in Days THEN Plan(initing, include) ELSE {}
      OBVIOUS
    <3>2. store' = IF jobs = {} THEN store ELSE Rescheduled(initing, jobs)
      BY <2>4, <3>1 DEF InitDone
    <3>3. \A j \in store : j \in Plan(j.day, include)
      BY <2>1 DEF Plans
    <3>4. \A j \in store : j.day = initing /\ jobs # {} => j \in jobs
      BY <3>1, <3>3
    <3>5. store \subseteq store'
      BY <3>2, <3>4 DEF Rescheduled
    <3>6. QED BY <2>2, <3>5
  <2>5. CASE UNCHANGED vars
    BY <2>2, <2>5 DEF vars
  <2>6. CASE Exit \/ Crash \/ SimulationEnds
    BY <2>2, <2>6 DEF Exit, Crash, SimulationEnds, Over
  <2>7. CASE StartContinuous \/ \E l \in Launches : StartLive(l[2], l[1], l[3])
    BY <2>2, <2>7 DEF StartContinuous, StartLive
  <2>8. QED
    BY <1>1, <2>2, <2>3, <2>4, <2>5, <2>6, <2>7 DEF Next, Threads, Listener, Tick, DailyInit, InitFails, Begin,
       Fail, Return, TellSubmitted, NoteSubmitted, TellEnded, NoteEnded, StartSimulation, Simulate,
       SimulateFails, Qa
<1>2. Spec => [][Stays]_vars
  BY <1>1, Invariance, PTL DEF Spec
<1>3. QED BY <1>2 DEF ScheduledJobsStay
================================================================================
