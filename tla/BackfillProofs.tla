---------------------------- MODULE BackfillProofs ----------------------------
(***************************************************************************)
(* The theorems of Backfill, for any universe, any range of days and any   *)
(* number of faults and plans: the queue file forgets no task but for the  *)
(* two losses that are named, and what was processed is in all three       *)
(* layers.                                                                 *)
(***************************************************************************)
EXTENDS Backfill, TLAPS

(* Between a pop and the save that follows it the file is the queue and the *)
(* task that is under way.                                                  *)
FileIsQueue ==
    /\ pc \in {"session", "next"} => Elements(file[day]) = Elements(queue)
    /\ pc \in {"task", "write"} => Elements(file[day]) = Elements(queue) \cup {task}

(* What save is about to write has every task of the plan that is open. *)
SaveCovers ==
    pc = "save" /\ day \notin hit =>
        planned[day] \subseteq Elements(queue) \cup settled[day] \cup dropped[day] \cup cut[day]

(* A task under way is not settled, and its layers are written in order. *)
LayersInOrder ==
    /\ pc \in {"task", "write"} => task \notin settled[day] /\ task \notin gaps[day]
    /\ pc = "write" => \A l \in Layers : l < layer => data[day][l][task] = content

QueueInv == NothingForgotten /\ FileIsQueue /\ SaveCovers
LayerInv == SettledIsWhole /\ LayersInOrder
-------------------------------------------------------------------------------
(* What Append, Head and Tail do to the elements of a queue (util/queue.py). *)
LEMMA QueueProps ==
    ASSUME NEW S, NEW q \in Seq(S)
    PROVE  /\ Elements(q) \subseteq S
           /\ \A x : Elements(Append(q, x)) = Elements(q) \cup {x}
           /\ q # <<>> => /\ Head(q) \in S /\ Tail(q) \in Seq(S)
                          /\ Elements(q) = Elements(Tail(q)) \cup {Head(q)}
<1>1. Elements(q) \subseteq S
  BY DEF Elements
<1>2. ASSUME NEW x PROVE Elements(Append(q, x)) = Elements(q) \cup {x}
  <2>1. /\ Len(Append(q, x)) = Len(q) + 1
        /\ \A i \in 1 .. Len(q) : Append(q, x)[i] = q[i]
        /\ Append(q, x)[Len(q) + 1] = x
    OBVIOUS
  <2>2. DOMAIN Append(q, x) = 1 .. Len(q) + 1 /\ DOMAIN q = 1 .. Len(q) /\ Len(q) \in Nat
    OBVIOUS
  <2>3. \A i \in 1 .. Len(q) + 1 : i \in 1 .. Len(q) \/ i = Len(q) + 1
    BY <2>2
  <2> QED BY <2>1, <2>2, <2>3 DEF Elements
<1>3. ASSUME q # <<>>
      PROVE  /\ Head(q) \in S /\ Tail(q) \in Seq(S)
             /\ Elements(q) = Elements(Tail(q)) \cup {Head(q)}
  <2>1. Len(q) \in Nat \ {0} /\ DOMAIN q = 1 .. Len(q)
    BY <1>3
  <2>2. /\ Head(q) = q[1] /\ Head(q) \in S /\ Tail(q) \in Seq(S)
        /\ DOMAIN Tail(q) = 1 .. Len(q) - 1
        /\ \A i \in 1 .. Len(q) - 1 : Tail(q)[i] = q[i + 1]
    BY <1>3, <2>1
  <2>3. \A i \in 1 .. Len(q) : i = 1 \/ (i - 1 \in 1 .. Len(q) - 1 /\ q[i] = Tail(q)[i - 1])
    BY <2>1, <2>2
  <2>4. \A i \in 1 .. Len(q) - 1 : i + 1 \in 1 .. Len(q) /\ Tail(q)[i] = q[i + 1]
    BY <2>1, <2>2
  <2>5. ASSUME NEW x \in Elements(q) PROVE x \in Elements(Tail(q)) \cup {Head(q)}
    <3>1. PICK i \in 1 .. Len(q) : x = q[i]
      BY <2>1 DEF Elements
    <3>2. CASE i = 1
      BY <3>1, <3>2, <2>2
    <3>3. CASE i - 1 \in 1 .. Len(q) - 1 /\ q[i] = Tail(q)[i - 1]
      <4>1. x \in {Tail(q)[j] : j \in 1 .. Len(q) - 1}
        BY <3>1, <3>3
      <4> QED BY <4>1, <2>2 DEF Elements
    <3> QED BY <2>3, <3>2, <3>3
  <2>6. ASSUME NEW x \in Elements(Tail(q)) \cup {Head(q)} PROVE x \in Elements(q)
    <3>1. CASE x = Head(q)
      BY <3>1, <2>1, <2>2 DEF Elements
    <3>2. ASSUME NEW i \in 1 .. Len(q) - 1, x = Tail(q)[i] PROVE x \in Elements(q)
      <4>1. x = q[i + 1] /\ i + 1 \in DOMAIN q
        BY <3>2, <2>1, <2>4
      <4> QED BY <4>1 DEF Elements
    <3> QED BY <3>1, <3>2, <2>2, <2>6 DEF Elements
  <2> QED BY <2>2, <2>5, <2>6
<1> QED BY <1>1, <1>2, <1>3

(* The symbols that a command wants are a queue. *)
LEMMA WantedIsQueue == \A w \in Wanted : w \in Seq(Symbols) /\ Elements(w) \subseteq Symbols
  BY BackfillAssumption, QueueProps
-------------------------------------------------------------------------------
(* A process that is over, a fresh plan and a task put back keep the types. *)
LEMMA EndedType ==
    TypeOK /\ Ended /\ UNCHANGED <<config, disk, data, history>>
    /\ faults' \in 0 .. MaxFaults /\ plans' \in 0 .. MaxPlans => TypeOK'
<1> SUFFICES ASSUME TypeOK, Ended, UNCHANGED <<config, disk, data, history>>,
                    faults' \in 0 .. MaxFaults, plans' \in 0 .. MaxPlans
             PROVE  TypeOK'
  OBVIOUS
<1>1. day' \in 1 .. LastDay + 1 /\ left' \in Nat /\ layer' \in Layers /\ queue' \in Seq(Symbols)
  BY BackfillAssumption DEF Ended, Layers
<1> QED BY <1>1 DEF TypeOK, Ended, config, disk, history, Steps

LEMMA PlanType ==
    ASSUME TypeOK, day \in Days, NEW next \in {"planned", "session", "endday"}, Plan(next)
    PROVE  TypeOK'
<1>1. wanted \in Seq(Symbols) /\ Elements(wanted) \in SUBSET Symbols
  BY WantedIsQueue DEF TypeOK
<1>2. /\ planned' \in [Days -> SUBSET Symbols] /\ dropped' \in [Days -> SUBSET Symbols]
      /\ settled' \in [Days -> SUBSET Symbols] /\ cut' \in [Days -> SUBSET Symbols]
      /\ hit' \subseteq Days /\ queue' \in Seq(Symbols)
  BY <1>1 DEF Plan, TypeOK
<1> QED BY <1>2 DEF Plan, TypeOK, config, command, working, disk, bounds, Steps

LEMMA RequeueType ==
    ASSUME TypeOK, pc \in {"task", "write"}, Requeue
    PROVE  queue' \in Seq(Symbols) /\ task' = NoTask /\ pc' = "save" /\ after' = "endday"
  BY DEF TypeOK, Requeue, SaveThen

(* Each action keeps the types. *)
LEMMA TypeStep == TypeOK /\ [Next]_vars => TypeOK'
<1> SUFFICES ASSUME TypeOK, [Next]_vars PROVE TypeOK'
  OBVIOUS
<1> USE DEF config, command, working, disk, history, bounds, Steps
<1>1. ASSUME NEW w \in Wanted, StartBackfill(w) PROVE TypeOK'
  BY <1>1, BackfillAssumption DEF StartBackfill, TypeOK
<1>2. ASSUME NEW d \in UpdateDays, NEW w \in Wanted, StartUpdate(d, w) PROVE TypeOK'
  <2>1. d \in Days /\ d \in 1 .. LastDay + 1
    BY BackfillAssumption DEF Days
  <2> QED BY <1>2, <2>1 DEF StartUpdate, TypeOK
<1>3. CASE PlanDay
  BY <1>3, PlanType, BackfillAssumption DEF PlanDay
<1>4. CASE Planned \/ Execute \/ Range
  <2>1. day' \in 1 .. LastDay + 1 /\ (pc' = "load" => day' \in Days)
    <3>1. LastDay \in Nat
      BY BackfillAssumption
    <3>2. CASE Planned
      <4>1. day \in Days /\ day' = day + 1 /\ pc' = "plan"
        BY <3>2 DEF Planned, TypeOK
      <4> QED BY <3>1, <4>1 DEF Days
    <3>3. CASE Execute
      BY <3>1, <3>3 DEF Execute
    <3>4. CASE Range
      <4>1. /\ day \in Days
            /\ (pc' = "load" /\ day' = day) \/ (pc' = "range" /\ day' = day + 1)
        BY <3>4 DEF Range
      <4> QED BY <3>1, <4>1 DEF Days
    <3> QED BY <1>4, <3>2, <3>3, <3>4
  <2>2. pc' \in {"plan", "range", "load"}
    BY <1>4 DEF Planned, Execute, Range
  <2>3. UNCHANGED <<config, command, queue, left, working, after, disk, data, history, bounds>>
    BY <1>4 DEF Planned, Execute, Range
  <2> QED BY <2>1, <2>2, <2>3 DEF TypeOK
<1>5. CASE PlanOnly \/ RangeEnds \/ LoadRaises \/ UpdateEnds
  <2>1. Ended /\ UNCHANGED <<config, disk, data, history, bounds>>
    BY <1>5 DEF PlanOnly, RangeEnds, LoadRaises, UpdateEnds
  <2> QED BY <2>1, EndedType DEF TypeOK
<1>6. CASE Load \/ Session
  <2>1. pc \in {"load", "session"} /\ day \in Days
    BY <1>6 DEF TypeOK, Load, Session
  <2>2. left' \in Nat /\ queue' \in Seq(Symbols)
    BY <1>6, <2>1, BackfillAssumption DEF Load, Session, TypeOK
  <2> QED BY <1>6, <2>1, <2>2 DEF Load, Session, TypeOK
<1>7. CASE LoadPlans
  <2>1. day \in Days
    BY <1>7 DEF LoadPlans, TypeOK
  <2> QED BY <1>7, <2>1, PlanType DEF LoadPlans
<1>8. CASE NextTask
  <2>1. day \in Days
    BY <1>8 DEF NextTask, TypeOK
  <2>2. CASE left = 0 \/ queue = <<>>
    BY <1>8, <2>1, <2>2 DEF NextTask, TypeOK
  <2>3. CASE left # 0 /\ queue # <<>>
    <3>1. Head(queue) \in Symbols /\ Tail(queue) \in Seq(Symbols) /\ left - 1 \in Nat
      BY <2>3, QueueProps DEF TypeOK
    <3>2. /\ settled' = [settled EXCEPT ![day] = @ \ {Head(queue)}]
          /\ gaps' = [gaps EXCEPT ![day] = @ \ {Head(queue)}]
      BY <1>8, <2>3 DEF NextTask
    <3>3. settled' \in [Days -> SUBSET Symbols]
      BY <2>1, <3>2 DEF TypeOK
    <3>4. gaps' \in [Days -> SUBSET Symbols]
      BY <2>1, <3>2 DEF TypeOK
    <3> QED BY <1>8, <2>1, <2>3, <3>1, <3>3, <3>4 DEF NextTask, TypeOK
  <2> QED BY <2>2, <2>3
<1>9. CASE StopBefore \/ FetchFails
  <2>1. pc = "task" /\ day \in Days /\ Requeue
    BY <1>9 DEF StopBefore, FetchFails, TypeOK
  <2>2. faults' \in 0 .. MaxFaults
    BY <1>9, BackfillAssumption DEF StopBefore, StopRequested, FetchFails, TypeOK
  <2> QED BY <1>9, <2>1, <2>2, RequeueType DEF StopBefore, FetchFails, TypeOK
<1>10. CASE StopRange \/ SessionRaises
  <2>1. faults' \in 0 .. MaxFaults
    BY <1>10, BackfillAssumption DEF StopRange, StopRequested, SessionRaises, TypeOK
  <2> QED BY <1>10, <2>1, EndedType DEF StopRange, SessionRaises, TypeOK
<1>11. CASE FetchNothing \/ FetchRows \/ StopWithRows \/ StopInHistory
  <2>1. pc = "task" /\ day \in Days /\ task \in Symbols
    BY <1>11 DEF FetchNothing, FetchRows, StopWithRows, StopInHistory, TypeOK
  <2>2. faults' \in 0 .. MaxFaults
    BY <1>11, BackfillAssumption
    DEF FetchNothing, FetchRows, StopWithRows, StopInHistory, StopRequested, TypeOK
  <2>3. UNCHANGED <<config, command, day, left, disk, data, plans>>
    BY <1>11 DEF FetchNothing, FetchRows, StopWithRows, StopInHistory
  <2>4. CASE FetchNothing \/ StopInHistory
    <3>1. dropped' \in [Days -> SUBSET Symbols] /\ cut' \in [Days -> SUBSET Symbols]
      BY <2>1, <2>4 DEF FetchNothing, StopInHistory, TypeOK
    <3>2. TaskGone
      BY <2>4 DEF FetchNothing, StopInHistory
    <3> QED BY <2>1, <2>2, <2>3, <3>1, <3>2 DEF TaskGone, SaveThen, TypeOK
  <2>5. ASSUME NEW c \in {"whole", "part"}, Rows(c) PROVE TypeOK'
    <3>1. layer' \in Layers
      BY <2>5 DEF Rows, Layers
    <3> QED BY <2>1, <2>2, <2>3, <2>5, <3>1 DEF Rows, TypeOK
  <2> QED BY <1>11, <2>4, <2>5 DEF FetchRows, StopWithRows
<1>12. CASE Write
  <2>1. pc = "write" /\ day \in Days /\ task \in Symbols /\ layer \in Layers
    BY <1>12 DEF Write, TypeOK
  <2>2. data' \in [Days -> [Layers -> [Symbols -> {"none", "part", "whole", "torn"}]]]
    BY <1>12, <2>1 DEF Write, TypeOK
  <2>3. CASE layer < 3
    <3>1. layer' \in Layers
      BY <1>12, <2>1, <2>3 DEF Write, Layers
    <3> QED BY <1>12, <2>1, <2>2, <2>3, <3>1 DEF Write, TypeOK
  <2>4. CASE ~(layer < 3)
    <3>1. settled' \in [Days -> SUBSET Symbols] /\ gaps' \in [Days -> SUBSET Symbols]
      BY <1>12, <2>1, <2>4 DEF Write, TypeOK
    <3> QED BY <1>12, <2>1, <2>2, <2>4, <3>1 DEF Write, SaveThen, TypeOK
  <2> QED BY <2>3, <2>4
<1>13. CASE WriteFails
  <2>1. pc = "write" /\ day \in Days /\ task \in Symbols /\ layer \in Layers
    BY <1>13 DEF WriteFails, TypeOK
  <2>2. data' \in [Days -> [Layers -> [Symbols -> {"none", "part", "whole", "torn"}]]]
    <3>1. data[day][layer][task] \in {"none", "part", "whole", "torn"}
      BY <2>1 DEF TypeOK
    <3>2. PICK v \in {"torn", data[day][layer][task]} :
              data' = [data EXCEPT ![day][layer][task] = v]
      BY <1>13 DEF WriteFails
    <3> QED BY <2>1, <3>1, <3>2 DEF TypeOK
  <2>3. faults' \in 0 .. MaxFaults
    BY <1>13, BackfillAssumption DEF WriteFails, TypeOK
  <2> QED BY <1>13, <2>1, <2>2, <2>3, RequeueType DEF WriteFails, TypeOK
<1>14. CASE Save
  <2>1. pc = "save" /\ day \in Days
    BY <1>14 DEF Save, TypeOK
  <2>2. file' \in [Days -> Seq(Symbols)] /\ exists' \subseteq Days /\ broken' \subseteq exists'
    BY <1>14, <2>1 DEF Save, TypeOK
  <2> QED BY <1>14, <2>1, <2>2 DEF Save, TypeOK
<1>15. CASE EndDay
  <2>1. day' \in 1 .. LastDay + 1 /\ left' \in Nat /\ queue' \in Seq(Symbols)
    BY <1>15, BackfillAssumption DEF EndDay, TypeOK, Days
  <2> QED BY <1>15, <2>1 DEF EndDay, TypeOK
<1>16. CASE Crash
  <2>1. faults' \in 0 .. MaxFaults
    BY <1>16, BackfillAssumption DEF Crash, TypeOK
  <2>2. /\ file' \in [Days -> Seq(Symbols)] /\ exists' \subseteq Days
        /\ broken' \subseteq exists' /\ hit' \subseteq Days
    <3>1. CASE pc # "save"
      BY <1>16, <3>1 DEF Crash, TypeOK
    <3>2. CASE pc = "save"
      <4>1. \A n \in 0 .. Len(queue) : SubSeq(queue, 1, n) \in Seq(Symbols)
        BY DEF TypeOK
      <4>2. day \in Days /\ file \in [Days -> Seq(Symbols)]
        BY <3>2 DEF TypeOK
      <4>3. exists' = exists \cup {day} /\ broken' \subseteq broken \cup {day} /\ hit' = hit \cup {day}
            /\ \E n \in 0 .. Len(queue) : file' = [file EXCEPT ![day] = SubSeq(queue, 1, n)]
        BY <1>16, <3>2 DEF Crash
      <4>4. file' \in [Days -> Seq(Symbols)]
        BY <4>1, <4>2, <4>3
      <4> QED BY <4>2, <4>3, <4>4 DEF TypeOK
    <3> QED BY <3>1, <3>2
  <2>3. data' \in [Days -> [Layers -> [Symbols -> {"none", "part", "whole", "torn"}]]]
    <3>1. CASE pc # "write"
      BY <1>16, <3>1 DEF Crash, TypeOK
    <3>2. CASE pc = "write"
      <4>1. day \in Days /\ task \in Symbols /\ layer \in Layers
        BY <3>2 DEF TypeOK
      <4>2. data[day][layer][task] \in {"none", "part", "whole", "torn"}
        BY <4>1 DEF TypeOK
      <4>3. PICK v \in {"torn", data[day][layer][task]} :
                data' = [data EXCEPT ![day][layer][task] = v]
        BY <1>16, <3>2 DEF Crash
      <4> QED BY <4>1, <4>2, <4>3 DEF TypeOK
    <3> QED BY <3>1, <3>2
  <2>4. /\ day' \in 1 .. LastDay + 1 /\ left' \in Nat /\ layer' \in Layers
        /\ queue' \in Seq(Symbols)
    BY <1>16, BackfillAssumption DEF Crash, Ended, Layers
  <2> QED BY <1>16, <2>1, <2>2, <2>3, <2>4 DEF Crash, Ended, TypeOK
<1>17. CASE UNCHANGED vars
  BY <1>17 DEF vars, TypeOK
<1> QED
  BY <1>1, <1>2, <1>3, <1>4, <1>5, <1>6, <1>7, <1>8, <1>9, <1>10, <1>11, <1>12, <1>13, <1>14,
     <1>15, <1>16, <1>17 DEF Next, GoesOn

(* The variables of the planner, the runner and their queue files always    *)
(* have their types.                                                        *)
THEOREM TypeCorrect == Spec => []TypeOK
<1>1. Init => TypeOK
  <2> SUFFICES ASSUME Init PROVE TypeOK
    OBVIOUS
  <2>1. 1 \in 1 .. LastDay + 1 /\ 1 \in Layers /\ 0 \in 0 .. MaxFaults /\ 0 \in 0 .. MaxPlans
    BY BackfillAssumption DEF Layers
  <2>2. file \in [Days -> Seq(Symbols)] /\ queue \in Seq(Symbols)
    BY DEF Init
  <2>3. data \in [Days -> [Layers -> [Symbols -> {"none", "part", "whole", "torn"}]]]
    BY DEF Init
  <2>4. /\ planned \in [Days -> SUBSET Symbols] /\ settled \in [Days -> SUBSET Symbols]
        /\ gaps \in [Days -> SUBSET Symbols] /\ dropped \in [Days -> SUBSET Symbols]
        /\ cut \in [Days -> SUBSET Symbols]
    BY DEF Init
  <2> QED BY <2>1, <2>2, <2>3, <2>4 DEF Init, TypeOK, Steps
<1> QED BY <1>1, TypeStep, PTL DEF Spec
-------------------------------------------------------------------------------
(* A task that is put back, dropped or settled stays accounted for while the *)
(* queue waits to be saved.                                                  *)
LEMMA TaskAccounted ==
    ASSUME TypeOK, QueueInv, pc \in {"task", "write"}, pc' = "save",
           UNCHANGED <<day, file, planned, hit>>,
           Elements(queue) \subseteq Elements(queue'),
           \A d \in Days : /\ settled[d] \subseteq settled'[d] /\ dropped[d] \subseteq dropped'[d]
                          /\ cut[d] \subseteq cut'[d],
           task \in Elements(queue') \cup settled'[day] \cup dropped'[day] \cup cut'[day]
    PROVE  QueueInv'
<1>1. day \in Days
  BY DEF TypeOK
<1>2. NothingForgotten'
  BY DEF QueueInv, NothingForgotten
<1>3. FileIsQueue'
  BY DEF FileIsQueue
<1>4. SaveCovers'
  <2>1. SUFFICES ASSUME day \notin hit, NEW s \in planned[day]
                 PROVE  s \in Elements(queue') \cup settled'[day] \cup dropped'[day] \cup cut'[day]
    BY DEF SaveCovers
  <2>2. s \in Elements(file[day]) \cup settled[day] \cup dropped[day] \cup cut[day]
    BY <1>1, <2>1 DEF QueueInv, NothingForgotten
  <2>3. Elements(file[day]) = Elements(queue) \cup {task}
    BY DEF QueueInv, FileIsQueue
  <2> QED BY <1>1, <2>2, <2>3
<1> QED BY <1>2, <1>3, <1>4 DEF QueueInv

LEMMA RequeueAccounted ==
    ASSUME TypeOK, QueueInv, pc \in {"task", "write"}, Requeue, UNCHANGED <<day, file, history>>
    PROVE  QueueInv'
<1>1. Elements(queue') = Elements(queue) \cup {task}
  BY QueueProps DEF Requeue, TypeOK
<1> QED BY <1>1, TaskAccounted DEF Requeue, SaveThen, history

(* A plan writes its whole queue. *)
LEMMA PlanAccounted ==
    ASSUME TypeOK, QueueInv, day \in Days, pc \in {"plan", "load"}, NEW next, Plan(next)
    PROVE  QueueInv'
<1>1. /\ planned' = [planned EXCEPT ![day] = Elements(wanted)]
      /\ dropped' = [dropped EXCEPT ![day] = {}] /\ cut' = [cut EXCEPT ![day] = {}]
      /\ settled' = [settled EXCEPT ![day] = @ \ Elements(wanted)]
      /\ hit' = hit \ {day} /\ queue' = wanted /\ pc' = "save" /\ day' = day /\ file' = file
  BY DEF Plan, command, disk
<1>2. NothingForgotten'
  BY <1>1 DEF QueueInv, NothingForgotten, TypeOK
<1>3. FileIsQueue' /\ SaveCovers'
  BY <1>1 DEF FileIsQueue, SaveCovers, TypeOK
<1> QED BY <1>2, <1>3 DEF QueueInv

(* Steps that leave the files and the record of the day alone. *)
LEMMA QueueQuiet ==
    ASSUME TypeOK, QueueInv, pc # "save", UNCHANGED <<file, history>>,
           \/ pc' \notin {"session", "next", "task", "write", "save"}
           \/ pc' = "write" /\ pc = "task" /\ UNCHANGED <<day, queue, task>>
           \/ pc' = "next" /\ pc = "session" /\ UNCHANGED <<day, queue>>
    PROVE  QueueInv'
<1>1. NothingForgotten'
  BY DEF QueueInv, NothingForgotten, history
<1>2. FileIsQueue'
  BY DEF QueueInv, FileIsQueue
<1>3. SaveCovers'
  BY DEF SaveCovers
<1> QED BY <1>1, <1>2, <1>3 DEF QueueInv

(* The cases are the places where the queue file and the queue may part: the *)
(* pop of a task, the save, and a crash inside it.                           *)
LEMMA QueueStep == TypeOK /\ QueueInv /\ [Next]_vars => QueueInv'
<1> SUFFICES ASSUME TypeOK, QueueInv, [Next]_vars PROVE QueueInv'
  OBVIOUS
<1> USE DEF config, command, working, disk, history, bounds
<1>1. CASE \/ \E w \in Wanted : StartBackfill(w) \/ \E d \in UpdateDays : StartUpdate(d, w)
           \/ Planned \/ Execute \/ PlanOnly \/ Range \/ RangeEnds \/ LoadRaises \/ EndDay
           \/ UpdateEnds \/ SessionRaises \/ StopRange
  BY <1>1, QueueQuiet
  DEF StartBackfill, StartUpdate, Planned, Execute, PlanOnly, Range, RangeEnds, LoadRaises,
      EndDay, UpdateEnds, SessionRaises, StopRange, Ended
<1>2. CASE PlanDay \/ LoadPlans
  <2>1. day \in Days
    BY <1>2, BackfillAssumption DEF PlanDay, LoadPlans, TypeOK
  <2> QED BY <1>2, <2>1, PlanAccounted DEF PlanDay, LoadPlans
<1>3. CASE Load
  <2>1. NothingForgotten'
    BY <1>3 DEF Load, QueueInv, NothingForgotten
  <2>2. FileIsQueue' /\ SaveCovers'
    BY <1>3 DEF Load, FileIsQueue, SaveCovers
  <2> QED BY <2>1, <2>2 DEF QueueInv
<1>4. CASE Session
  BY <1>4, QueueQuiet DEF Session
<1>5. CASE NextTask
  <2>1. pc = "next" /\ day \in Days /\ UNCHANGED <<day, file, planned, dropped, cut, hit>>
    BY <1>5 DEF NextTask, TypeOK
  <2>2. Elements(file[day]) = Elements(queue)
    BY <2>1 DEF QueueInv, FileIsQueue
  <2>3. CASE left = 0 \/ queue = <<>>
    BY <1>5, <2>1, <2>3, QueueQuiet DEF NextTask
  <2>4. CASE left # 0 /\ queue # <<>>
    <3>1. /\ task' = Head(queue) /\ queue' = Tail(queue) /\ pc' = "task"
          /\ settled' = [settled EXCEPT ![day] = @ \ {Head(queue)}]
      BY <1>5, <2>4 DEF NextTask
    <3>2. Elements(queue) = Elements(queue') \cup {task'}
      BY <3>1, <2>4, QueueProps DEF TypeOK
    <3>3. \A d \in Days : settled[d] \subseteq settled'[d] \cup (IF d = day THEN {task'} ELSE {})
      BY <3>1 DEF TypeOK
    <3>4. NothingForgotten'
      BY <2>1, <2>2, <3>1, <3>2, <3>3 DEF QueueInv, NothingForgotten
    <3>5. FileIsQueue' /\ SaveCovers'
      BY <2>1, <2>2, <3>1, <3>2 DEF FileIsQueue, SaveCovers
    <3> QED BY <3>4, <3>5 DEF QueueInv
  <2> QED BY <2>3, <2>4
<1>6. CASE StopBefore \/ FetchFails \/ WriteFails
  BY <1>6, RequeueAccounted DEF StopBefore, FetchFails, WriteFails
<1>7. CASE FetchNothing \/ FetchRows \/ StopWithRows \/ StopInHistory
  <2>1. pc = "task" /\ day \in Days /\ UNCHANGED <<day, file>>
    BY <1>7 DEF FetchNothing, FetchRows, StopWithRows, StopInHistory, TypeOK
  <2>2. CASE FetchNothing \/ StopInHistory
    <3>1. /\ pc' = "save" /\ UNCHANGED <<planned, hit, settled, queue>>
          /\ \/ dropped' = [dropped EXCEPT ![day] = @ \cup {task}] /\ cut' = cut
             \/ cut' = [cut EXCEPT ![day] = @ \cup {task}] /\ dropped' = dropped
      BY <2>2 DEF FetchNothing, StopInHistory, TaskGone, SaveThen
    <3>2. /\ task \in dropped'[day] \cup cut'[day]
          /\ \A d \in Days : dropped[d] \subseteq dropped'[d] /\ cut[d] \subseteq cut'[d]
      BY <2>1, <3>1 DEF TypeOK
    <3> QED BY <2>1, <3>1, <3>2, TaskAccounted
  <2>3. CASE \E c \in {"whole", "part"} : Rows(c)
    BY <2>1, <2>3, QueueQuiet DEF Rows
  <2> QED BY <1>7, <2>2, <2>3 DEF FetchRows, StopWithRows
<1>8. CASE Write
  <2>1. /\ pc = "write" /\ day \in Days
        /\ UNCHANGED <<day, file, queue, planned, dropped, cut, hit>>
    BY <1>8 DEF Write, TypeOK
  <2>2. CASE layer < 3
    <3>1. UNCHANGED <<pc, task, settled>>
      BY <1>8, <2>2 DEF Write
    <3> QED BY <2>1, <3>1 DEF QueueInv, NothingForgotten, FileIsQueue, SaveCovers
  <2>3. CASE ~(layer < 3)
    <3>1. pc' = "save" /\ settled' = [settled EXCEPT ![day] = @ \cup {task}]
      BY <1>8, <2>3 DEF Write, SaveThen
    <3>2. /\ task \in settled'[day]
          /\ \A d \in Days : settled[d] \subseteq settled'[d]
      BY <2>1, <3>1 DEF TypeOK
    <3> QED BY <2>1, <3>1, <3>2, TaskAccounted
  <2> QED BY <2>2, <2>3
<1>9. CASE Save
  <2>1. /\ pc = "save" /\ day \in Days /\ pc' = after /\ UNCHANGED <<day, queue, history>>
        /\ file' = [file EXCEPT ![day] = queue] /\ after \in {"planned", "session", "next", "endday"}
    BY <1>9 DEF Save, TypeOK
  <2>2. NothingForgotten'
    <3> SUFFICES ASSUME NEW d \in Days, NEW s \in planned[d], d \notin hit
                 PROVE  s \in Elements(file'[d]) \cup settled[d] \cup dropped[d] \cup cut[d]
      BY <2>1 DEF NothingForgotten
    <3>1. CASE d = day
      BY <2>1, <3>1 DEF QueueInv, SaveCovers, TypeOK
    <3>2. CASE d # day
      BY <2>1, <3>2 DEF QueueInv, NothingForgotten, TypeOK
    <3> QED BY <3>1, <3>2
  <2>3. FileIsQueue' /\ SaveCovers'
    BY <2>1 DEF FileIsQueue, SaveCovers, TypeOK
  <2> QED BY <2>2, <2>3 DEF QueueInv
<1>10. CASE Crash
  <2>1. pc' = "down" /\ UNCHANGED <<planned, settled, dropped, cut>>
    BY <1>10 DEF Crash, Ended
  <2>2. NothingForgotten'
    <3>1. CASE pc # "save"
      BY <1>10, <2>1, <3>1 DEF Crash, QueueInv, NothingForgotten
    <3>2. CASE pc = "save"
      <4>1. day \in Days /\ hit' = hit \cup {day} /\ \A d \in Days : d # day => file'[d] = file[d]
        BY <1>10, <3>2 DEF Crash, TypeOK
      <4> QED BY <2>1, <3>2, <4>1 DEF QueueInv, NothingForgotten
    <3> QED BY <3>1, <3>2
  <2>3. FileIsQueue' /\ SaveCovers'
    BY <2>1 DEF FileIsQueue, SaveCovers
  <2> QED BY <2>2, <2>3 DEF QueueInv
<1>11. CASE UNCHANGED vars
  BY <1>11 DEF vars, QueueInv, NothingForgotten, FileIsQueue, SaveCovers
<1> QED
  BY <1>1, <1>2, <1>3, <1>4, <1>5, <1>6, <1>7, <1>8, <1>9, <1>10, <1>11 DEF Next, GoesOn

(* A task of the last plan is in the queue file until it is settled or came *)
(* back with nothing; only a crash inside save and a stop inside its own    *)
(* history, before any row, lose one.                                       *)
THEOREM NoTaskForgotten == Spec => []NothingForgotten
<1>1. Init => QueueInv
  BY DEF Init, QueueInv, NothingForgotten, FileIsQueue, SaveCovers
<1>2. QueueInv => NothingForgotten
  BY DEF QueueInv
<1> QED BY <1>1, <1>2, QueueStep, TypeCorrect, PTL DEF Spec
-------------------------------------------------------------------------------
(* Steps that write no partition and settle nothing. *)
LEMMA LayersQuiet ==
    ASSUME TypeOK, LayerInv, UNCHANGED <<data, settled, gaps>>,
           \/ pc' \notin {"task", "write"}
           \/ pc = "task" /\ pc' = "write" /\ layer' = 1 /\ UNCHANGED <<day, task>>
    PROVE  LayerInv'
<1>1. SettledIsWhole'
  BY DEF LayerInv, SettledIsWhole
<1>2. LayersInOrder'
  BY DEF LayerInv, LayersInOrder, Layers
<1> QED BY <1>1, <1>2 DEF LayerInv

(* A plan opens its symbols again. *)
LEMMA PlanOpens ==
    ASSUME TypeOK, LayerInv, day \in Days, NEW next, Plan(next)
    PROVE  LayerInv'
<1>1. /\ settled' = [settled EXCEPT ![day] = @ \ Elements(wanted)]
      /\ pc' = "save" /\ UNCHANGED <<data, gaps>>
  BY DEF Plan
<1>2. \A d \in Days : settled'[d] \subseteq settled[d]
  BY <1>1 DEF TypeOK
<1> QED BY <1>1, <1>2 DEF LayerInv, SettledIsWhole, LayersInOrder

(* What happens to the partition under way concerns no settled symbol. *)
LEMMA OpenPartition ==
    ASSUME TypeOK, LayerInv, pc = "write", NEW v,
           data' = [data EXCEPT ![day][layer][task] = v], UNCHANGED <<settled, gaps>>
    PROVE  SettledIsWhole'
<1>1. day \in Days /\ task \in Symbols /\ task \notin settled[day]
  BY DEF TypeOK, LayerInv, LayersInOrder
<1>2. SUFFICES ASSUME NEW d \in Days, NEW s \in settled[d], NEW l \in Layers
               PROVE  data'[d][l][s] = IF s \in gaps[d] THEN "part" ELSE "whole"
  BY DEF SettledIsWhole
<1>3. data'[d][l][s] = data[d][l][s]
  <2>1. s \in Symbols /\ (d # day \/ s # task)
    BY <1>1, <1>2 DEF TypeOK
  <2> QED BY <1>1, <2>1 DEF TypeOK
<1> QED BY <1>3 DEF LayerInv, SettledIsWhole

(* Only the last write settles a symbol, and by then it has written them all. *)
LEMMA LayerStep == TypeOK /\ LayerInv /\ [Next]_vars => LayerInv'
<1> SUFFICES ASSUME TypeOK, LayerInv, [Next]_vars PROVE LayerInv'
  OBVIOUS
<1> USE DEF config, command, working, disk, history, bounds
<1>1. CASE \/ \E w \in Wanted : StartBackfill(w) \/ \E d \in UpdateDays : StartUpdate(d, w)
           \/ Planned \/ Execute \/ PlanOnly \/ Range \/ RangeEnds \/ LoadRaises \/ EndDay
           \/ UpdateEnds \/ SessionRaises \/ StopRange \/ Load \/ Session
  BY <1>1, LayersQuiet
  DEF StartBackfill, StartUpdate, Planned, Execute, PlanOnly, Range, RangeEnds, LoadRaises,
      EndDay, UpdateEnds, SessionRaises, StopRange, Load, Session, Ended
<1>2. CASE PlanDay \/ LoadPlans
  <2>1. day \in Days
    BY <1>2, BackfillAssumption DEF PlanDay, LoadPlans, TypeOK
  <2> QED BY <1>2, <2>1, PlanOpens DEF PlanDay, LoadPlans
<1>3. CASE NextTask
  <2>1. pc = "next" /\ day \in Days /\ UNCHANGED <<day, data>>
    BY <1>3 DEF NextTask, TypeOK
  <2>2. CASE left = 0 \/ queue = <<>>
    BY <1>3, <2>2, LayersQuiet DEF NextTask
  <2>3. CASE left # 0 /\ queue # <<>>
    <3>1. /\ task' = Head(queue) /\ pc' = "task"
          /\ settled' = [settled EXCEPT ![day] = @ \ {task'}]
          /\ gaps' = [gaps EXCEPT ![day] = @ \ {task'}]
      BY <1>3, <2>3 DEF NextTask
    <3>2. \A d \in Days : /\ settled'[d] = settled[d] \ (IF d = day THEN {task'} ELSE {})
                          /\ gaps'[d] = gaps[d] \ (IF d = day THEN {task'} ELSE {})
      BY <2>1, <3>1 DEF TypeOK
    <3>3. SettledIsWhole'
      BY <2>1, <3>2 DEF LayerInv, SettledIsWhole
    <3>4. LayersInOrder'
      BY <2>1, <3>1, <3>2 DEF LayersInOrder
    <3> QED BY <3>3, <3>4 DEF LayerInv
  <2> QED BY <2>2, <2>3
<1>4. CASE \/ StopBefore \/ FetchFails \/ FetchNothing \/ FetchRows \/ StopWithRows \/ StopInHistory
           \/ Save
  <2>1. UNCHANGED <<data, settled, gaps, day>>
    BY <1>4 DEF StopBefore, FetchFails, FetchNothing, FetchRows, StopWithRows, StopInHistory, Save,
                TaskGone, Rows
  <2>2. \/ pc' \notin {"task", "write"}
        \/ pc = "task" /\ pc' = "write" /\ layer' = 1 /\ UNCHANGED task
    BY <1>4 DEF StopBefore, FetchFails, FetchNothing, FetchRows, StopWithRows, StopInHistory, Save,
                TaskGone, Rows, Requeue, SaveThen, TypeOK
  <2> QED BY <2>1, <2>2, LayersQuiet
<1>5. CASE Write
  <2>1. /\ pc = "write" /\ day \in Days /\ task \in Symbols /\ layer \in Layers /\ day' = day
        /\ data' = [data EXCEPT ![day][layer][task] = content]
    BY <1>5 DEF Write, TypeOK
  <2>2. \A l \in Layers : l <= layer => data'[day][l][task] = content
    <3> SUFFICES ASSUME NEW l \in Layers, l <= layer PROVE data'[day][l][task] = content
      OBVIOUS
    <3>1. CASE l = layer
      BY <2>1, <3>1 DEF TypeOK
    <3>2. CASE l < layer
      BY <2>1, <3>2 DEF TypeOK, LayerInv, LayersInOrder
    <3> QED BY <2>1, <3>1, <3>2 DEF Layers
  <2>3. CASE layer < 3
    <3>1. layer' = layer + 1 /\ UNCHANGED <<pc, task, settled, gaps, content>>
      BY <1>5, <2>3 DEF Write
    <3>2. SettledIsWhole'
      BY <2>1, <3>1, OpenPartition
    <3>3. \A l \in Layers : l < layer + 1 => l <= layer
      BY <2>1 DEF Layers
    <3>4. LayersInOrder'
      BY <2>1, <2>2, <3>1, <3>3 DEF LayerInv, LayersInOrder
    <3> QED BY <3>2, <3>4 DEF LayerInv
  <2>4. CASE ~(layer < 3)
    <3>1. /\ pc' = "save" /\ settled' = [settled EXCEPT ![day] = @ \cup {task}]
          /\ gaps' = [gaps EXCEPT ![day] = IF content = "part" THEN @ \cup {task} ELSE @]
      BY <1>5, <2>4 DEF Write, SaveThen
    <3>2. SettledIsWhole'
      <4> SUFFICES ASSUME NEW d \in Days, NEW s \in settled'[d], NEW l \in Layers
                   PROVE  data'[d][l][s] = IF s \in gaps'[d] THEN "part" ELSE "whole"
        BY DEF SettledIsWhole
      <4>1. CASE d = day /\ s = task
        <5>1. l <= layer
          BY <2>1, <2>4 DEF Layers
        <5>2. data'[d][l][s] = content /\ content \in {"whole", "part"}
          BY <2>2, <4>1, <5>1 DEF TypeOK
        <5>3. s \in gaps'[d] <=> content = "part"
          BY <2>1, <3>1, <4>1 DEF TypeOK, LayerInv, LayersInOrder
        <5> QED BY <5>2, <5>3
      <4>2. CASE ~(d = day /\ s = task)
        <5>1. s \in settled[d] /\ (s \in gaps'[d] <=> s \in gaps[d])
          BY <2>1, <3>1, <4>2 DEF TypeOK
        <5>2. s \in Symbols
          BY <5>1 DEF TypeOK
        <5>3. data'[d][l][s] = data[d][l][s]
          BY <2>1, <4>2, <5>2 DEF TypeOK
        <5> QED BY <5>1, <5>3 DEF LayerInv, SettledIsWhole
      <4> QED BY <4>1, <4>2
    <3> QED BY <3>1, <3>2 DEF LayerInv, LayersInOrder
  <2> QED BY <2>3, <2>4
<1>6. CASE WriteFails
  <2>1. pc = "write" /\ pc' = "save" /\ UNCHANGED <<settled, gaps>>
    BY <1>6 DEF WriteFails, Requeue, SaveThen
  <2>2. SettledIsWhole'
    BY <1>6, <2>1, OpenPartition DEF WriteFails
  <2> QED BY <2>1, <2>2 DEF LayerInv, LayersInOrder
<1>7. CASE Crash
  <2>1. pc' = "down" /\ UNCHANGED <<settled, gaps>>
    BY <1>7 DEF Crash, Ended
  <2>2. CASE pc # "write"
    BY <1>7, <2>1, <2>2, LayersQuiet DEF Crash
  <2>3. CASE pc = "write"
    <3>1. SettledIsWhole'
      BY <1>7, <2>1, <2>3, OpenPartition DEF Crash
    <3> QED BY <2>1, <3>1 DEF LayerInv, LayersInOrder
  <2> QED BY <2>2, <2>3
<1>8. CASE UNCHANGED vars
  BY <1>8 DEF vars, LayerInv, SettledIsWhole, LayersInOrder
<1> QED
  BY <1>1, <1>2, <1>3, <1>4, <1>5, <1>6, <1>7, <1>8 DEF Next, GoesOn

(* The three layers of a processed symbol agree, and say whether contracts *)
(* were passed over.                                                       *)
THEOREM ProcessedIsWhole == Spec => []SettledIsWhole
<1>1. Init => LayerInv
  BY DEF Init, LayerInv, SettledIsWhole, LayersInOrder
<1>2. LayerInv => SettledIsWhole
  BY DEF LayerInv
<1> QED BY <1>1, <1>2, LayerStep, TypeCorrect, PTL DEF Spec
===============================================================================
