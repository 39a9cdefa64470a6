------------------------- MODULE DailyPipelineProofs -------------------------
(***************************************************************************)
(* The theorems of DailyPipeline, for any number of jobs, underlyings,     *)
(* contracts and slots: what rollup and enrichment leave in daily_clean,   *)
(* daily_adjusted and the enrichment view of an underlying on which no two *)
(* jobs overlapped and none stopped half-way.                              *)
(***************************************************************************)
EXTENDS DailyPipeline, FiniteSetTheorems, WellFoundedInduction, TLAPS

USE DailyAssumption

(* What a job knows about its work. *)
JobState == [pc : {"idle"} \cup Rolling \cup Enriching, view : Views,
             slots : Nat \X Nat, force : BOOLEAN, todo : SUBSET Symbols,
             cur : SUBSET Symbols, part : Part, df : Frame,
             hits : SUBSET Conids, alone : BOOLEAN]

Between == {"idle", "roll", "enrich"}

(* A job has one partition open while it works on it and none between two,  *)
(* and does not come back to it.                                            *)
OnePartition(j) ==
    /\ job[j].cur = {} <=> job[j].pc \in Between
    /\ \A s, t \in job[j].cur : s = t
    /\ job[j].cur \cap job[j].todo = {}

FilesType ==
    /\ snap \in [Views -> [Symbols -> Part]]
    /\ daily \in [Symbols -> Frame] /\ adjusted \in [Symbols -> Frame]
    /\ log \in [Symbols -> [Conids -> Nat]] /\ base \in [Symbols -> [Conids -> Nat]]
    /\ seen \in [Symbols -> [close : Nat, part : Part]]
    /\ clock \in 0 .. MaxClock
    /\ spoiled \subseteq Symbols
JobsType ==
    /\ job \in [Jobs -> JobState]
    /\ \A j \in Jobs : OnePartition(j)
    /\ starts \in 0 .. MaxStarts
Typed == FilesType /\ JobsType

-------------------------------------------------------------------------------
(* A bounded set of numbers has a greatest element: the last row of a      *)
(* contract (_select_rows) exists.                                         *)
Smaller == {p \in Nat \X Nat : p[1] < p[2]}

(* No sequence of numbers descends for ever: the sets of smaller numbers are *)
(* finite and would be ever smaller subsets.                                 *)
LEMMA SmallerWellFounded == IsWellFoundedOn(Smaller, Nat)
<1> SUFFICES ASSUME NEW f \in [Nat -> Nat], \A n \in Nat : <<f[n + 1], f[n]>> \in Smaller
             PROVE  FALSE
  BY DEF IsWellFoundedOn
<1> DEFINE g == [n \in Nat |-> 1 .. f[n]]
<1>1. g \in [Nat -> FiniteSubsetsOf(Nat)]
  <2> SUFFICES ASSUME NEW n \in Nat PROVE 1 .. f[n] \in FiniteSubsetsOf(Nat)
    OBVIOUS
  <2>1. f[n] \in Int /\ 1 \in Int /\ 1 .. f[n] \subseteq Nat
    OBVIOUS
  <2>2. IsFiniteSet(1 .. f[n])
    BY <2>1, FS_Interval
  <2> QED BY <2>1, <2>2 DEF FiniteSubsetsOf
<1>2. ASSUME NEW n \in Nat PROVE <<g[n + 1], g[n]>> \in StrictSubsetOrdering(Nat)
  <2>1. f[n + 1] < f[n] /\ f[n + 1] \in Nat /\ f[n] \in Nat
    BY DEF Smaller
  <2>2. 1 .. f[n + 1] \subseteq 1 .. f[n] /\ f[n] \in 1 .. f[n] /\ f[n] \notin 1 .. f[n + 1]
    BY <2>1
  <2>3. g[n + 1] = 1 .. f[n + 1] /\ g[n] = 1 .. f[n]
    OBVIOUS
  <2> HIDE DEF g
  <2>4. g[n + 1] \in SUBSET Nat /\ g[n] \in SUBSET Nat
    <3>1. 1 .. f[n + 1] \subseteq Nat /\ 1 .. f[n] \subseteq Nat
      BY <2>1
    <3>2. QED BY <2>3, <3>1
  <2>5. g[n + 1] \subseteq g[n] /\ g[n + 1] # g[n]
    BY <2>2, <2>3
  <2>6. \A A, B \in SUBSET Nat : A \subseteq B /\ A # B => <<A, B>> \in StrictSubsetOrdering(Nat)
    BY DEF StrictSubsetOrdering
  <2> QED BY <2>4, <2>5, <2>6, Zenon
<1>3. IsWellFoundedOn(StrictSubsetOrdering(Nat), FiniteSubsetsOf(Nat))
  BY FS_StrictSubsetOrderingWellFounded
<1> QED BY <1>1, <1>2, <1>3 DEF IsWellFoundedOn

LEMMA LeastExists ==
    ASSUME NEW T \in SUBSET Nat, T # {}
    PROVE  \E x \in T : \A y \in T : x <= y
<1>1. PICK x \in T : \A y \in T : <<y, x>> \notin Smaller
  BY SmallerWellFounded, WFMin, Zenon
<1>2. \A y \in T : <<y, x>> \in Nat \X Nat /\ ~(y < x)
  BY <1>1 DEF Smaller
<1>3. ASSUME NEW y \in T PROVE x <= y
  <2>1. x \in Nat /\ y \in Nat
    OBVIOUS
  <2>2. ~(y < x)
    BY <1>2
  <2> QED BY <2>1, <2>2
<1> QED BY <1>3

LEMMA GreatestExists ==
    ASSUME NEW n \in Nat, NEW T \in SUBSET (0 .. n), T # {}
    PROVE  \E x \in T : \A y \in T : y <= x
<1> DEFINE D == {k \in 0 .. n : n - k \in T}
<1>1. D \in SUBSET Nat /\ D # {}
  <2>1. PICK y \in T : TRUE
    OBVIOUS
  <2>2. n - y \in 0 .. n /\ n - (n - y) = y
    OBVIOUS
  <2>3. n - y \in D
    BY <2>1, <2>2
  <2>4. D \subseteq Nat
    OBVIOUS
  <2> HIDE DEF D
  <2> QED BY <2>3, <2>4
<1>2. PICK k \in D : \A j \in D : k <= j
  <2> HIDE DEF D
  <2> QED BY <1>1, LeastExists
<1>3. n - k \in T
  OBVIOUS
<1>4. ASSUME NEW y \in T PROVE y <= n - k
  <2>1. n - y \in 0 .. n /\ n - (n - y) = y
    OBVIOUS
  <2>2. n - y \in D
    BY <2>1
  <2>3. k <= n - y /\ k \in 0 .. n
    BY <1>2, <2>2
  <2> QED BY <2>3
<1> QED BY <1>3, <1>4

-------------------------------------------------------------------------------
(* _select_rows on the rows of one contract: a row exactly when there is a   *)
(* good one, one of the good ones, the close slot first.                     *)
LEMMA SelectedRow ==
  ASSUME NEW view \in Views, NEW slots \in Nat \X Nat, NEW part \in Part, NEW c \in Conids
  PROVE  LET row  == Selected(view, slots, part, c)
             good == Good(part, c)
         IN /\ row \in DayRow \cup {NoRow}
            /\ row = NoRow <=> good = {}
            /\ row # NoRow => /\ row.slot \in good
                              /\ slots[1] \in good => row.slot = slots[1]
                              /\ row.ver = part[c][row.slot].ver
                              /\ "oi_enriched" \notin row.flags
  <1> DEFINE good == Good(part, c)
             row  == Selected(view, slots, part, c)
             top  == CHOOSE k \in good : \A l \in good : l <= k
             slot == IF slots[1] \in good THEN slots[1]
                     ELSE IF slots[2] \in good THEN slots[2] ELSE top
             strategy == IF slot = slots[1] THEN "close"
                         ELSE IF slot = slots[2] THEN "slot_1530" ELSE "last_good"
             flags == (IF part[c][slot].oi = Missing THEN {"missing_oi"} ELSE {})
                      \cup (IF view = "close" THEN {"delayed_fallback"}
                            ELSE {"fallback_intraday"})
  <1>1. good \subseteq Slots /\ \A k \in good : part[c][k] \in SnapRow
    BY DEF Good, Part
  <1>2. CASE good = {}
    BY <1>2, NoRowAssumption DEF Selected
  <1>3. CASE good # {}
    <2>1. \E k \in good : \A l \in good : l <= k
      BY <1>1, <1>3, GreatestExists
    <2>2. top \in good
      BY <2>1
    <2>3. slot \in good
      BY <2>2
    <2>4. row = [slot |-> slot, ver |-> part[c][slot].ver, strategy |-> strategy,
                 view |-> view, oi |-> part[c][slot].oi, flags |-> flags]
      BY <1>3 DEF Selected
    <2>5. /\ slot \in Slots /\ part[c][slot].ver \in 1 .. MaxClock /\ part[c][slot].oi \in OI
          /\ view \in Views /\ strategy \in {"close", "slot_1530", "last_good"}
      BY <1>1, <2>3 DEF SnapRow
    <2>6. flags \in SUBSET Flags /\ "oi_enriched" \notin flags
      BY DEF Flags
    <2>7. row \in DayRow
      <3> HIDE DEF slot, strategy, flags, row
      <3>1. QED
        BY <2>4, <2>5, <2>6 DEF DayRow
    <2>8. slots[1] \in good => slot = slots[1]
      OBVIOUS
    <2>9. row.slot = slot /\ row.ver = part[c][slot].ver /\ row.flags = flags
      <3> HIDE DEF slot, strategy, flags, row
      <3>1. QED
        BY <2>4
    <2>10. /\ row \in DayRow \cup {NoRow}
           /\ row = NoRow <=> good = {}
           /\ row # NoRow => /\ row.slot \in good
                             /\ slots[1] \in good => row.slot = slots[1]
                             /\ row.ver = part[c][row.slot].ver
                             /\ "oi_enriched" \notin row.flags
      <3> HIDE DEF slot, strategy, flags, row, good
      <3>1. QED
        BY <1>3, <2>3, <2>6, <2>7, <2>8, <2>9, NoRowAssumption
    <2>11. QED
      BY <2>10
  <1>4. QED
    BY <1>2, <1>3

LEMMA SelectedFrameType ==
  ASSUME NEW view \in Views, NEW slots \in Nat \X Nat, NEW part \in Part
  PROVE  [c \in Conids |-> Selected(view, slots, part, c)] \in Frame
  <1>1. \A c \in Conids : Selected(view, slots, part, c) \in DayRow \cup {NoRow}
    BY SelectedRow
  <1>2. QED
    BY <1>1 DEF Frame

(* A row that was asked for again is a row, of the same slot and capture. *)
LEMMA EnrichedRow ==
  ASSUME NEW row \in DayRow, NEW force \in BOOLEAN
  PROVE  /\ Enriched(row, force) \in DayRow
         /\ Enriched(row, force).slot = row.slot /\ Enriched(row, force).ver = row.ver
         /\ Enriched(row, force).oi # Missing
         /\ "oi_enriched" \in Enriched(row, force).flags
         /\ force /\ row.oi # Missing => "oi_overwritten" \in Enriched(row, force).flags
  <1> DEFINE flags == {"list_as_text", "oi_enriched"}
                      \cup IF force /\ row.oi # Missing THEN {"oi_overwritten"} ELSE {}
  <1>1. Enriched(row, force) = [row EXCEPT !.oi = 1, !.flags = flags]
    BY DEF Enriched
  <1>2. /\ flags \in SUBSET Flags /\ "oi_enriched" \in flags
        /\ force /\ row.oi # Missing => "oi_overwritten" \in flags
    BY DEF Flags
  <1>3. 1 \in OI /\ 1 # Missing
    BY DEF OI, Missing
  <1> HIDE DEF flags
  <1>4. QED
    BY <1>1, <1>2, <1>3 DEF DayRow

(* The job of a typed state, with everything a step may put into it. *)
LEMMA JobFields ==
  ASSUME JobsType, NEW j \in Jobs
  PROVE  /\ job[j] \in JobState
         /\ job[j].pc \in {"idle"} \cup Rolling \cup Enriching
         /\ job[j].view \in Views /\ job[j].slots \in Nat \X Nat /\ job[j].force \in BOOLEAN
         /\ job[j].todo \subseteq Symbols /\ job[j].cur \subseteq Symbols
         /\ job[j].part \in Part /\ job[j].df \in Frame
         /\ job[j].hits \subseteq Conids /\ job[j].alone \in BOOLEAN
  BY DEF JobsType, JobState

LEMMA EmptyFrames == NoPart \in Part /\ NoFrame \in Frame /\ Idle \in JobState
  <1>1. NoPart \in Part /\ NoFrame \in Frame
    BY DEF NoPart, Part, NoFrame, Frame
  <1>2. QED
    BY <1>1 DEF Idle, JobState, Views

(* A job opens a partition: it is alone with it unless another has it open, *)
(* and those that have are not alone any more.                              *)
LEMMA OpenPartEffect ==
  ASSUME JobsType, NEW j \in Jobs, job[j].pc \in {"roll", "enrich"}, NEW s \in job[j].todo,
         NEW step \in {"rollClean", "fetch"}, NEW part \in Part, NEW df \in Frame,
         OpenPart(j, s, step, part, df)
  PROVE  /\ job' \in [Jobs -> JobState] /\ \A i \in Jobs : OnePartition(i)'
         /\ job[j].cur = {} /\ job'[j].cur = {s} /\ job'[j].todo = job[j].todo \ {s}
         /\ job'[j].pc = step /\ job'[j].part = part /\ job'[j].df = df
         /\ job'[j].view = job[j].view /\ job'[j].slots = job[j].slots
         /\ job'[j].alone <=> \A i \in Jobs \ {j} : s \notin job[i].cur
         /\ \A i \in Jobs \ {j} :
               /\ job'[i] = IF s \in job[i].cur THEN [job[i] EXCEPT !.alone = FALSE] ELSE job[i]
               /\ job'[i].cur = job[i].cur /\ job'[i].pc = job[i].pc
               /\ job'[i].alone => job[i].alone /\ s \notin job[i].cur
         /\ spoiled' = IF job'[j].alone THEN spoiled ELSE spoiled \cup {s}
  <1>1. job[j].cur = {} /\ s \in Symbols
    BY JobFields DEF JobsType, OnePartition, Between
  <1> DEFINE lone == Others(j, s) = {}
             mine == [job[j] EXCEPT !.todo = @ \ {s}, !.cur = {s}, !.pc = step,
                                    !.part = part, !.df = df, !.alone = lone]
  <1>2. job' = [i \in Jobs |-> IF i = j THEN mine
                               ELSE IF i \in Others(j, s) THEN [job[i] EXCEPT !.alone = FALSE]
                               ELSE job[i]]
    BY DEF OpenPart
  <1>3. /\ mine \in JobState /\ mine.cur = {s} /\ mine.todo = job[j].todo \ {s}
        /\ mine.pc = step /\ mine.part = part /\ mine.df = df
        /\ mine.view = job[j].view /\ mine.slots = job[j].slots
        /\ mine.alone <=> Others(j, s) = {}
    <2>1. lone \in BOOLEAN /\ (lone <=> Others(j, s) = {})
      OBVIOUS
    <2>2. step \in Rolling \cup Enriching
      BY DEF Rolling, Enriching
    <2> HIDE DEF lone
    <2>3. QED
      BY <1>1, <2>1, <2>2, JobFields DEF JobState
  <1>4. \A i \in Jobs : /\ [job[i] EXCEPT !.alone = FALSE] \in JobState
                        /\ [job[i] EXCEPT !.alone = FALSE].cur = job[i].cur
                        /\ [job[i] EXCEPT !.alone = FALSE].pc = job[i].pc
                        /\ [job[i] EXCEPT !.alone = FALSE].todo = job[i].todo
                        /\ [job[i] EXCEPT !.alone = FALSE].alone = FALSE
    BY JobFields DEF JobState
  <1> HIDE DEF mine
  <1>5. job' \in [Jobs -> JobState]
    BY <1>2, <1>3, <1>4, JobFields
  <1>6. job'[j] = mine
    BY <1>2
  <1>7. \A i \in Jobs \ {j} :
           /\ job'[i] = IF s \in job[i].cur THEN [job[i] EXCEPT !.alone = FALSE] ELSE job[i]
           /\ job'[i].cur = job[i].cur /\ job'[i].pc = job[i].pc /\ job'[i].todo = job[i].todo
           /\ job'[i].alone => job[i].alone /\ s \notin job[i].cur
    BY <1>2, <1>4, JobFields DEF Others
  <1>8. \A i \in Jobs : OnePartition(i)'
    <2>1. OnePartition(j)'
      BY <1>3, <1>6 DEF OnePartition, Between
    <2>2. ASSUME NEW i \in Jobs \ {j} PROVE OnePartition(i)'
      <3>1. job'[i].cur = job[i].cur /\ job'[i].pc = job[i].pc /\ job'[i].todo = job[i].todo
        BY <1>7
      <3>2. OnePartition(i)
        BY DEF JobsType
      <3>3. QED
        BY <3>1, <3>2 DEF OnePartition
    <2>3. QED
      BY <2>1, <2>2
  <1>9. spoiled' = IF job'[j].alone THEN spoiled ELSE spoiled \cup {s}
    BY <1>3, <1>6 DEF OpenPart
  <1>10. job'[j].alone <=> \A i \in Jobs \ {j} : s \notin job[i].cur
    BY <1>3, <1>6 DEF Others
  <1>11. QED
    BY <1>1, <1>3, <1>5, <1>6, <1>7, <1>8, <1>9, <1>10

(* A job closes its partition; nothing of another job changes. *)
LEMMA NextPartEffect ==
  ASSUME JobsType, NEW j \in Jobs, NEW step \in {"roll", "enrich"}, NextPart(j, step)
  PROVE  /\ job' \in [Jobs -> JobState] /\ \A i \in Jobs : OnePartition(i)'
         /\ job'[j].pc = step /\ job'[j].cur = {} /\ job'[j].df = NoFrame
         /\ job'[j].todo = job[j].todo
         /\ \A i \in Jobs \ {j} : job'[i] = job[i]
  <1> DEFINE mine == [job[j] EXCEPT !.pc = step, !.cur = {}, !.part = NoPart,
                                    !.df = NoFrame, !.hits = {}, !.alone = FALSE]
  <1>1. job' = [job EXCEPT ![j] = mine]
    BY DEF NextPart
  <1>2. mine \in JobState /\ mine.pc = step /\ mine.cur = {} /\ mine.df = NoFrame
        /\ mine.todo = job[j].todo
    BY JobFields, EmptyFrames DEF JobState, Rolling, Enriching
  <1> HIDE DEF mine
  <1>3. job' \in [Jobs -> JobState] /\ job'[j] = mine /\ \A i \in Jobs \ {j} : job'[i] = job[i]
    BY <1>1, <1>2 DEF JobsType
  <1>4. \A i \in Jobs : OnePartition(i)'
    BY <1>2, <1>3 DEF JobsType, OnePartition, Between
  <1>5. QED
    BY <1>2, <1>3, <1>4

LEMMA SkipPartEffect ==
  ASSUME JobsType, NEW j \in Jobs, job[j].pc \in {"roll", "enrich"}, NEW s, SkipPart(j, s)
  PROVE  /\ job' \in [Jobs -> JobState] /\ \A i \in Jobs : OnePartition(i)'
         /\ job'[j].cur = {} /\ job'[j].df = job[j].df /\ job'[j].pc = job[j].pc
         /\ job'[j].todo \subseteq job[j].todo
         /\ \A i \in Jobs \ {j} : job'[i] = job[i]
         /\ spoiled' = spoiled
  <1> DEFINE mine == [job[j] EXCEPT !.todo = @ \ {s}]
  <1>1. job' = [job EXCEPT ![j] = mine] /\ spoiled' = spoiled
    BY DEF SkipPart
  <1>2. /\ mine \in JobState /\ mine.cur = job[j].cur /\ mine.df = job[j].df
        /\ mine.pc = job[j].pc /\ mine.todo = job[j].todo \ {s}
    BY JobFields DEF JobState
  <1>3. job[j].cur = {}
    BY DEF JobsType, OnePartition, Between
  <1> HIDE DEF mine
  <1>4. job' \in [Jobs -> JobState] /\ job'[j] = mine /\ \A i \in Jobs \ {j} : job'[i] = job[i]
    BY <1>1, <1>2 DEF JobsType
  <1>5. \A i \in Jobs : OnePartition(i)'
    BY <1>2, <1>3, <1>4 DEF JobsType, OnePartition, Between
  <1>6. QED
    BY <1>1, <1>2, <1>3, <1>4, <1>5

(* A job that goes on with its partition. *)
LEMMA SamePartEffect ==
  ASSUME JobsType, NEW j \in Jobs, NEW mine \in JobState, job' = [job EXCEPT ![j] = mine],
         mine.cur = job[j].cur, mine.todo = job[j].todo,
         job[j].pc \notin Between, mine.pc \notin Between
  PROVE  /\ job' \in [Jobs -> JobState] /\ \A i \in Jobs : OnePartition(i)'
         /\ job'[j] = mine /\ \A i \in Jobs \ {j} : job'[i] = job[i]
  <1>1. /\ job' \in [Jobs -> JobState] /\ job'[j] = mine
        /\ \A i \in Jobs \ {j} : job'[i] = job[i]
    BY DEF JobsType
  <1>2. QED
    BY <1>1 DEF JobsType, OnePartition

(* A job starts, or ends. *)
LEMMA NewJobEffect ==
  ASSUME JobsType, NEW j \in Jobs, NEW mine \in JobState, job' = [job EXCEPT ![j] = mine],
         mine.cur = {}, mine.pc \in Between
  PROVE  /\ job' \in [Jobs -> JobState] /\ \A i \in Jobs : OnePartition(i)'
         /\ job'[j] = mine /\ \A i \in Jobs \ {j} : job'[i] = job[i]
  <1>1. /\ job' \in [Jobs -> JobState] /\ job'[j] = mine
        /\ \A i \in Jobs \ {j} : job'[i] = job[i]
    BY DEF JobsType
  <1>2. QED
    BY <1>1 DEF JobsType, OnePartition

LEMMA GotoEffect ==
  ASSUME JobsType, NEW j \in Jobs, job[j].pc \notin Between,
         NEW step \in {"rollAdjusted", "enrichAdjusted", "enrichLog"},
         job' = [job EXCEPT ![j].pc = step]
  PROVE  /\ job' \in [Jobs -> JobState] /\ \A i \in Jobs : OnePartition(i)'
         /\ job'[j] = [job[j] EXCEPT !.pc = step]
         /\ job'[j].pc = step /\ job'[j].cur = job[j].cur /\ job'[j].df = job[j].df
         /\ job'[j].part = job[j].part /\ job'[j].hits = job[j].hits
         /\ job'[j].view = job[j].view /\ job'[j].slots = job[j].slots
         /\ job'[j].alone = job[j].alone /\ job'[j].todo = job[j].todo
         /\ \A i \in Jobs \ {j} : job'[i] = job[i]
  <1> DEFINE mine == [job[j] EXCEPT !.pc = step]
  <1>1. /\ mine \in JobState /\ mine.pc = step /\ mine.cur = job[j].cur /\ mine.df = job[j].df
        /\ mine.part = job[j].part /\ mine.hits = job[j].hits
        /\ mine.view = job[j].view /\ mine.slots = job[j].slots
        /\ mine.alone = job[j].alone /\ mine.todo = job[j].todo
    <2>1. step \in Rolling \cup Enriching
      BY DEF Rolling, Enriching
    <2>2. QED
      BY <2>1, JobFields DEF JobState
  <1>2. job' = [job EXCEPT ![j] = mine] /\ step \notin Between
    BY DEF Between
  <1>3. mine = [job[j] EXCEPT !.pc = step]
    OBVIOUS
  <1> HIDE DEF mine
  <1>4. QED
    BY <1>1, <1>2, <1>3, SamePartEffect

(* The rows an enrichment asks for, and its job once the hits have answered. *)
Wanting(j) == {c \in Conids : NeedsOpenInterest(job[j].df[c], job[j].force)}
Fetched(j, hits) ==
    job' = [job EXCEPT ![j].pc = "enrichClean", ![j].hits = hits,
               ![j].df = [c \in Conids |-> IF c \in hits
                                           THEN Enriched(@[c], job[j].force) ELSE @[c]]]

(* The answers of the gateway are put into the rows that asked. *)
LEMMA FetchEffect ==
  ASSUME JobsType, NEW j \in Jobs, job[j].pc = "fetch",
         NEW hits \in SUBSET Wanting(j), Fetched(j, hits)
  PROVE  /\ job' \in [Jobs -> JobState] /\ \A i \in Jobs : OnePartition(i)'
         /\ job'[j].pc = "enrichClean" /\ job'[j].cur = job[j].cur /\ job'[j].hits = hits
         /\ job'[j].df = [c \in Conids |-> IF c \in hits
                                           THEN Enriched(job[j].df[c], job[j].force)
                                           ELSE job[j].df[c]]
         /\ job'[j].force = job[j].force /\ job'[j].alone = job[j].alone
         /\ job'[j].todo = job[j].todo
         /\ \A i \in Jobs \ {j} : job'[i] = job[i]
  <1> DEFINE df   == [c \in Conids |-> IF c \in hits THEN Enriched(job[j].df[c], job[j].force)
                                       ELSE job[j].df[c]]
             mine == [job[j] EXCEPT !.pc = "enrichClean", !.hits = hits, !.df = df]
  <1>1. df \in Frame
    <2>1. ASSUME NEW c \in Conids PROVE df[c] \in DayRow \cup {NoRow}
      <3>1. job[j].df[c] \in DayRow \cup {NoRow} /\ job[j].force \in BOOLEAN
        BY JobFields DEF Frame
      <3>2. c \in hits => job[j].df[c] \in DayRow
        BY <3>1 DEF Wanting, NeedsOpenInterest
      <3>3. QED
        BY <3>1, <3>2, EnrichedRow
    <2>2. QED
      BY <2>1 DEF Frame
  <1>2. job' = [job EXCEPT ![j] = mine]
    BY DEF JobsType, Fetched
  <1> HIDE DEF df
  <1>3. /\ mine \in JobState /\ mine.pc = "enrichClean" /\ mine.cur = job[j].cur
        /\ mine.hits = hits /\ mine.df = df /\ mine.force = job[j].force
        /\ mine.alone = job[j].alone /\ mine.todo = job[j].todo
    <2>1. hits \subseteq Conids /\ "enrichClean" \in Enriching
      BY DEF Wanting, Enriching
    <2>2. QED
      BY <1>1, <2>1, JobFields DEF JobState
  <1>4. mine.pc \notin Between /\ job[j].pc \notin Between
    BY <1>3 DEF Between
  <1> HIDE DEF mine
  <1>5. /\ job' \in [Jobs -> JobState] /\ \A i \in Jobs : OnePartition(i)'
        /\ job'[j] = mine /\ \A i \in Jobs \ {j} : job'[i] = job[i]
    BY <1>2, <1>3, <1>4, SamePartEffect
  <1>6. QED
    BY <1>3, <1>5 DEF df

(* The two ways a job begins, and its end. *)
LEMMA StartEffect ==
  ASSUME JobsType, NEW j \in Jobs, job[j].pc \in Between,
         RollupStart(j) \/ EnrichStart(j) \/ Finish(j)
  PROVE  /\ job' \in [Jobs -> JobState] /\ \A i \in Jobs : OnePartition(i)'
         /\ job[j].cur = {} /\ job'[j].cur = {} /\ job'[j].df = NoFrame
         /\ \A i \in Jobs \ {j} : job'[i] = job[i]
         /\ UNCHANGED <<snap, files, clock, seen, base, spoiled>>
         /\ starts' \in 0 .. MaxStarts
  <1>1. job[j].cur = {}
    BY DEF JobsType, OnePartition
  <1>2. CASE RollupStart(j)
    <2> DEFINE closed == {s \in Symbols : HasFile("close", s)}
               view   == IF closed = {} THEN "intraday" ELSE "close"
               dirs(wanted) == {s \in Symbols : HasFile(view, s)} \cap wanted
    <2>0. PICK wanted \in (SUBSET Symbols) \ {{}}, slots \in SlotParams :
            job' = [job EXCEPT ![j] = [Idle EXCEPT !.pc = "roll", !.view = view,
                                          !.slots = slots, !.todo = dirs(wanted)]]
      BY <1>2 DEF RollupStart
    <2>1. view \in Views /\ dirs(wanted) \in SUBSET Symbols /\ slots \in Nat \X Nat
      BY DEF Views
    <2> HIDE DEF closed, view, dirs
    <2> DEFINE mine == [Idle EXCEPT !.pc = "roll", !.view = view,
                                    !.slots = slots, !.todo = dirs(wanted)]
    <2>2. mine \in JobState /\ mine.cur = {} /\ mine.pc = "roll" /\ mine.df = NoFrame
      BY <2>1, EmptyFrames DEF JobState, Rolling, Idle
    <2>3. mine.pc \in Between
      BY <2>2 DEF Between
    <2>4. starts' \in 0 .. MaxStarts /\ UNCHANGED <<snap, files, clock, seen, base, spoiled>>
      <3>1. /\ starts < MaxStarts /\ starts' = starts + 1
            /\ UNCHANGED <<snap, files, clock, seen, base, spoiled>>
        BY <1>2 DEF RollupStart
      <3>2. starts \in 0 .. MaxStarts
        BY DEF JobsType
      <3>3. QED
        BY <3>1, <3>2
    <2> HIDE DEF mine
    <2>5. /\ job' \in [Jobs -> JobState] /\ \A i \in Jobs : OnePartition(i)'
          /\ job'[j] = mine /\ \A i \in Jobs \ {j} : job'[i] = job[i]
      BY <2>0, <2>2, <2>3, NewJobEffect DEF mine
    <2>6. QED
      BY <1>1, <2>2, <2>4, <2>5
  <1>3. CASE EnrichStart(j)
    <2> DEFINE held(wanted) == {s \in wanted : daily[s] # NoFrame}
    <2>0. PICK force \in Forces, wanted \in (SUBSET Symbols) \ {{}} :
            job' = [job EXCEPT ![j] = [Idle EXCEPT !.pc = "enrich", !.force = force,
                                                  !.todo = held(wanted)]]
      BY <1>3 DEF EnrichStart
    <2> HIDE DEF held
    <2>1. PICK todo \in SUBSET Symbols :
            job' = [job EXCEPT ![j] = [Idle EXCEPT !.pc = "enrich", !.force = force,
                                                  !.todo = todo]]
      BY <2>0 DEF held
    <2> DEFINE mine == [Idle EXCEPT !.pc = "enrich", !.force = force, !.todo = todo]
    <2>2. mine \in JobState /\ mine.cur = {} /\ mine.pc = "enrich" /\ mine.df = NoFrame
      BY EmptyFrames DEF JobState, Enriching, Idle
    <2>3. mine.pc \in Between
      BY <2>2 DEF Between
    <2>4. starts' \in 0 .. MaxStarts /\ UNCHANGED <<snap, files, clock, seen, base, spoiled>>
      <3>1. /\ starts < MaxStarts /\ starts' = starts + 1
            /\ UNCHANGED <<snap, files, clock, seen, base, spoiled>>
        BY <1>3 DEF EnrichStart
      <3>2. starts \in 0 .. MaxStarts
        BY DEF JobsType
      <3>3. QED
        BY <3>1, <3>2
    <2> HIDE DEF mine
    <2>5. /\ job' \in [Jobs -> JobState] /\ \A i \in Jobs : OnePartition(i)'
          /\ job'[j] = mine /\ \A i \in Jobs \ {j} : job'[i] = job[i]
      BY <2>1, <2>2, <2>3, NewJobEffect DEF mine
    <2>6. QED
      BY <1>1, <2>2, <2>4, <2>5
  <1>4. CASE Finish(j)
    <2>1. Idle.cur = {} /\ Idle.pc \in Between /\ Idle.df = NoFrame
      BY DEF Idle, Between
    <2>2. job' = [job EXCEPT ![j] = Idle] /\ starts' \in 0 .. MaxStarts
          /\ UNCHANGED <<snap, files, clock, seen, base, spoiled>>
      BY <1>4 DEF Finish, JobsType
    <2>3. QED
      BY <1>1, <2>1, <2>2, EmptyFrames, NewJobEffect
  <1>5. QED
    BY <1>2, <1>3, <1>4

LEMMA StopEffect ==
  ASSUME JobsType, NEW j \in Jobs, Stop(j)
  PROVE  /\ job' \in [Jobs -> JobState] /\ \A i \in Jobs : OnePartition(i)'
         /\ job'[j].cur = {} /\ job'[j].df = NoFrame
         /\ \A i \in Jobs \ {j} : job'[i] = job[i]
         /\ UNCHANGED <<snap, files, clock, seen, base, starts>>
  <1>1. Idle.cur = {} /\ Idle.pc \in Between /\ Idle.df = NoFrame
    BY DEF Idle, Between
  <1>2. job' = [job EXCEPT ![j] = Idle] /\ UNCHANGED <<snap, files, clock, seen, base, starts>>
    BY DEF Stop
  <1>3. QED
    BY <1>1, <1>2, EmptyFrames, NewJobEffect

-------------------------------------------------------------------------------
(* A capture replaces one slot of some contracts' rows by well-formed rows. *)
LEMMA CaptureTyped ==
  ASSUME Typed, NEW v \in Views, NEW s \in Symbols, NEW k \in Slots, Capture(v, s, k)
  PROVE  Typed'
  <1>0. PICK got \in SUBSET Conids :
          \E row \in [got -> [ok : BOOLEAN, oi : CapturedOI \cup {Missing}]] :
             snap' = [snap EXCEPT ![v][s] =
                [c \in Conids |->
                    IF c \in got
                    THEN [@[c] EXCEPT ![k] = [ver |-> clock + 1, ok |-> row[c].ok,
                                              oi |-> row[c].oi]]
                    ELSE @[c]]]
    BY Zenon DEF Capture
  <1>1. PICK row \in [got -> [ok : BOOLEAN, oi : CapturedOI \cup {Missing}]] :
          snap' = [snap EXCEPT ![v][s] =
                [c \in Conids |->
                    IF c \in got
                    THEN [@[c] EXCEPT ![k] = [ver |-> clock + 1, ok |-> row[c].ok,
                                              oi |-> row[c].oi]]
                    ELSE @[c]]]
    BY <1>0
  <1>2. clock + 1 \in 1 .. MaxClock /\ clock' \in 0 .. MaxClock
    BY DEF Capture, Typed, FilesType
  <1> DEFINE new(c) == [ver |-> clock + 1, ok |-> row[c].ok, oi |-> row[c].oi]
             part == [c \in Conids |-> IF c \in got THEN [snap[v][s][c] EXCEPT ![k] = new(c)]
                                       ELSE snap[v][s][c]]
  <1>3. ASSUME NEW c \in Conids PROVE part[c] \in [Slots -> SnapRow \cup {NoRow}]
    <2>1. c \in got => new(c) \in SnapRow
      <3>1. c \in got => row[c] \in [ok : BOOLEAN, oi : CapturedOI \cup {Missing}]
        OBVIOUS
      <3>2. CapturedOI \cup {Missing} \subseteq OI
        BY DEF OI
      <3>3. QED
        BY <1>2, <3>1, <3>2 DEF SnapRow
    <2>2. snap[v][s][c] \in [Slots -> SnapRow \cup {NoRow}]
      BY DEF Typed, FilesType, Part
    <2> HIDE DEF new
    <2>3. QED
      BY <2>1, <2>2
  <1>4. part \in Part
    BY <1>3 DEF Part
  <1>5. snap' = [snap EXCEPT ![v] = [snap[v] EXCEPT ![s] = part]]
    BY <1>1
  <1> HIDE DEF part
  <1>6. snap' \in [Views -> [Symbols -> Part]]
    BY <1>4, <1>5 DEF Typed, FilesType
  <1>7. UNCHANGED <<files, job, starts, seen, base, spoiled>>
    BY DEF Capture
  <1>8. QED
    BY <1>2, <1>6, <1>7 DEF Typed, FilesType, JobsType, files, OnePartition

(* The part of a typed state that a job's own step can disturb. *)
LEMMA TypedStep == Typed /\ [Next]_vars => Typed'
  <1> SUFFICES ASSUME Typed, [Next]_vars PROVE Typed'
    OBVIOUS
  <1> USE DEF Typed
  <1>1. ASSUME NEW v \in Views, NEW s \in Symbols, NEW k \in Slots, Capture(v, s, k)
        PROVE  Typed'
    BY <1>1, CaptureTyped
  <1>2. ASSUME NEW j \in Jobs, RollupStart(j) \/ EnrichStart(j) \/ Finish(j) PROVE Typed'
    <2>1. job[j].pc \in Between
      BY <1>2 DEF RollupStart, EnrichStart, Finish, Between
    <2>2. QED
      BY <1>2, <2>1, StartEffect DEF FilesType, JobsType, files
  <1>3. ASSUME NEW j \in Jobs, RollupRead(j) PROVE Typed'
    <2>1. PICK s \in job[j].todo :
             LET part == snap[job[j].view][s]
                 df   == [c \in Conids |-> Selected(job[j].view, job[j].slots, part, c)]
             IN IF df = NoFrame THEN SkipPart(j, s) ELSE OpenPart(j, s, "rollClean", part, df)
      BY <1>3 DEF RollupRead
    <2> DEFINE part == snap[job[j].view][s]
               df   == [c \in Conids |-> Selected(job[j].view, job[j].slots, part, c)]
    <2>2. part \in Part /\ s \in Symbols
      BY JobFields DEF FilesType, JobState
    <2>3. df \in Frame
      <3>1. job[j].view \in Views /\ job[j].slots \in Nat \X Nat
        BY JobFields
      <3> HIDE DEF part
      <3>2. QED
        BY <2>2, <3>1, SelectedFrameType
    <2>4. job[j].pc \in {"roll", "enrich"} /\ UNCHANGED <<snap, files, clock, starts, seen, base>>
      BY <1>3 DEF RollupRead
    <2>5. SkipPart(j, s) \/ OpenPart(j, s, "rollClean", part, df)
      BY <2>1
    <2> HIDE DEF part, df
    <2>6. CASE SkipPart(j, s)
      BY <2>4, <2>6, SkipPartEffect DEF FilesType, JobsType, files
    <2>7. CASE OpenPart(j, s, "rollClean", part, df)
      BY <2>2, <2>3, <2>4, <2>7, OpenPartEffect DEF FilesType, JobsType, files
    <2>8. QED
      BY <2>5, <2>6, <2>7
  <1>4. ASSUME NEW j \in Jobs, RollupClean(j) PROVE Typed'
    <2>1. PICK s \in job[j].cur :
             /\ daily' = [daily EXCEPT ![s] = job[j].df]
             /\ seen' = [seen EXCEPT ![s] = [close |-> job[j].slots[1], part |-> job[j].part]]
             /\ base' = [base EXCEPT ![s] = log[s]]
      BY <1>4 DEF RollupClean
    <2>2. s \in Symbols /\ job[j].df \in Frame /\ job[j].part \in Part /\ job[j].slots[1] \in Nat
      BY JobFields
    <2>3. daily' \in [Symbols -> Frame] /\ base' \in [Symbols -> [Conids -> Nat]]
      BY <2>1, <2>2 DEF FilesType
    <2>4. [close |-> job[j].slots[1], part |-> job[j].part] \in [close : Nat, part : Part]
      BY <2>2
    <2>5. seen' \in [Symbols -> [close : Nat, part : Part]]
      BY <2>1, <2>2, <2>4 DEF FilesType
    <2>6. /\ job[j].pc \notin Between /\ job' = [job EXCEPT ![j].pc = "rollAdjusted"]
          /\ UNCHANGED <<snap, adjusted, log, clock, starts, spoiled>>
      BY <1>4 DEF RollupClean, Between
    <2>7. QED
      BY <2>3, <2>5, <2>6, GotoEffect DEF FilesType, JobsType
  <1>5. ASSUME NEW j \in Jobs, RollupAdjusted(j) PROVE Typed'
    <2>1. PICK s \in job[j].cur : /\ adjusted' = [adjusted EXCEPT ![s] = job[j].df]
                                  /\ spoiled' \subseteq spoiled
      BY <1>5 DEF RollupAdjusted
    <2>2. adjusted' \in [Symbols -> Frame]
      BY <2>1, JobFields DEF FilesType
    <2>3. NextPart(j, "roll") /\ UNCHANGED <<snap, daily, log, clock, starts, seen, base>>
      BY <1>5 DEF RollupAdjusted
    <2>4. QED
      BY <2>1, <2>2, <2>3, NextPartEffect DEF FilesType, JobsType
  <1>6. ASSUME NEW j \in Jobs, EnrichRead(j) PROVE Typed'
    <2>1. PICK s \in job[j].todo : SkipPart(j, s) \/ OpenPart(j, s, "fetch", NoPart, daily[s])
      BY <1>6 DEF EnrichRead
    <2>2. job[j].pc \in {"roll", "enrich"} /\ UNCHANGED <<snap, files, clock, starts, seen, base>>
      BY <1>6 DEF EnrichRead
    <2> DEFINE df == daily[s]
    <2>3. s \in Symbols /\ df \in Frame
      BY JobFields DEF FilesType
    <2> HIDE DEF df
    <2>4. CASE SkipPart(j, s)
      BY <2>2, <2>4, SkipPartEffect DEF FilesType, JobsType, files
    <2>5. CASE OpenPart(j, s, "fetch", NoPart, df)
      BY <2>2, <2>3, <2>5, EmptyFrames, OpenPartEffect DEF FilesType, JobsType, files
    <2>6. QED
      BY <2>1, <2>4, <2>5 DEF df
  <1>7. ASSUME NEW j \in Jobs, EnrichFetch(j) PROVE Typed'
    <2>1. job[j].pc = "fetch" /\ UNCHANGED <<snap, files, clock, starts, seen, base, spoiled>>
      BY <1>7 DEF EnrichFetch, Wanting, Fetched
    <2>2. CASE NextPart(j, "enrich")
      BY <2>1, <2>2, NextPartEffect DEF FilesType, JobsType, files
    <2>3. CASE \E hits \in SUBSET Wanting(j) : Fetched(j, hits)
      <3>1. job' \in [Jobs -> JobState] /\ \A i \in Jobs : OnePartition(i)'
        BY <2>1, <2>3, FetchEffect
      <3>2. QED
        BY <2>1, <3>1 DEF FilesType, JobsType, files
    <2>4. QED
      BY <1>7, <2>2, <2>3 DEF EnrichFetch, Wanting, Fetched
  <1>8. ASSUME NEW j \in Jobs, EnrichClean(j) PROVE Typed'
    <2>1. UNCHANGED <<snap, adjusted, log, clock, starts, seen, base, spoiled>>
      BY <1>8 DEF EnrichClean
    <2>2. CASE NextPart(j, "enrich") /\ UNCHANGED daily
      BY <2>1, <2>2, NextPartEffect DEF FilesType, JobsType
    <2>3. CASE /\ \E s \in job[j].cur : daily' = [daily EXCEPT ![s] = job[j].df]
               /\ job' = [job EXCEPT ![j].pc = "enrichAdjusted"]
      <3>1. daily' \in [Symbols -> Frame]
        BY <2>3, JobFields DEF FilesType
      <3>2. job[j].pc \notin Between
        BY <1>8 DEF EnrichClean, Between
      <3>3. QED
        BY <2>1, <2>3, <3>1, <3>2, GotoEffect DEF FilesType, JobsType
    <2>4. QED
      BY <1>8, <2>2, <2>3 DEF EnrichClean
  <1>9. ASSUME NEW j \in Jobs, EnrichAdjusted(j) PROVE Typed'
    <2>1. PICK s \in job[j].cur :
             \/ adjusted' = [adjusted EXCEPT ![s] = job[j].df] /\ UNCHANGED spoiled
             \/ spoiled' = spoiled \cup {s} /\ UNCHANGED adjusted
      BY <1>9 DEF EnrichAdjusted
    <2>2. adjusted' \in [Symbols -> Frame] /\ spoiled' \subseteq Symbols
      BY <2>1, JobFields DEF FilesType
    <2>3. /\ job[j].pc \notin Between /\ job' = [job EXCEPT ![j].pc = "enrichLog"]
          /\ UNCHANGED <<snap, daily, log, clock, starts, seen, base>>
      BY <1>9 DEF EnrichAdjusted, Between
    <2>4. QED
      BY <2>2, <2>3, GotoEffect DEF FilesType, JobsType
  <1>10. ASSUME NEW j \in Jobs, EnrichLog(j) PROVE Typed'
    <2>1. PICK s \in job[j].cur :
             log' = [log EXCEPT ![s] = [c \in Conids |-> IF c \in job[j].hits
                                                         THEN @[c] + 1 ELSE @[c]]]
      BY <1>10 DEF EnrichLog
    <2>2. log' \in [Symbols -> [Conids -> Nat]]
      BY <2>1, JobFields DEF FilesType
    <2>3. /\ NextPart(j, "enrich")
          /\ UNCHANGED <<snap, daily, adjusted, clock, starts, seen, base, spoiled>>
      BY <1>10 DEF EnrichLog
    <2>4. QED
      BY <2>2, <2>3, NextPartEffect DEF FilesType, JobsType
  <1>11. ASSUME NEW j \in Jobs, Stop(j) PROVE Typed'
    <2>1. spoiled' \subseteq Symbols
      BY <1>11, JobFields DEF Stop, FilesType
    <2>2. QED
      BY <1>11, <2>1, StopEffect DEF FilesType, JobsType, files
  <1>12. CASE UNCHANGED vars
    BY <1>12 DEF vars, files, FilesType, JobsType, OnePartition
  <1>13. QED
    BY <1>1, <1>2, <1>3, <1>4, <1>5, <1>6, <1>7, <1>8, <1>9, <1>10, <1>11, <1>12
       DEF Next, Rollup, Enrich

LEMMA TypedInit == Init => Typed
  <1> SUFFICES ASSUME Init PROVE Typed
    OBVIOUS
  <1>1. FilesType
    BY EmptyFrames DEF Init, FilesType, Unseen
  <1>2. Idle.cur = {} /\ Idle.pc = "idle" /\ Idle.todo = {}
    BY DEF Idle
  <1>3. JobsType
    BY <1>2, EmptyFrames DEF Init, JobsType, OnePartition, Between
  <1>4. QED
    BY <1>1, <1>3 DEF Typed
-------------------------------------------------------------------------------
(* Two jobs that have a partition open know that they are not alone, and a  *)
(* partition on which a job is not alone is spoiled.                        *)
AloneIsAlone ==
    \A j \in Jobs, s \in Symbols : s \in job[j].cur =>
        /\ job[j].alone \/ s \in spoiled
        /\ \A i \in Jobs : i # j /\ s \in job[i].cur => ~job[j].alone

(* An enriched row has an open interest: only a forced run enriches it again. *)
EnrichedHasOI(frame) ==
    \A c \in Conids : frame[c] # NoRow /\ "oi_enriched" \in frame[c].flags
                         => frame[c].oi # Missing
RowsHonest == /\ \A s \in Symbols : EnrichedHasOI(daily[s])
              /\ \A j \in Jobs : EnrichedHasOI(job[j].df)
              /\ \A s \in Symbols, c \in Conids : base[s][c] <= log[s][c]

(* The parts of SelectionKept and EnrichmentLogged that speak of symbol s;   *)
(* hits are the contracts whose records are still to be written.            *)
Chosen(s) ==
    \A c \in Conids :
        LET good == Good(seen[s].part, c)
            row  == daily[s][c]
        IN /\ row = NoRow <=> good = {}
           /\ row # NoRow => /\ row.slot \in good
                             /\ seen[s].close \in good => row.slot = seen[s].close
                             /\ row.ver = seen[s].part[c][row.slot].ver
Story(s, hits) ==
    \A c \in Conids :
        LET row == daily[s][c]
            new == log[s][c] - base[s][c] + (IF c \in hits THEN 1 ELSE 0)
        IN /\ new > 0 <=> row # NoRow /\ "oi_enriched" \in row.flags
           /\ new > 1 => "oi_overwritten" \in row.flags

(* The files of a symbol agree, but for a job between two of its writes. *)
SymbolOK(s) ==
    s \notin spoiled =>
        /\ Chosen(s)
        /\ (\A j \in Jobs : s \in job[j].cur
               => job[j].pc \notin {"rollAdjusted", "enrichAdjusted"}) => adjusted[s] = daily[s]
        /\ (\A j \in Jobs : s \in job[j].cur
               => job[j].pc \notin {"enrichAdjusted", "enrichLog"}) => Story(s, {})

SelectedFrame(j) == [c \in Conids |-> Selected(job[j].view, job[j].slots, job[j].part, c)]
EnrichedFrame(j, frame) == [c \in Conids |-> IF c \in job[j].hits
                                             THEN Enriched(frame[c], job[j].force)
                                             ELSE frame[c]]

(* What a job with partition s open is about to write, and how it relates   *)
(* to what the files hold.                                                  *)
RollOK(j, s) ==
    /\ job[j].pc \in {"rollClean", "rollAdjusted"} => job[j].df = SelectedFrame(j)
    /\ job[j].pc = "rollAdjusted" /\ job[j].alone =>
          /\ daily[s] = job[j].df /\ base[s] = log[s]
          /\ seen[s] = [close |-> job[j].slots[1], part |-> job[j].part]
EnrichOK(j, s) ==
    s \notin spoiled =>
        /\ job[j].pc = "fetch" => job[j].df = daily[s]
        /\ job[j].pc = "enrichClean" =>
              /\ \A c \in job[j].hits : NeedsOpenInterest(daily[s][c], job[j].force)
              /\ job[j].df = EnrichedFrame(j, daily[s])
        /\ job[j].pc \in {"enrichAdjusted", "enrichLog"} =>
              /\ daily[s] = job[j].df
              /\ Story(s, job[j].hits)
WorkOK(j) == \A s \in job[j].cur : RollOK(j, s) /\ EnrichOK(j, s)

Contents == (\A s \in Symbols : SymbolOK(s)) /\ (\A j \in Jobs : WorkOK(j))

(* An enrichment records a contract once: the records of a symbol and the    *)
(* enrichments that may still write to it are together at most those started. *)
Recording(s) == {j \in Jobs : /\ job[j].pc \in Enriching
                              /\ s \in job[j].todo \cup job[j].cur}
RecordsBounded == \A s \in Symbols, c \in Conids :
                     log[s][c] + Cardinality(Recording(s)) <= starts

-------------------------------------------------------------------------------
(* What the invariants say of a symbol depends on its own files only. *)
Untouched(t) == /\ daily'[t] = daily[t] /\ adjusted'[t] = adjusted[t]
                /\ log'[t] = log[t] /\ base'[t] = base[t] /\ seen'[t] = seen[t]

LEMMA UntouchedKept ==
  ASSUME NEW t \in Symbols, Untouched(t)
  PROVE  /\ Chosen(t)' <=> Chosen(t)
         /\ \A hits : Story(t, hits)' <=> Story(t, hits)
  BY Zenon DEF Untouched, Chosen, Story

(* The work of a job that does not move, on a symbol nobody touches or that *)
(* is spoiled by then.                                                      *)
LEMMA WorkKept ==
  ASSUME NEW i \in Jobs, NEW t \in Symbols, t \in job[i].cur,
         job'[i] = job[i] \/ job'[i] = [job[i] EXCEPT !.alone = FALSE], job[i] \in JobState,
         Untouched(t) \/ (t \in spoiled' /\ ~job'[i].alone),
         t \in spoiled => t \in spoiled',
         RollOK(i, t), EnrichOK(i, t)
  PROVE  RollOK(i, t)' /\ EnrichOK(i, t)'
  <1>1. /\ job'[i].pc = job[i].pc /\ job'[i].df = job[i].df /\ job'[i].part = job[i].part
        /\ job'[i].view = job[i].view /\ job'[i].slots = job[i].slots
        /\ job'[i].hits = job[i].hits /\ job'[i].force = job[i].force
        /\ job'[i].alone => job[i].alone
    BY DEF JobState
  <1>2. SelectedFrame(i)' = SelectedFrame(i)
    BY <1>1 DEF SelectedFrame
  <1>3. CASE Untouched(t)
    <2>1. RollOK(i, t)'
      BY <1>1, <1>2, <1>3, Zenon DEF RollOK, Untouched
    <2>2. \A frame : EnrichedFrame(i, frame)' = EnrichedFrame(i, frame)
      BY <1>1, Zenon DEF EnrichedFrame
    <2>3. EnrichOK(i, t)'
      BY <1>1, <1>3, <2>2, UntouchedKept, Zenon DEF EnrichOK, Untouched
    <2>4. QED
      BY <2>1, <2>3
  <1>4. CASE t \in spoiled' /\ ~job'[i].alone
    BY <1>1, <1>2, <1>4 DEF RollOK, EnrichOK
  <1>5. QED
    BY <1>3, <1>4

(* What is said of a symbol stays true while its files are not touched, if  *)
(* it is spoiled or no job was between two of its writes unless it still is. *)
LEMMA SymbolKept ==
  ASSUME NEW t \in Symbols, Untouched(t), t \in spoiled => t \in spoiled', SymbolOK(t),
         t \in spoiled' \/ \A i \in Jobs : t \in job[i].cur =>
            \/ job[i].pc \notin {"rollAdjusted", "enrichAdjusted", "enrichLog"}
            \/ t \in job'[i].cur /\ job'[i].pc = job[i].pc
  PROVE  SymbolOK(t)'
  <1> SUFFICES ASSUME t \notin spoiled' PROVE SymbolOK(t)'
    BY DEF SymbolOK
  <1>1. /\ Chosen(t)' <=> Chosen(t)
        /\ Story(t, {})' <=> Story(t, {})
        /\ adjusted'[t] = daily'[t] <=> adjusted[t] = daily[t]
    BY UntouchedKept DEF Untouched
  <1>2. ASSUME \A i \in Jobs : t \in job'[i].cur => job'[i].pc \notin {"rollAdjusted", "enrichAdjusted"}
        PROVE  \A i \in Jobs : t \in job[i].cur => job[i].pc \notin {"rollAdjusted", "enrichAdjusted"}
    BY <1>2
  <1>3. ASSUME \A i \in Jobs : t \in job'[i].cur => job'[i].pc \notin {"enrichAdjusted", "enrichLog"}
        PROVE  \A i \in Jobs : t \in job[i].cur => job[i].pc \notin {"enrichAdjusted", "enrichLog"}
    BY <1>3
  <1>4. QED
    BY <1>1, <1>2, <1>3 DEF SymbolOK

(* A step of job j on its partition s leaves everybody else's business as it *)
(* is: the other symbols, and the other jobs, because one that has s open    *)
(* too is not alone with it and s stays spoiled.                             *)
LEMMA ElsewhereKept ==
  ASSUME Typed, AloneIsAlone, Contents, NEW j \in Jobs, NEW s \in Symbols,
         \A i \in Jobs \ {j} : job'[i] = job[i],
         job[j].cur = {s}, job'[j].cur \subseteq {s},
         \A t \in Symbols \ {s} : Untouched(t) /\ (t \in spoiled' <=> t \in spoiled),
         s \in spoiled => s \in spoiled' \/ job[j].alone
  PROVE  /\ \A t \in Symbols \ {s} : SymbolOK(t)'
         /\ \A i \in Jobs \ {j} : WorkOK(i)'
         /\ job'[j].alone = job[j].alone \/ job'[j].cur = {} => AloneIsAlone'
  <1>1. ASSUME NEW t \in Symbols \ {s} PROVE SymbolOK(t)'
    <2>1. SymbolOK(t) /\ Untouched(t) /\ (t \in spoiled' <=> t \in spoiled)
      BY DEF Contents
    <2>2. \A i \in Jobs : t \in job[i].cur => t \in job'[i].cur /\ job'[i].pc = job[i].pc
      OBVIOUS
    <2>3. QED
      BY <2>1, <2>2, SymbolKept
  <1>2. ASSUME NEW i \in Jobs \ {j} PROVE WorkOK(i)'
    <2>1. job'[i] = job[i] /\ job[i] \in JobState /\ job[i].cur \subseteq Symbols
      BY JobFields DEF Typed
    <2>2. ASSUME NEW t \in job[i].cur PROVE RollOK(i, t)' /\ EnrichOK(i, t)'
      <3>1. RollOK(i, t) /\ EnrichOK(i, t) /\ t \in Symbols
        BY <2>1 DEF Contents, WorkOK
      <3>2. t # s => Untouched(t) /\ (t \in spoiled' <=> t \in spoiled)
        BY <3>1
      <3>3. t = s => t \in spoiled' /\ ~job[i].alone
        BY <3>1 DEF AloneIsAlone
      <3>4. QED
        BY <2>1, <3>1, <3>2, <3>3, WorkKept
    <2>3. QED
      BY <2>1, <2>2 DEF WorkOK
  <1>3. ASSUME job'[j].alone = job[j].alone \/ job'[j].cur = {} PROVE AloneIsAlone'
    <2>1. \A i \in Jobs, t \in Symbols :
             t \in job'[i].cur => t \in job[i].cur /\ job'[i].alone = job[i].alone
      BY <1>3
    <2>2. ASSUME NEW i \in Jobs, NEW t \in Symbols, t \in job'[i].cur
          PROVE  job'[i].alone \/ t \in spoiled'
      <3>1. t \in job[i].cur /\ job'[i].alone = job[i].alone
        BY <2>1, <2>2
      <3>2. CASE job[i].alone
        BY <3>1, <3>2
      <3>3. CASE t \in spoiled /\ ~job[i].alone
        BY <3>1, <3>3 DEF AloneIsAlone
      <3>4. QED
        BY <3>1, <3>2, <3>3 DEF AloneIsAlone
    <2>3. QED
      BY <2>1, <2>2 DEF AloneIsAlone
  <1>4. QED
    BY <1>1, <1>2, <1>3

(* A job that writes no file: it starts, ends, skips, gives a partition up   *)
(* between two writes (which spoils it), or only goes on to its next step.   *)
LEMMA QuietStep ==
  ASSUME Typed, AloneIsAlone, Contents, NEW j \in Jobs,
         \A i \in Jobs \ {j} : job'[i] = job[i],
         job'[j].cur = {} \/ (job'[j].cur = job[j].cur /\ job'[j].alone = job[j].alone),
         \A t \in Symbols : Untouched(t), spoiled \subseteq spoiled',
         job[j].pc \in {"rollAdjusted", "enrichAdjusted", "enrichLog"}
            => job[j].cur \subseteq spoiled'
  PROVE  /\ \A t \in Symbols : SymbolOK(t)'
         /\ \A i \in Jobs \ {j} : WorkOK(i)'
         /\ AloneIsAlone'
  <1>1. ASSUME NEW t \in Symbols PROVE SymbolOK(t)'
    <2>1. SymbolOK(t) /\ Untouched(t)
      BY DEF Contents
    <2>2. t \in spoiled' \/ \A i \in Jobs : t \in job[i].cur =>
             \/ job[i].pc \notin {"rollAdjusted", "enrichAdjusted", "enrichLog"}
             \/ t \in job'[i].cur /\ job'[i].pc = job[i].pc
      OBVIOUS
    <2>3. QED
      BY <2>1, <2>2, SymbolKept
  <1>2. ASSUME NEW i \in Jobs \ {j} PROVE WorkOK(i)'
    <2>1. job'[i] = job[i] /\ job[i] \in JobState /\ job[i].cur \subseteq Symbols
      BY JobFields DEF Typed
    <2>2. ASSUME NEW t \in job[i].cur PROVE RollOK(i, t)' /\ EnrichOK(i, t)'
      <3>1. RollOK(i, t) /\ EnrichOK(i, t) /\ t \in Symbols /\ Untouched(t)
        BY <2>1 DEF Contents, WorkOK
      <3>2. QED
        BY <2>1, <3>1, WorkKept
    <2>3. QED
      BY <2>1, <2>2 DEF WorkOK
  <1>3. AloneIsAlone'
    <2>1. \A i \in Jobs, t \in Symbols :
             t \in job'[i].cur => t \in job[i].cur /\ job'[i].alone = job[i].alone
      OBVIOUS
    <2>2. QED
      BY <2>1 DEF AloneIsAlone
  <1>4. QED
    BY <1>1, <1>2, <1>3

(* A job opens a partition: it reads what the files hold, and a job that     *)
(* had it open is not alone from now on.                                     *)
LEMMA OpenStep ==
  ASSUME Typed, AloneIsAlone, Contents, NEW j \in Jobs, NEW s \in job[j].todo,
         NEW step \in {"rollClean", "fetch"}, NEW part \in Part, NEW df \in Frame,
         job[j].pc \in {"roll", "enrich"}, OpenPart(j, s, step, part, df),
         \A t \in Symbols : Untouched(t),
         step = "rollClean" =>
            df = [c \in Conids |-> Selected(job[j].view, job[j].slots, part, c)],
         step = "fetch" => df = daily[s]
  PROVE  AloneIsAlone' /\ Contents'
  <1>1. s \in Symbols /\ job[j].cur = {}
    BY JobFields, OpenPartEffect DEF Typed
  <1>2. /\ job'[j].cur = {s} /\ job'[j].pc = step /\ job'[j].part = part /\ job'[j].df = df
        /\ job'[j].view = job[j].view /\ job'[j].slots = job[j].slots
        /\ job'[j].alone <=> \A i \in Jobs \ {j} : s \notin job[i].cur
        /\ spoiled' = IF job'[j].alone THEN spoiled ELSE spoiled \cup {s}
    BY OpenPartEffect DEF Typed
  <1>3. \A i \in Jobs \ {j} :
           /\ job'[i] = IF s \in job[i].cur THEN [job[i] EXCEPT !.alone = FALSE] ELSE job[i]
           /\ job'[i].cur = job[i].cur /\ job'[i].pc = job[i].pc
           /\ job'[i].alone => job[i].alone /\ s \notin job[i].cur
    BY OpenPartEffect DEF Typed
  <1>4. \A i \in Jobs \ {j} : s \in job[i].cur => s \in spoiled' /\ ~job'[i].alone /\ ~job'[j].alone
    BY <1>2, <1>3
  <1>5. spoiled \subseteq spoiled'
    BY <1>2
  <1>6. \A i \in Jobs \ {j}, t \in Symbols : t \in job[i].cur /\ t # s => job'[i] = job[i]
    <2> SUFFICES ASSUME NEW i \in Jobs \ {j}, NEW t \in Symbols, t \in job[i].cur, t # s
                 PROVE  job'[i] = job[i]
      OBVIOUS
    <2>1. s \notin job[i].cur
      BY DEF Typed, JobsType, OnePartition
    <2>2. QED
      BY <1>3, <2>1
  <1>7. AloneIsAlone'
    <2>1. ASSUME NEW i \in Jobs, NEW t \in Symbols, t \in job'[i].cur
          PROVE  job'[i].alone \/ t \in spoiled'
      <3>1. CASE i = j
        BY <1>2, <2>1, <3>1
      <3>2. CASE i # j /\ t = s
        BY <1>3, <1>4, <2>1, <3>2
      <3>3. CASE i # j /\ t # s
        BY <1>3, <1>5, <1>6, <2>1, <3>3 DEF AloneIsAlone
      <3>4. QED
        BY <3>1, <3>2, <3>3
    <2>2. ASSUME NEW i \in Jobs, NEW k \in Jobs, NEW t \in Symbols,
                 t \in job'[i].cur, t \in job'[k].cur, k # i
          PROVE  ~job'[i].alone
      <3>1. CASE i = j
        <4>1. t = s /\ s \in job[k].cur /\ k \in Jobs \ {j}
          BY <1>2, <1>3, <2>2, <3>1
        <4>2. ~job'[j].alone
          BY <1>4, <4>1, Zenon
        <4>3. QED
          BY <3>1, <4>2, Zenon
      <3>2. CASE k = j
        <4>1. t = s /\ s \in job[i].cur /\ i \in Jobs \ {j}
          BY <1>2, <1>3, <2>2, <3>2
        <4>2. QED
          BY <1>4, <4>1, Zenon
      <3>3. CASE i # j /\ k # j
        BY <1>3, <2>2, <3>3 DEF AloneIsAlone
      <3>4. QED
        BY <3>1, <3>2, <3>3
    <2>3. QED
      BY <2>1, <2>2 DEF AloneIsAlone
  <1>8. ASSUME NEW t \in Symbols PROVE SymbolOK(t)'
    <2>1. SymbolOK(t) /\ Untouched(t) /\ (t \in spoiled => t \in spoiled')
      BY <1>5 DEF Contents
    <2>2. \A i \in Jobs : t \in job[i].cur => t \in job'[i].cur /\ job'[i].pc = job[i].pc
      BY <1>1, <1>3
    <2>3. QED
      BY <2>1, <2>2, SymbolKept
  <1>9. ASSUME NEW i \in Jobs \ {j} PROVE WorkOK(i)'
    <2>1. job[i] \in JobState /\ job[i].cur \subseteq Symbols /\ job'[i].cur = job[i].cur
      BY <1>3, JobFields DEF Typed
    <2>2. ASSUME NEW t \in job[i].cur PROVE RollOK(i, t)' /\ EnrichOK(i, t)'
      <3>1. RollOK(i, t) /\ EnrichOK(i, t) /\ t \in Symbols /\ Untouched(t)
        BY <2>1 DEF Contents, WorkOK
      <3>2. job'[i] = job[i] \/ job'[i] = [job[i] EXCEPT !.alone = FALSE]
        BY <1>3
      <3>3. t \in spoiled => t \in spoiled'
        BY <1>5
      <3>4. QED
        BY <2>1, <3>1, <3>2, <3>3, WorkKept
    <2>3. QED
      BY <2>1, <2>2 DEF WorkOK
  <1>10. WorkOK(j)'
    <2>1. job'[j].pc = "rollClean" => job'[j].df = SelectedFrame(j)'
      BY <1>2 DEF SelectedFrame
    <2>2. job'[j].pc = "fetch" => job'[j].df = daily'[s]
      BY <1>1, <1>2 DEF Untouched
    <2>3. RollOK(j, s)' /\ EnrichOK(j, s)'
      BY <1>2, <2>1, <2>2 DEF RollOK, EnrichOK
    <2>4. QED
      BY <1>2, <2>3 DEF WorkOK
  <1>11. QED
    BY <1>7, <1>8, <1>9, <1>10 DEF Contents

(* A job that is alone with a symbol it works on is the only one at it. *)
LEMMA SoleWorker ==
  ASSUME Typed, AloneIsAlone, NEW j \in Jobs, NEW s \in job[j].cur
  PROVE  /\ s \in Symbols /\ job[j].cur = {s}
         /\ s \notin spoiled => job[j].alone
         /\ job[j].alone => \A i \in Jobs : s \in job[i].cur => i = j
  BY JobFields DEF Typed, JobsType, OnePartition, AloneIsAlone

(* Rollup overwrites daily_clean with the rows it selected: no row of them   *)
(* is enriched, and the records of the enrichment view belong to the past.   *)
LEMMA RollupCleanStep ==
  ASSUME Typed, AloneIsAlone, Contents, NEW j \in Jobs, RollupClean(j)
  PROVE  AloneIsAlone' /\ Contents'
  <1>1. PICK s \in job[j].cur :
           /\ daily' = [daily EXCEPT ![s] = job[j].df]
           /\ seen' = [seen EXCEPT ![s] = [close |-> job[j].slots[1], part |-> job[j].part]]
           /\ base' = [base EXCEPT ![s] = log[s]]
    BY DEF RollupClean
  <1>2. /\ job[j].pc = "rollClean" /\ job' = [job EXCEPT ![j].pc = "rollAdjusted"]
        /\ UNCHANGED <<adjusted, log, spoiled>>
    BY DEF RollupClean
  <1>3. s \in Symbols /\ job[j].cur = {s}
    BY SoleWorker
  <1>4. /\ daily'[s] = job[j].df /\ base'[s] = log[s]
        /\ seen'[s] = [close |-> job[j].slots[1], part |-> job[j].part]
        /\ \A t \in Symbols \ {s} : Untouched(t)
    BY <1>1, <1>2, <1>3 DEF Typed, FilesType, Untouched
  <1>5. /\ \A i \in Jobs \ {j} : job'[i] = job[i]
        /\ job'[j].pc = "rollAdjusted" /\ job'[j].cur = {s} /\ job'[j].df = job[j].df
        /\ job'[j].part = job[j].part /\ job'[j].alone = job[j].alone
        /\ job'[j].view = job[j].view /\ job'[j].slots = job[j].slots
    BY <1>2, <1>3, GotoEffect DEF Typed, Between
  <1>6. /\ \A t \in Symbols \ {s} : SymbolOK(t)'
        /\ \A i \in Jobs \ {j} : WorkOK(i)'
        /\ AloneIsAlone'
    <2>1. /\ \A t \in Symbols \ {s} : Untouched(t) /\ (t \in spoiled' <=> t \in spoiled)
          /\ s \in spoiled => s \in spoiled' \/ job[j].alone
          /\ job'[j].cur \subseteq {s} /\ job'[j].alone = job[j].alone
      BY <1>2, <1>4, <1>5
    <2>2. QED
      BY <1>3, <1>5, <2>1, ElsewhereKept
  <1>7. job[j].df = SelectedFrame(j)
    BY <1>2 DEF Contents, WorkOK, RollOK
  <1>8. WorkOK(j)'
    <2>1. job'[j].df = SelectedFrame(j)'
      BY <1>5, <1>7 DEF SelectedFrame
    <2>2. RollOK(j, s)' /\ EnrichOK(j, s)'
      BY <1>2, <1>4, <1>5, <2>1 DEF RollOK, EnrichOK
    <2>3. QED
      BY <1>5, <2>2 DEF WorkOK
  <1>9. SymbolOK(s)'
    <2>1. /\ job[j].view \in Views /\ job[j].slots \in Nat \X Nat /\ job[j].part \in Part
          /\ job[j].df \in Frame /\ log \in [Symbols -> [Conids -> Nat]]
      BY JobFields DEF Typed, FilesType
    <2>2. seen'[s].close = job[j].slots[1] /\ seen'[s].part = job[j].part
      BY <1>4
    <2>3. \A c \in Conids :
             /\ daily'[s][c] = Selected(job[j].view, job[j].slots, job[j].part, c)
             /\ log'[s][c] - base'[s][c] = 0
      BY <1>2, <1>3, <1>4, <1>7, <2>1 DEF SelectedFrame
    <2>4. Chosen(s)'
      BY <2>1, <2>2, <2>3, SelectedRow DEF Chosen
    <2>5. Story(s, {})'
      BY <2>1, <2>3, SelectedRow DEF Story
    <2>6. QED
      BY <1>5, <2>4, <2>5 DEF SymbolOK
  <1>10. QED
    BY <1>6, <1>8, <1>9 DEF Contents

(* The second write of rollup: whatever happened to the symbol before, its  *)
(* files agree again if the job was alone with it.                          *)
LEMMA RollupAdjustedStep ==
  ASSUME Typed, AloneIsAlone, Contents, NEW j \in Jobs, RollupAdjusted(j)
  PROVE  AloneIsAlone' /\ Contents'
  <1>1. PICK s \in job[j].cur : /\ adjusted' = [adjusted EXCEPT ![s] = job[j].df]
                                /\ spoiled' = IF job[j].alone THEN spoiled \ {s} ELSE spoiled
    BY DEF RollupAdjusted
  <1>2. job[j].pc = "rollAdjusted" /\ NextPart(j, "roll") /\ UNCHANGED <<daily, log, seen, base>>
    BY DEF RollupAdjusted
  <1>3. s \in Symbols /\ job[j].cur = {s}
    BY SoleWorker
  <1>4. adjusted'[s] = job[j].df /\ \A t \in Symbols \ {s} : Untouched(t)
    BY <1>1, <1>2, <1>3 DEF Typed, FilesType, Untouched
  <1>5. job'[j].cur = {} /\ \A i \in Jobs \ {j} : job'[i] = job[i]
    BY <1>2, NextPartEffect DEF Typed
  <1>6. /\ \A t \in Symbols \ {s} : SymbolOK(t)'
        /\ \A i \in Jobs \ {j} : WorkOK(i)'
        /\ AloneIsAlone'
    <2>1. /\ \A t \in Symbols \ {s} : Untouched(t) /\ (t \in spoiled' <=> t \in spoiled)
          /\ s \in spoiled => s \in spoiled' \/ job[j].alone
          /\ job'[j].cur \subseteq {s}
      BY <1>1, <1>4, <1>5
    <2>2. QED
      BY <1>3, <1>5, <2>1, ElsewhereKept
  <1>7. WorkOK(j)'
    BY <1>5 DEF WorkOK
  <1>8. SymbolOK(s)'
    <2> SUFFICES ASSUME s \notin spoiled' PROVE SymbolOK(s)'
      BY DEF SymbolOK
    <2>1. job[j].alone
      BY <1>1, SoleWorker
    <2>2. /\ daily[s] = SelectedFrame(j) /\ job[j].df = daily[s] /\ base[s] = log[s]
          /\ seen[s] = [close |-> job[j].slots[1], part |-> job[j].part]
      BY <1>2, <2>1 DEF Contents, WorkOK, RollOK
    <2>3. /\ job[j].view \in Views /\ job[j].slots \in Nat \X Nat /\ job[j].part \in Part
          /\ job[j].df \in Frame /\ log \in [Symbols -> [Conids -> Nat]]
      BY JobFields DEF Typed, FilesType
    <2>4. seen'[s].close = job[j].slots[1] /\ seen'[s].part = job[j].part
      BY <1>2, <2>2
    <2>5. \A c \in Conids :
             /\ daily'[s][c] = Selected(job[j].view, job[j].slots, job[j].part, c)
             /\ log'[s][c] - base'[s][c] = 0
      BY <1>2, <1>3, <2>2, <2>3 DEF SelectedFrame
    <2>6. Chosen(s)'
      BY <2>3, <2>4, <2>5, SelectedRow DEF Chosen
    <2>7. Story(s, {})'
      BY <2>3, <2>5, SelectedRow DEF Story
    <2>8. adjusted'[s] = daily'[s]
      BY <1>2, <1>4, <2>2
    <2>9. QED
      BY <2>6, <2>7, <2>8 DEF SymbolOK
  <1>9. QED
    BY <1>6, <1>7, <1>8 DEF Contents

(* The answers are put into the rows the job had read, which the file still *)
(* holds unless the symbol is spoiled.                                      *)
LEMMA EnrichFetchStep ==
  ASSUME Typed, AloneIsAlone, Contents, NEW j \in Jobs, EnrichFetch(j)
  PROVE  AloneIsAlone' /\ Contents'
  <1>1. job[j].pc = "fetch" /\ UNCHANGED <<files, seen, base, spoiled>>
    BY DEF EnrichFetch, Wanting, Fetched
  <1>2. (\A t \in Symbols : Untouched(t)) /\ spoiled \subseteq spoiled'
    BY <1>1 DEF files, Untouched
  <1>3. CASE NextPart(j, "enrich")
    <2>1. job'[j].cur = {} /\ \A i \in Jobs \ {j} : job'[i] = job[i]
      BY <1>3, NextPartEffect DEF Typed
    <2>2. WorkOK(j)'
      BY <2>1 DEF WorkOK
    <2>3. QED
      BY <1>1, <1>2, <2>1, <2>2, QuietStep DEF Contents
  <1>4. CASE \E hits \in SUBSET Wanting(j) : Fetched(j, hits)
    <2>1. PICK hits \in SUBSET Wanting(j) : Fetched(j, hits)
      BY <1>4
    <2>2. /\ job'[j].pc = "enrichClean" /\ job'[j].cur = job[j].cur /\ job'[j].hits = hits
          /\ job'[j].df = [c \in Conids |-> IF c \in hits
                                            THEN Enriched(job[j].df[c], job[j].force)
                                            ELSE job[j].df[c]]
          /\ job'[j].force = job[j].force /\ job'[j].alone = job[j].alone
          /\ \A i \in Jobs \ {j} : job'[i] = job[i]
      BY <1>1, <2>1, FetchEffect DEF Typed
    <2>3. /\ \A t \in Symbols : SymbolOK(t)'
          /\ \A i \in Jobs \ {j} : WorkOK(i)'
          /\ AloneIsAlone'
      BY <1>1, <1>2, <2>2, QuietStep
    <2>4. ASSUME NEW t \in job[j].cur PROVE RollOK(j, t)' /\ EnrichOK(j, t)'
      <3>1. t \in Symbols /\ Untouched(t) /\ (t \notin spoiled => job[j].df = daily[t])
        BY <1>1, <1>2, SoleWorker DEF Contents, WorkOK, EnrichOK
      <3>2. RollOK(j, t)'
        BY <2>2 DEF RollOK
      <3>3. ASSUME t \notin spoiled'
            PROVE  /\ \A c \in job'[j].hits : NeedsOpenInterest(daily'[t][c], job'[j].force)
                   /\ job'[j].df = EnrichedFrame(j, daily[t])'
        <4>1. daily'[t] = job[j].df
          BY <1>1, <3>1, <3>3 DEF Untouched
        <4>2. QED
          BY <2>2, <4>1 DEF EnrichedFrame, Wanting
      <3>4. QED
        BY <2>2, <3>2, <3>3 DEF EnrichOK
    <2>5. WorkOK(j)'
      BY <2>2, <2>4 DEF WorkOK
    <2>6. QED
      BY <2>3, <2>5 DEF Contents
  <1>5. QED
    BY <1>3, <1>4 DEF EnrichFetch, Wanting, Fetched

(* Enrichment overwrites daily_clean: the selection is still the one of the *)
(* last rollup, and the records of the enriched rows are due.               *)
LEMMA EnrichCleanStep ==
  ASSUME Typed, AloneIsAlone, RowsHonest, Contents, NEW j \in Jobs, EnrichClean(j)
  PROVE  AloneIsAlone' /\ Contents'
  <1>1. job[j].pc = "enrichClean" /\ UNCHANGED <<adjusted, log, seen, base, spoiled>>
    BY DEF EnrichClean
  <1>2. CASE NextPart(j, "enrich") /\ UNCHANGED daily
    <2>1. job'[j].cur = {} /\ \A i \in Jobs \ {j} : job'[i] = job[i]
      BY <1>2, NextPartEffect DEF Typed
    <2>2. WorkOK(j)'
      BY <2>1 DEF WorkOK
    <2>3. (\A t \in Symbols : Untouched(t)) /\ spoiled \subseteq spoiled'
      BY <1>1, <1>2 DEF Untouched
    <2>4. QED
      BY <1>1, <2>1, <2>2, <2>3, QuietStep DEF Contents
  <1>3. CASE /\ \E s \in job[j].cur : daily' = [daily EXCEPT ![s] = job[j].df]
             /\ job' = [job EXCEPT ![j].pc = "enrichAdjusted"]
    <2>1. PICK s \in job[j].cur : daily' = [daily EXCEPT ![s] = job[j].df]
      BY <1>3
    <2>2. s \in Symbols /\ job[j].cur = {s}
      BY SoleWorker
    <2>3. daily'[s] = job[j].df /\ \A t \in Symbols \ {s} : Untouched(t)
      BY <1>1, <2>1, <2>2 DEF Typed, FilesType, Untouched
    <2>4. /\ \A i \in Jobs \ {j} : job'[i] = job[i]
          /\ job'[j].pc = "enrichAdjusted" /\ job'[j].cur = {s} /\ job'[j].df = job[j].df
          /\ job'[j].hits = job[j].hits /\ job'[j].alone = job[j].alone
      BY <1>1, <1>3, <2>2, GotoEffect DEF Typed, Between
    <2>5. /\ \A t \in Symbols \ {s} : SymbolOK(t)'
          /\ \A i \in Jobs \ {j} : WorkOK(i)'
          /\ AloneIsAlone'
      <3>1. /\ \A t \in Symbols \ {s} : Untouched(t) /\ (t \in spoiled' <=> t \in spoiled)
            /\ s \in spoiled => s \in spoiled' \/ job[j].alone
            /\ job'[j].cur \subseteq {s}
        BY <1>1, <2>3, <2>4
      <3>2. QED
        BY <2>2, <2>4, <3>1, ElsewhereKept
    <2>6. ASSUME s \notin spoiled PROVE Chosen(s)' /\ Story(s, job[j].hits)'
      <3>1. /\ \A c \in job[j].hits : NeedsOpenInterest(daily[s][c], job[j].force)
            /\ job[j].df = EnrichedFrame(j, daily[s])
        BY <1>1, <2>6 DEF Contents, WorkOK, EnrichOK
      <3>2. Chosen(s) /\ Story(s, {})
        <4>1. \A i \in Jobs : s \in job[i].cur => job[i].pc \notin {"enrichAdjusted", "enrichLog"}
          BY <1>1, <2>6, SoleWorker
        <4>2. QED
          BY <2>2, <2>6, <4>1 DEF Contents, SymbolOK
      <3>3. /\ daily[s] \in Frame /\ job[j].force \in BOOLEAN
            /\ log[s] \in [Conids -> Nat] /\ base[s] \in [Conids -> Nat]
        BY <2>2, JobFields DEF Typed, FilesType
      <3>4. ASSUME NEW c \in Conids
            PROVE  LET row == daily[s][c]
                       new == daily'[s][c]
                   IN /\ c \in job[j].hits =>
                            /\ row \in DayRow /\ new = Enriched(row, job[j].force)
                            /\ job[j].force \/ row.oi = Missing
                      /\ c \notin job[j].hits => new = row
        <4>1. daily[s][c] \in DayRow \cup {NoRow}
          BY <3>3 DEF Frame
        <4>2. QED
          BY <2>3, <3>1, <4>1 DEF EnrichedFrame, NeedsOpenInterest
      <3>5. Chosen(s)'
        <4> SUFFICES ASSUME NEW c \in Conids
                     PROVE  LET good == Good(seen'[s].part, c)
                                row  == daily'[s][c]
                            IN /\ row = NoRow <=> good = {}
                               /\ row # NoRow =>
                                     /\ row.slot \in good
                                     /\ seen'[s].close \in good => row.slot = seen'[s].close
                                     /\ row.ver = seen'[s].part[c][row.slot].ver
          BY DEF Chosen, Good
        <4>1. seen' = seen
          BY <1>1
        <4>2. CASE c \notin job[j].hits
          BY <3>2, <3>4, <4>1, <4>2 DEF Chosen
        <4>3. CASE c \in job[j].hits
          <5>1. /\ daily[s][c] \in DayRow
                /\ daily'[s][c] = Enriched(daily[s][c], job[j].force)
            BY <3>4, <4>3
          <5>2. /\ daily'[s][c] \in DayRow /\ daily'[s][c].slot = daily[s][c].slot
                /\ daily'[s][c].ver = daily[s][c].ver
            BY <3>3, <5>1, EnrichedRow
          <5>3. QED
            BY <3>2, <4>1, <5>1, <5>2, NoRowAssumption DEF Chosen
        <4>4. QED
          BY <4>2, <4>3
      <3>6. Story(s, job[j].hits)'
        <4> SUFFICES ASSUME NEW c \in Conids
                     PROVE  LET row == daily'[s][c]
                                new == log[s][c] - base[s][c]
                                          + (IF c \in job[j].hits THEN 1 ELSE 0)
                            IN /\ new > 0 <=> row # NoRow /\ "oi_enriched" \in row.flags
                               /\ new > 1 => "oi_overwritten" \in row.flags
          BY <1>1, <2>4 DEF Story
        <4>1. CASE c \notin job[j].hits
          BY <3>2, <3>4, <4>1 DEF Story
        <4>2. CASE c \in job[j].hits
          <5>1. /\ daily[s][c] \in DayRow
                /\ daily'[s][c] = Enriched(daily[s][c], job[j].force)
                /\ job[j].force \/ daily[s][c].oi = Missing
            BY <3>4, <4>2
          <5>2. /\ daily'[s][c] \in DayRow /\ "oi_enriched" \in daily'[s][c].flags
                /\ job[j].force /\ daily[s][c].oi # Missing
                      => "oi_overwritten" \in daily'[s][c].flags
            BY <3>3, <5>1, EnrichedRow
          <5>3. /\ base[s][c] \in Nat /\ log[s][c] \in Nat /\ base[s][c] <= log[s][c]
                /\ log[s][c] - base[s][c] > 0 => "oi_enriched" \in daily[s][c].flags
            BY <2>2, <3>2, <3>3 DEF RowsHonest, Story
          <5>4. "oi_enriched" \in daily[s][c].flags => daily[s][c].oi # Missing
            BY <2>2, <5>1, NoRowAssumption DEF RowsHonest, EnrichedHasOI
          <5>5. daily'[s][c] # NoRow
            BY <5>2, NoRowAssumption
          <5>6. CASE log[s][c] - base[s][c] > 0
            BY <4>2, <5>1, <5>2, <5>3, <5>4, <5>5, <5>6
          <5>7. CASE log[s][c] - base[s][c] = 0
            BY <4>2, <5>2, <5>5, <5>7
          <5>8. QED
            BY <5>3, <5>6, <5>7
        <4>3. QED
          BY <4>1, <4>2
      <3>7. QED
        BY <3>5, <3>6
    <2>7. SymbolOK(s)'
      BY <1>1, <2>4, <2>6 DEF SymbolOK
    <2>8. WorkOK(j)'
      <3>1. s \notin spoiled' => daily'[s] = job'[j].df /\ Story(s, job[j].hits)'
        BY <1>1, <2>3, <2>4, <2>6
      <3>2. RollOK(j, s)' /\ EnrichOK(j, s)'
        BY <2>4, <3>1 DEF RollOK, EnrichOK, Story
      <3>3. QED
        BY <2>4, <3>2 DEF WorkOK
    <2>9. QED
      BY <2>5, <2>7, <2>8 DEF Contents
  <1>4. QED
    BY <1>2, <1>3 DEF EnrichClean

(* The second write of enrichment brings the adjusted view up to date, or    *)
(* spoils the symbol.                                                        *)
LEMMA EnrichAdjustedStep ==
  ASSUME Typed, AloneIsAlone, Contents, NEW j \in Jobs, EnrichAdjusted(j)
  PROVE  AloneIsAlone' /\ Contents'
  <1>1. PICK s \in job[j].cur :
           \/ adjusted' = [adjusted EXCEPT ![s] = job[j].df] /\ UNCHANGED spoiled
           \/ spoiled' = spoiled \cup {s} /\ UNCHANGED adjusted
    BY DEF EnrichAdjusted
  <1>2. /\ job[j].pc = "enrichAdjusted" /\ job' = [job EXCEPT ![j].pc = "enrichLog"]
        /\ UNCHANGED <<daily, log, seen, base>>
    BY DEF EnrichAdjusted
  <1>3. s \in Symbols /\ job[j].cur = {s}
    BY SoleWorker
  <1>4. /\ \A i \in Jobs \ {j} : job'[i] = job[i]
        /\ job'[j].pc = "enrichLog" /\ job'[j].cur = {s} /\ job'[j].df = job[j].df
        /\ job'[j].hits = job[j].hits /\ job'[j].alone = job[j].alone
    BY <1>2, <1>3, GotoEffect DEF Typed, Between
  <1>5. /\ \A t \in Symbols \ {s} : Untouched(t) /\ (t \in spoiled' <=> t \in spoiled)
        /\ spoiled \subseteq spoiled'
        /\ s \notin spoiled' => adjusted'[s] = job[j].df
    BY <1>1, <1>2, <1>3 DEF Typed, FilesType, Untouched
  <1>6. /\ \A t \in Symbols \ {s} : SymbolOK(t)'
        /\ \A i \in Jobs \ {j} : WorkOK(i)'
        /\ AloneIsAlone'
    <2>1. (s \in spoiled => s \in spoiled' \/ job[j].alone) /\ job'[j].cur \subseteq {s}
      BY <1>4, <1>5
    <2>2. QED
      BY <1>3, <1>4, <1>5, <2>1, ElsewhereKept
  <1>7. ASSUME s \notin spoiled'
        PROVE  /\ daily[s] = job[j].df /\ Chosen(s)'
               /\ Story(s, job[j].hits)'
    <2>1. daily[s] = job[j].df /\ Story(s, job[j].hits) /\ Chosen(s)
      BY <1>2, <1>3, <1>5, <1>7 DEF Contents, WorkOK, EnrichOK, SymbolOK
    <2>2. Chosen(s)' <=> Chosen(s)
      BY <1>2, Zenon DEF Chosen
    <2>3. Story(s, job[j].hits)' <=> Story(s, job[j].hits)
      BY <1>2, <1>4, Zenon DEF Story
    <2>4. QED
      BY <2>1, <2>2, <2>3
  <1>8. SymbolOK(s)'
    BY <1>2, <1>4, <1>5, <1>7 DEF SymbolOK
  <1>9. RollOK(j, s)' /\ EnrichOK(j, s)'
    BY <1>2, <1>4, <1>7 DEF RollOK, EnrichOK
  <1>10. WorkOK(j)'
    BY <1>4, <1>9 DEF WorkOK
  <1>11. QED
    BY <1>6, <1>8, <1>10 DEF Contents

(* The last write of enrichment settles the accounts. *)
LEMMA EnrichLogStep ==
  ASSUME Typed, AloneIsAlone, Contents, NEW j \in Jobs, EnrichLog(j)
  PROVE  AloneIsAlone' /\ Contents'
  <1>1. PICK s \in job[j].cur :
           log' = [log EXCEPT ![s] = [c \in Conids |-> IF c \in job[j].hits
                                                       THEN @[c] + 1 ELSE @[c]]]
    BY DEF EnrichLog
  <1>2. /\ job[j].pc = "enrichLog" /\ NextPart(j, "enrich")
        /\ UNCHANGED <<daily, adjusted, seen, base, spoiled>>
    BY DEF EnrichLog
  <1>3. s \in Symbols /\ job[j].cur = {s}
    BY SoleWorker
  <1>4. job'[j].cur = {} /\ \A i \in Jobs \ {j} : job'[i] = job[i]
    BY <1>2, NextPartEffect DEF Typed
  <1>5. /\ log'[s] = [c \in Conids |-> IF c \in job[j].hits THEN log[s][c] + 1 ELSE log[s][c]]
        /\ \A t \in Symbols \ {s} : Untouched(t)
    BY <1>1, <1>2, <1>3 DEF Typed, FilesType, Untouched
  <1>6. /\ \A t \in Symbols \ {s} : SymbolOK(t)'
        /\ \A i \in Jobs \ {j} : WorkOK(i)'
        /\ AloneIsAlone'
    <2>1. /\ \A t \in Symbols \ {s} : Untouched(t) /\ (t \in spoiled' <=> t \in spoiled)
          /\ s \in spoiled => s \in spoiled' \/ job[j].alone
          /\ job'[j].cur \subseteq {s}
      BY <1>2, <1>4, <1>5
    <2>2. QED
      BY <1>3, <1>4, <2>1, ElsewhereKept
  <1>7. WorkOK(j)'
    BY <1>4 DEF WorkOK
  <1>8. SymbolOK(s)'
    <2> SUFFICES ASSUME s \notin spoiled PROVE SymbolOK(s)'
      BY <1>2 DEF SymbolOK
    <2>1. Story(s, job[j].hits) /\ Chosen(s) /\ adjusted[s] = daily[s]
      <3>1. \A i \in Jobs : s \in job[i].cur => job[i].pc \notin {"rollAdjusted", "enrichAdjusted"}
        BY <1>2, SoleWorker
      <3>2. QED
        BY <1>2, <1>3, <3>1 DEF Contents, WorkOK, EnrichOK, SymbolOK
    <2>2. Chosen(s)'
      BY <1>2, <2>1, Zenon DEF Chosen
    <2>3. log[s] \in [Conids -> Nat] /\ base[s] \in [Conids -> Nat]
      BY <1>3 DEF Typed, FilesType
    <2>4. \A c \in Conids : log'[s][c] - base'[s][c] + 0
                            = log[s][c] - base[s][c] + (IF c \in job[j].hits THEN 1 ELSE 0)
      BY <1>2, <1>5, <2>3
    <2>5. Story(s, {})'
      BY <1>2, <2>1, <2>4 DEF Story
    <2>6. QED
      BY <1>2, <2>1, <2>2, <2>5 DEF SymbolOK
  <1>9. QED
    BY <1>6, <1>7, <1>8 DEF Contents

(* A job that is stopped between two writes spoils its symbol. *)
LEMMA StopStep ==
  ASSUME Typed, AloneIsAlone, Contents, NEW j \in Jobs, Stop(j)
  PROVE  AloneIsAlone' /\ Contents'
  <1>1. job'[j].cur = {} /\ \A i \in Jobs \ {j} : job'[i] = job[i]
    BY StopEffect DEF Typed
  <1>2. /\ \A t \in Symbols : Untouched(t)
        /\ spoiled \subseteq spoiled'
        /\ job[j].pc \in {"rollAdjusted", "enrichAdjusted", "enrichLog"}
              => job[j].cur \subseteq spoiled'
    BY DEF Stop, files, Untouched
  <1>3. WorkOK(j)'
    BY <1>1 DEF WorkOK
  <1>4. QED
    BY <1>1, <1>2, <1>3, QuietStep DEF Contents

(* A capture adds to what the next rollup reads; nothing read so far changes. *)
LEMMA CaptureStep ==
  ASSUME AloneIsAlone, Contents, UNCHANGED <<files, job, seen, base, spoiled>>
  PROVE  AloneIsAlone' /\ Contents'
  <1>1. UNCHANGED <<daily, adjusted, log, job, seen, base, spoiled>>
    BY DEF files
  <1>2. AloneIsAlone' <=> AloneIsAlone
    BY <1>1, Zenon DEF AloneIsAlone
  <1>3. \A t \in Symbols : SymbolOK(t)'
    <2>1. ASSUME NEW t \in Symbols PROVE SymbolOK(t)'
      <3>1. Untouched(t) /\ SymbolOK(t) /\ (t \in spoiled => t \in spoiled')
        BY <1>1 DEF Untouched, Contents
      <3>2. t \in spoiled' \/ \A i \in Jobs : t \in job[i].cur =>
               \/ job[i].pc \notin {"rollAdjusted", "enrichAdjusted", "enrichLog"}
               \/ t \in job'[i].cur /\ job'[i].pc = job[i].pc
        BY <1>1
      <3>3. QED
        BY <3>1, <3>2, SymbolKept
    <2>2. QED
      BY <2>1
  <1>4. \A j \in Jobs : WorkOK(j)'
    <2>1. ASSUME NEW j \in Jobs, NEW t \in job[j].cur PROVE RollOK(j, t)' /\ EnrichOK(j, t)'
      <3>1. RollOK(j, t) /\ EnrichOK(j, t)
        BY DEF Contents, WorkOK
      <3>2. RollOK(j, t)'
        BY <1>1, <3>1 DEF RollOK, SelectedFrame
      <3>3. Story(t, job[j].hits)' <=> Story(t, job[j].hits)
        BY <1>1, Zenon DEF Story
      <3>4. EnrichOK(j, t)'
        BY <1>1, <3>1, <3>3 DEF EnrichOK, EnrichedFrame
      <3>5. QED
        BY <3>2, <3>4
    <2>2. QED
      BY <1>1, <2>1 DEF WorkOK
  <1>5. QED
    BY <1>2, <1>3, <1>4 DEF Contents

LEMMA ContentsStep ==
  ASSUME Typed, AloneIsAlone, RowsHonest, Contents, [Next]_vars
  PROVE  AloneIsAlone' /\ Contents'
  <1>1. CASE UNCHANGED vars
    BY <1>1, CaptureStep DEF vars
  <1>2. ASSUME NEW v \in Views, NEW s \in Symbols, NEW k \in Slots, Capture(v, s, k)
        PROVE  AloneIsAlone' /\ Contents'
    BY <1>2, CaptureStep DEF Capture
  <1>3. ASSUME NEW j \in Jobs, RollupStart(j) \/ EnrichStart(j) \/ Finish(j)
        PROVE  AloneIsAlone' /\ Contents'
    <2>1. job[j].pc \in Between
      BY <1>3 DEF RollupStart, EnrichStart, Finish, Between
    <2>2. /\ job'[j].cur = {} /\ \A i \in Jobs \ {j} : job'[i] = job[i]
          /\ UNCHANGED <<files, seen, base, spoiled>>
      BY <1>3, <2>1, StartEffect DEF Typed
    <2>3. (\A t \in Symbols : Untouched(t)) /\ spoiled \subseteq spoiled'
      BY <2>2 DEF files, Untouched
    <2>4. WorkOK(j)'
      BY <2>2 DEF WorkOK
    <2>5. QED
      BY <2>1, <2>2, <2>3, <2>4, QuietStep DEF Contents, Between
  <1>4. ASSUME NEW j \in Jobs, NEW s \in job[j].todo, SkipPart(j, s),
               job[j].pc \in {"roll", "enrich"}, UNCHANGED <<files, seen, base>>
        PROVE  AloneIsAlone' /\ Contents'
    <2>1. /\ job'[j].cur = {} /\ \A i \in Jobs \ {j} : job'[i] = job[i]
          /\ spoiled' = spoiled
      BY <1>4, SkipPartEffect DEF Typed
    <2>2. (\A t \in Symbols : Untouched(t)) /\ spoiled \subseteq spoiled'
      BY <1>4, <2>1 DEF files, Untouched
    <2>3. WorkOK(j)'
      BY <2>1 DEF WorkOK
    <2>4. QED
      BY <1>4, <2>1, <2>2, <2>3, QuietStep DEF Contents
  <1>5. ASSUME NEW j \in Jobs, RollupRead(j) PROVE AloneIsAlone' /\ Contents'
    <2>1. PICK s \in job[j].todo :
             LET part == snap[job[j].view][s]
                 df   == [c \in Conids |-> Selected(job[j].view, job[j].slots, part, c)]
             IN IF df = NoFrame THEN SkipPart(j, s) ELSE OpenPart(j, s, "rollClean", part, df)
      BY <1>5 DEF RollupRead
    <2>2. /\ job[j].pc \in {"roll", "enrich"} /\ UNCHANGED <<files, seen, base>>
          /\ \A t \in Symbols : Untouched(t)
      BY <1>5 DEF RollupRead, files, Untouched
    <2>3. snap[job[j].view][s] \in Part
      BY JobFields DEF Typed, FilesType
    <2>4. PICK part \in Part : part = snap[job[j].view][s]
      BY <2>3
    <2> DEFINE df == [c \in Conids |-> Selected(job[j].view, job[j].slots, part, c)]
    <2>5. df \in Frame
      BY JobFields, SelectedFrameType DEF Typed
    <2>6. SkipPart(j, s) \/ OpenPart(j, s, "rollClean", part, df)
      BY <2>1, <2>4
    <2>7. df = [c \in Conids |-> Selected(job[j].view, job[j].slots, part, c)]
      OBVIOUS
    <2> HIDE DEF df
    <2>8. CASE OpenPart(j, s, "rollClean", part, df)
      BY <2>2, <2>5, <2>7, <2>8, OpenStep
    <2>9. QED
      BY <1>4, <2>2, <2>6, <2>8
  <1>6. ASSUME NEW j \in Jobs, EnrichRead(j) PROVE AloneIsAlone' /\ Contents'
    <2>1. PICK s \in job[j].todo : SkipPart(j, s) \/ OpenPart(j, s, "fetch", NoPart, daily[s])
      BY <1>6 DEF EnrichRead
    <2>2. /\ job[j].pc \in {"roll", "enrich"} /\ UNCHANGED <<files, seen, base>>
          /\ \A t \in Symbols : Untouched(t)
      BY <1>6 DEF EnrichRead, files, Untouched
    <2>3. daily[s] \in Frame /\ NoPart \in Part
      BY JobFields, EmptyFrames DEF Typed, FilesType
    <2>4. PICK df \in Frame : df = daily[s]
      BY <2>3
    <2>5. CASE OpenPart(j, s, "fetch", NoPart, df)
      BY <2>2, <2>3, <2>4, <2>5, OpenStep
    <2>6. QED
      BY <1>4, <2>1, <2>2, <2>4, <2>5
  <1>7. QED
    BY <1>1, <1>2, <1>3, <1>5, <1>6, RollupCleanStep, RollupAdjustedStep, EnrichFetchStep,
       EnrichCleanStep, EnrichAdjustedStep, EnrichLogStep, StopStep DEF Next, Rollup, Enrich

-------------------------------------------------------------------------------
(* An enriched row has an open interest, wherever it is: in a file, or in a  *)
(* job that is about to write it.                                            *)
LEMMA NewJobHonest ==
  ASSUME RowsHonest, NEW j \in Jobs, \A i \in Jobs \ {j} : job'[i].df = job[i].df,
         EnrichedHasOI(job'[j].df), UNCHANGED <<daily, log, base>>
  PROVE  RowsHonest'
  <1>1. \A i \in Jobs : EnrichedHasOI(job'[i].df)
    <2>1. ASSUME NEW i \in Jobs PROVE EnrichedHasOI(job'[i].df)
      BY DEF RowsHonest
    <2>2. QED
      BY <2>1
  <1>2. QED
    BY <1>1 DEF RowsHonest, EnrichedHasOI

LEMMA HonestFrames ==
  /\ EnrichedHasOI(NoFrame)
  /\ \A view \in Views, slots \in Nat \X Nat, part \in Part :
        EnrichedHasOI([c \in Conids |-> Selected(view, slots, part, c)])
  <1>1. EnrichedHasOI(NoFrame)
    BY DEF EnrichedHasOI, NoFrame
  <1>2. ASSUME NEW view \in Views, NEW slots \in Nat \X Nat, NEW part \in Part
        PROVE  EnrichedHasOI([c \in Conids |-> Selected(view, slots, part, c)])
    BY SelectedRow DEF EnrichedHasOI
  <1>3. QED
    BY <1>1, <1>2

LEMMA OpenedRows ==
  ASSUME JobsType, NEW j \in Jobs, job[j].pc \in {"roll", "enrich"}, NEW s \in job[j].todo,
         NEW step \in {"rollClean", "fetch"}, NEW part \in Part, NEW df \in Frame,
         OpenPart(j, s, step, part, df)
  PROVE  job'[j].df = df /\ \A i \in Jobs \ {j} : job'[i].df = job[i].df
  <1>1. /\ job'[j].df = df
        /\ \A i \in Jobs \ {j} :
              job'[i] = IF s \in job[i].cur THEN [job[i] EXCEPT !.alone = FALSE] ELSE job[i]
    BY OpenPartEffect
  <1>2. \A i \in Jobs : job[i] \in JobState
    BY JobFields
  <1>3. QED
    BY <1>1, <1>2 DEF JobState

LEMMA HonestStep ==
  ASSUME Typed, RowsHonest, [Next]_vars
  PROVE  RowsHonest'
  <1>1. CASE UNCHANGED vars
    BY <1>1, Zenon DEF vars, files, RowsHonest, EnrichedHasOI
  <1>2. ASSUME NEW v \in Views, NEW s \in Symbols, NEW k \in Slots, Capture(v, s, k)
        PROVE  RowsHonest'
    BY <1>2, Zenon DEF Capture, files, RowsHonest, EnrichedHasOI
  <1>3. ASSUME NEW j \in Jobs, RollupStart(j) \/ EnrichStart(j) \/ Finish(j) PROVE RowsHonest'
    <2>1. job[j].pc \in Between
      BY <1>3 DEF RollupStart, EnrichStart, Finish, Between
    <2>2. job'[j].df = NoFrame /\ (\A i \in Jobs \ {j} : job'[i] = job[i])
          /\ UNCHANGED <<daily, log, base>>
      BY <1>3, <2>1, StartEffect DEF Typed, files
    <2>3. QED
      BY <2>2, HonestFrames, NewJobHonest
  <1>4. ASSUME NEW j \in Jobs, NEW s \in job[j].todo, SkipPart(j, s),
               job[j].pc \in {"roll", "enrich"}, UNCHANGED <<files, base>>
        PROVE  RowsHonest'
    <2>1. job'[j].df = job[j].df /\ (\A i \in Jobs \ {j} : job'[i] = job[i])
          /\ UNCHANGED <<daily, log, base>>
      BY <1>4, SkipPartEffect DEF Typed, files
    <2>2. EnrichedHasOI(job'[j].df)
      BY <2>1 DEF RowsHonest
    <2>3. QED
      BY <2>1, <2>2, NewJobHonest
  <1>5. ASSUME NEW j \in Jobs, NEW s \in job[j].todo, job[j].pc \in {"roll", "enrich"},
               NEW step \in {"rollClean", "fetch"}, NEW part \in Part, NEW df \in Frame,
               OpenPart(j, s, step, part, df), EnrichedHasOI(df), UNCHANGED <<files, base>>
        PROVE  RowsHonest'
    <2>1. job'[j].df = df /\ \A i \in Jobs \ {j} : job'[i].df = job[i].df
      BY <1>5, OpenedRows DEF Typed
    <2>2. EnrichedHasOI(job'[j].df) /\ UNCHANGED <<daily, log, base>>
      BY <1>5, <2>1 DEF files
    <2>3. QED
      BY <2>1, <2>2, NewJobHonest
  <1>6. ASSUME NEW j \in Jobs, RollupRead(j) PROVE RowsHonest'
    <2>1. PICK s \in job[j].todo :
             LET part == snap[job[j].view][s]
                 df   == [c \in Conids |-> Selected(job[j].view, job[j].slots, part, c)]
             IN IF df = NoFrame THEN SkipPart(j, s) ELSE OpenPart(j, s, "rollClean", part, df)
      BY <1>6 DEF RollupRead
    <2>2. job[j].pc \in {"roll", "enrich"} /\ UNCHANGED <<files, base>>
      BY <1>6 DEF RollupRead
    <2>3. snap[job[j].view][s] \in Part
      BY JobFields DEF Typed, FilesType
    <2>4. PICK part \in Part : part = snap[job[j].view][s]
      BY <2>3
    <2> DEFINE df == [c \in Conids |-> Selected(job[j].view, job[j].slots, part, c)]
    <2>5. df \in Frame /\ EnrichedHasOI(df)
      BY JobFields, SelectedFrameType, HonestFrames DEF Typed
    <2>6. SkipPart(j, s) \/ OpenPart(j, s, "rollClean", part, df)
      BY <2>1, <2>4
    <2> HIDE DEF df
    <2>7. QED
      BY <1>4, <1>5, <2>2, <2>5, <2>6
  <1>7. ASSUME NEW j \in Jobs, EnrichRead(j) PROVE RowsHonest'
    <2>1. PICK s \in job[j].todo : SkipPart(j, s) \/ OpenPart(j, s, "fetch", NoPart, daily[s])
      BY <1>7 DEF EnrichRead
    <2>2. job[j].pc \in {"roll", "enrich"} /\ UNCHANGED <<files, base>>
      BY <1>7 DEF EnrichRead
    <2>3. s \in Symbols /\ daily[s] \in Frame /\ NoPart \in Part
      BY JobFields, EmptyFrames DEF Typed, FilesType
    <2>4. PICK df \in Frame : df = daily[s] /\ EnrichedHasOI(df)
      BY <2>3 DEF RowsHonest
    <2>5. QED
      BY <1>4, <1>5, <2>1, <2>2, <2>3, <2>4
  <1>8. ASSUME NEW j \in Jobs, NextPart(j, "roll") \/ NextPart(j, "enrich"),
               \A s \in Symbols, c \in Conids : base'[s][c] <= log'[s][c], UNCHANGED daily
        PROVE  RowsHonest'
    <2>1. job'[j].df = NoFrame /\ \A i \in Jobs \ {j} : job'[i] = job[i]
      BY <1>8, NextPartEffect DEF Typed
    <2>2. \A i \in Jobs : EnrichedHasOI(job'[i].df)
      BY <2>1, HonestFrames DEF RowsHonest
    <2>3. QED
      BY <1>8, <2>2 DEF RowsHonest, EnrichedHasOI
  <1>9. ASSUME NEW j \in Jobs, NEW s \in job[j].cur, daily' = [daily EXCEPT ![s] = job[j].df],
               NEW step \in {"rollAdjusted", "enrichAdjusted"},
               job[j].pc \notin Between, job' = [job EXCEPT ![j].pc = step],
               \A t \in Symbols, c \in Conids : base'[t][c] <= log'[t][c]
        PROVE  RowsHonest'
    <2>1. job'[j].df = job[j].df /\ \A i \in Jobs \ {j} : job'[i] = job[i]
      BY <1>9, GotoEffect DEF Typed
    <2>2. \A i \in Jobs : EnrichedHasOI(job'[i].df)
      BY <2>1 DEF RowsHonest
    <2>3. \A t \in Symbols : daily'[t] = daily[t] \/ daily'[t] = job[j].df
      BY <1>9 DEF Typed, FilesType
    <2>4. \A t \in Symbols : EnrichedHasOI(daily'[t])
      BY <2>3 DEF RowsHonest
    <2>5. QED
      BY <1>9, <2>2, <2>4 DEF RowsHonest, EnrichedHasOI
  <1>10. ASSUME NEW j \in Jobs, RollupClean(j) PROVE RowsHonest'
    <2>1. PICK s \in job[j].cur : /\ daily' = [daily EXCEPT ![s] = job[j].df]
                                  /\ base' = [base EXCEPT ![s] = log[s]]
      BY <1>10 DEF RollupClean
    <2>2. /\ job[j].pc \notin Between /\ job' = [job EXCEPT ![j].pc = "rollAdjusted"]
          /\ UNCHANGED log
      BY <1>10 DEF RollupClean, Between
    <2>3. \A t \in Symbols, c \in Conids : base'[t][c] <= log'[t][c]
      BY <2>1, <2>2 DEF RowsHonest, Typed, FilesType
    <2>4. QED
      BY <1>9, <2>1, <2>2, <2>3
  <1>11. ASSUME NEW j \in Jobs, RollupAdjusted(j) PROVE RowsHonest'
    <2>1. NextPart(j, "roll") /\ UNCHANGED <<daily, log, base>>
      BY <1>11 DEF RollupAdjusted
    <2>2. QED
      BY <1>8, <2>1 DEF RowsHonest
  <1>12. ASSUME NEW j \in Jobs, EnrichFetch(j) PROVE RowsHonest'
    <2>1. job[j].pc = "fetch" /\ UNCHANGED <<daily, log, base>>
      BY <1>12 DEF EnrichFetch, Wanting, Fetched, files
    <2>2. CASE NextPart(j, "enrich")
      BY <1>8, <2>1, <2>2 DEF RowsHonest
    <2>3. CASE \E hits \in SUBSET Wanting(j) : Fetched(j, hits)
      <3>1. PICK hits \in SUBSET Wanting(j) : Fetched(j, hits)
        BY <2>3
      <3>2. /\ job'[j].df = [c \in Conids |-> IF c \in hits
                                              THEN Enriched(job[j].df[c], job[j].force)
                                              ELSE job[j].df[c]]
            /\ \A i \in Jobs \ {j} : job'[i] = job[i]
        BY <2>1, <3>1, FetchEffect DEF Typed
      <3>3. ASSUME NEW c \in Conids, job'[j].df[c] # NoRow, "oi_enriched" \in job'[j].df[c].flags
            PROVE  job'[j].df[c].oi # Missing
        <4>1. job[j].df[c] \in DayRow \cup {NoRow} /\ job[j].force \in BOOLEAN
          BY JobFields DEF Typed, Frame
        <4>2. CASE c \in hits
          <5>1. job[j].df[c] \in DayRow
            BY <4>1, <4>2 DEF Wanting, NeedsOpenInterest
          <5>2. QED
            BY <3>2, <4>1, <4>2, <5>1, EnrichedRow
        <4>3. CASE c \notin hits
          BY <3>2, <3>3, <4>3 DEF RowsHonest, EnrichedHasOI
        <4>4. QED
          BY <4>2, <4>3
      <3>4. EnrichedHasOI(job'[j].df)
        BY <3>3 DEF EnrichedHasOI
      <3>5. QED
        BY <2>1, <3>2, <3>4, NewJobHonest
    <2>4. QED
      BY <1>12, <2>2, <2>3 DEF EnrichFetch, Wanting, Fetched
  <1>13. ASSUME NEW j \in Jobs, EnrichClean(j) PROVE RowsHonest'
    <2>1. job[j].pc \notin Between /\ UNCHANGED <<log, base>>
      BY <1>13 DEF EnrichClean, Between
    <2>2. CASE NextPart(j, "enrich") /\ UNCHANGED daily
      BY <1>8, <2>1, <2>2 DEF RowsHonest
    <2>3. CASE /\ \E s \in job[j].cur : daily' = [daily EXCEPT ![s] = job[j].df]
               /\ job' = [job EXCEPT ![j].pc = "enrichAdjusted"]
      <3>1. \A t \in Symbols, c \in Conids : base'[t][c] <= log'[t][c]
        BY <2>1 DEF RowsHonest
      <3>2. QED
        BY <1>9, <2>1, <2>3, <3>1
    <2>4. QED
      BY <1>13, <2>2, <2>3 DEF EnrichClean
  <1>14. ASSUME NEW j \in Jobs, EnrichAdjusted(j) PROVE RowsHonest'
    <2>1. /\ job[j].pc \notin Between /\ job' = [job EXCEPT ![j].pc = "enrichLog"]
          /\ UNCHANGED <<daily, log, base>>
      BY <1>14 DEF EnrichAdjusted, Between
    <2>2. job'[j].df = job[j].df /\ \A i \in Jobs \ {j} : job'[i] = job[i]
      BY <2>1, GotoEffect DEF Typed
    <2>3. EnrichedHasOI(job'[j].df)
      BY <2>2 DEF RowsHonest
    <2>4. QED
      BY <2>1, <2>2, <2>3, NewJobHonest
  <1>15. ASSUME NEW j \in Jobs, EnrichLog(j) PROVE RowsHonest'
    <2>1. PICK s \in job[j].cur :
             log' = [log EXCEPT ![s] = [c \in Conids |-> IF c \in job[j].hits
                                                         THEN @[c] + 1 ELSE @[c]]]
      BY <1>15 DEF EnrichLog
    <2>2. NextPart(j, "enrich") /\ UNCHANGED <<daily, base>>
      BY <1>15 DEF EnrichLog
    <2>3. \A t \in Symbols, c \in Conids :
             base[t][c] \in Nat /\ log[t][c] \in Nat
             /\ (log'[t][c] = log[t][c] \/ log'[t][c] = log[t][c] + 1)
      BY <2>1 DEF Typed, FilesType
    <2>4. \A t \in Symbols, c \in Conids : base'[t][c] <= log'[t][c]
      BY <2>2, <2>3 DEF RowsHonest
    <2>5. QED
      BY <1>8, <2>2, <2>4
  <1>16. ASSUME NEW j \in Jobs, Stop(j) PROVE RowsHonest'
    <2>1. job'[j].df = NoFrame /\ (\A i \in Jobs \ {j} : job'[i] = job[i])
          /\ UNCHANGED <<daily, log, base>>
      BY <1>16, StopEffect DEF Typed, files
    <2>2. QED
      BY <2>1, HonestFrames, NewJobHonest
  <1>17. QED
    BY <1>1, <1>2, <1>3, <1>6, <1>7, <1>10, <1>11, <1>12, <1>13, <1>14, <1>15, <1>16
       DEF Next, Rollup, Enrich

-------------------------------------------------------------------------------
(* The numbers of records stay within the bound on the enrichments started. *)
LEMMA RecordingFinite ==
  ASSUME NEW T \in SUBSET Jobs
  PROVE  /\ IsFiniteSet(T) /\ Cardinality(T) \in Nat
         /\ \A U \in SUBSET T : Cardinality(U) <= Cardinality(T)
         /\ \A j \in Jobs : /\ j \in T => Cardinality(T \ {j}) = Cardinality(T) - 1
                            /\ Cardinality(T \cup {j}) <= Cardinality(T) + 1
  <1>1. IsFiniteSet(T) /\ Cardinality(T) \in Nat
    BY FS_Subset, FS_CardinalityType
  <1>2. \A U \in SUBSET T : Cardinality(U) <= Cardinality(T)
    BY <1>1, FS_Subset
  <1>3. ASSUME NEW j \in Jobs
        PROVE  /\ j \in T => Cardinality(T \ {j}) = Cardinality(T) - 1
               /\ Cardinality(T \cup {j}) <= Cardinality(T) + 1
    <2>1. Cardinality(T \ {j}) = IF j \in T THEN Cardinality(T) - 1 ELSE Cardinality(T)
      BY <1>1, FS_RemoveElement
    <2>2. Cardinality(T \cup {j}) = IF j \in T THEN Cardinality(T) ELSE Cardinality(T) + 1
      BY <1>1, FS_AddElement
    <2>3. QED
      BY <1>1, <2>1, <2>2
  <1>4. QED
    BY <1>1, <1>2, <1>3

LEMMA BoundedInit == Init => RecordsBounded
  <1> SUFFICES ASSUME Init PROVE RecordsBounded
    OBVIOUS
  <1>1. \A s : Recording(s) = {}
    BY DEF Init, Recording, Idle, Enriching
  <1>2. Cardinality({}) = 0
    BY FS_EmptySet
  <1>3. \A s : Cardinality(Recording(s)) = 0
    BY <1>1, <1>2
  <1>4. \A s \in Symbols, c \in Conids : log[s][c] = 0
    BY DEF Init
  <1>5. starts = 0
    BY DEF Init
  <1>6. QED
    BY <1>3, <1>4, <1>5 DEF RecordsBounded

(* A step after which no more jobs may still write to a symbol. *)
LEMMA FewerRecording ==
  ASSUME Typed, RecordsBounded, UNCHANGED <<log, starts>>,
         \A s \in Symbols : Recording(s)' \subseteq Recording(s)
  PROVE  RecordsBounded'
  <1> SUFFICES ASSUME NEW s \in Symbols, NEW c \in Conids
               PROVE  log'[s][c] + Cardinality(Recording(s)') <= starts'
    BY DEF RecordsBounded
  <1>1. PICK T \in SUBSET Jobs : T = Recording(s)
    BY DEF Recording
  <1>2. PICK U \in SUBSET T : U = Recording(s)'
    BY <1>1
  <1>3. Cardinality(U) <= Cardinality(T) /\ Cardinality(T) \in Nat /\ Cardinality(U) \in Nat
    BY RecordingFinite
  <1>4. log[s][c] \in Nat /\ starts \in Nat /\ log[s][c] + Cardinality(T) <= starts
    BY <1>1 DEF RecordsBounded, Typed, FilesType, JobsType
  <1>5. log'[s][c] + Cardinality(U) <= starts'
    BY <1>3, <1>4
  <1>6. QED
    BY <1>2, <1>5

(* A job that gains no partition is no newcomer among those that record. *)
LEMMA NoNewcomer ==
  ASSUME NEW j \in Jobs,
         \A i \in Jobs \ {j} : /\ job'[i].pc = job[i].pc /\ job'[i].cur = job[i].cur
                               /\ job'[i].todo = job[i].todo,
         job'[j].pc \in Enriching => job[j].pc \in Enriching,
         job'[j].todo \cup job'[j].cur \subseteq job[j].todo \cup job[j].cur
  PROVE  \A s \in Symbols : Recording(s)' \subseteq Recording(s)
  <1> SUFFICES ASSUME NEW s \in Symbols, NEW i \in Recording(s)' PROVE i \in Recording(s)
    OBVIOUS
  <1>1. i \in Jobs /\ job'[i].pc \in Enriching /\ s \in job'[i].todo \cup job'[i].cur
    BY DEF Recording
  <1>2. job[i].pc \in Enriching /\ s \in job[i].todo \cup job[i].cur
    BY <1>1
  <1>3. QED
    BY <1>1, <1>2 DEF Recording

LEMMA BoundedStep ==
  ASSUME Typed, RecordsBounded, [Next]_vars
  PROVE  RecordsBounded'
  <1>1. CASE UNCHANGED vars
    BY <1>1, FewerRecording DEF vars, files, Recording
  <1>2. ASSUME NEW v \in Views, NEW s \in Symbols, NEW k \in Slots, Capture(v, s, k)
        PROVE  RecordsBounded'
    BY <1>2, FewerRecording DEF Capture, files, Recording
  <1>3. ASSUME NEW j \in Jobs, UNCHANGED <<log, starts>>,
               \A i \in Jobs \ {j} : job'[i] = job[i],
               job'[j].pc \in Enriching => job[j].pc \in Enriching,
               job'[j].todo \subseteq job[j].todo, job'[j].cur \subseteq job[j].cur
        PROVE  RecordsBounded'
    <2>1. \A s \in Symbols : Recording(s)' \subseteq Recording(s)
      BY <1>3, NoNewcomer
    <2>2. QED
      BY <1>3, <2>1, FewerRecording
  <1>4. ASSUME NEW j \in Jobs, RollupStart(j) PROVE RecordsBounded'
    <2>1. PICK view, slots, todo :
             job' = [job EXCEPT ![j] = [Idle EXCEPT !.pc = "roll", !.view = view,
                                           !.slots = slots, !.todo = todo]]
      BY <1>4 DEF RollupStart
    <2>2. job'[j].pc = "roll" /\ \A i \in Jobs \ {j} : job'[i] = job[i]
      BY <2>1 DEF Idle, Typed, JobsType
    <2>3. \A s \in Symbols : Recording(s)' \subseteq Recording(s)
      BY <2>2 DEF Recording, Enriching
    <2>4. starts' = starts + 1 /\ starts \in Nat /\ UNCHANGED log
      BY <1>4 DEF RollupStart, files, Typed, JobsType
    <2> SUFFICES ASSUME NEW s \in Symbols, NEW c \in Conids
                 PROVE  log'[s][c] + Cardinality(Recording(s)') <= starts'
      BY DEF RecordsBounded
    <2>5. PICK T \in SUBSET Jobs : T = Recording(s)
      BY DEF Recording
    <2>6. PICK U \in SUBSET T : U = Recording(s)'
      BY <2>3, <2>5
    <2>7. Cardinality(U) <= Cardinality(T) /\ Cardinality(T) \in Nat /\ Cardinality(U) \in Nat
      BY RecordingFinite
    <2>8. log[s][c] \in Nat /\ log[s][c] + Cardinality(T) <= starts
      BY <2>5 DEF RecordsBounded, Typed, FilesType
    <2>9. log'[s][c] + Cardinality(U) <= starts'
      BY <2>4, <2>7, <2>8
    <2>10. QED
      BY <2>6, <2>9
  <1>5. ASSUME NEW j \in Jobs, EnrichStart(j) PROVE RecordsBounded'
    <2>1. /\ starts' = starts + 1 /\ starts \in Nat /\ UNCHANGED log
          /\ job[j].pc \in Between
      BY <1>5 DEF EnrichStart, files, Between, Typed, JobsType
    <2>2. \A i \in Jobs \ {j} : job'[i] = job[i]
      BY <1>5, <2>1, StartEffect DEF Typed
    <2> SUFFICES ASSUME NEW s \in Symbols, NEW c \in Conids
                 PROVE  log'[s][c] + Cardinality(Recording(s)') <= starts'
      BY DEF RecordsBounded
    <2>3. PICK T \in SUBSET Jobs : T = Recording(s)
      BY DEF Recording
    <2>4. PICK U \in SUBSET (T \cup {j}) : U = Recording(s)'
      BY <2>2, <2>3 DEF Recording
    <2>5. Cardinality(U) <= Cardinality(T \cup {j})
      BY RecordingFinite
    <2>6. /\ Cardinality(T \cup {j}) <= Cardinality(T) + 1 /\ Cardinality(T) \in Nat
          /\ Cardinality(T \cup {j}) \in Nat /\ Cardinality(U) \in Nat
      BY RecordingFinite
    <2>7. log[s][c] \in Nat /\ log[s][c] + Cardinality(T) <= starts
      BY <2>3 DEF RecordsBounded, Typed, FilesType
    <2>8. log'[s][c] + Cardinality(U) <= starts'
      BY <2>1, <2>5, <2>6, <2>7
    <2>9. QED
      BY <2>4, <2>8
  <1>6. ASSUME NEW j \in Jobs, NEW s \in job[j].todo, SkipPart(j, s),
               job[j].pc \in {"roll", "enrich"}, UNCHANGED <<log, starts>>
        PROVE  RecordsBounded'
    <2>1. /\ job'[j].cur = {} /\ job'[j].pc = job[j].pc /\ job'[j].todo \subseteq job[j].todo
          /\ \A i \in Jobs \ {j} : job'[i] = job[i]
      BY <1>6, SkipPartEffect DEF Typed
    <2>2. QED
      BY <1>3, <1>6, <2>1
  <1>7. ASSUME NEW j \in Jobs, NEW s \in job[j].todo, NEW step \in {"rollClean", "fetch"},
               job'[j].cur = {s}, job'[j].pc = step, job'[j].todo = job[j].todo \ {s},
               \A i \in Jobs \ {j} : job'[i] = IF s \in job[i].cur
                                               THEN [job[i] EXCEPT !.alone = FALSE] ELSE job[i],
               step = "fetch" => job[j].pc = "enrich", UNCHANGED <<log, starts>>
        PROVE  RecordsBounded'
    <2>1. \A i \in Jobs \ {j} : /\ job'[i].pc = job[i].pc /\ job'[i].cur = job[i].cur
                                /\ job'[i].todo = job[i].todo
      <3>1. \A i \in Jobs : job[i] \in JobState
        BY JobFields DEF Typed
      <3>2. \A i \in Jobs \ {j} : job'[i] = job[i] \/ job'[i] = [job[i] EXCEPT !.alone = FALSE]
        BY <1>7
      <3>3. QED
        BY <3>1, <3>2 DEF JobState
    <2>2. /\ job'[j].pc \in Enriching => job[j].pc \in Enriching
          /\ job'[j].todo \cup job'[j].cur \subseteq job[j].todo \cup job[j].cur
      BY <1>7 DEF Enriching
    <2>3. \A t \in Symbols : Recording(t)' \subseteq Recording(t)
      BY <2>1, <2>2, NoNewcomer
    <2>4. QED
      BY <1>7, <2>3, FewerRecording
  <1>8. ASSUME NEW j \in Jobs, RollupRead(j) PROVE RecordsBounded'
    <2>1. PICK s \in job[j].todo :
             LET part == snap[job[j].view][s]
                 df   == [c \in Conids |-> Selected(job[j].view, job[j].slots, part, c)]
             IN IF df = NoFrame THEN SkipPart(j, s) ELSE OpenPart(j, s, "rollClean", part, df)
      BY <1>8 DEF RollupRead
    <2>2. job[j].pc \in {"roll", "enrich"} /\ UNCHANGED <<log, starts>>
      BY <1>8 DEF RollupRead, files
    <2>3. snap[job[j].view][s] \in Part
      BY JobFields DEF Typed, FilesType
    <2>4. PICK part \in Part : part = snap[job[j].view][s]
      BY <2>3
    <2> DEFINE df == [c \in Conids |-> Selected(job[j].view, job[j].slots, part, c)]
    <2>5. df \in Frame
      BY JobFields, SelectedFrameType DEF Typed
    <2>6. SkipPart(j, s) \/ OpenPart(j, s, "rollClean", part, df)
      BY <2>1, <2>4
    <2> HIDE DEF df
    <2>7. CASE OpenPart(j, s, "rollClean", part, df)
      <3>1. /\ job'[j].cur = {s} /\ job'[j].pc = "rollClean" /\ job'[j].todo = job[j].todo \ {s}
            /\ \A i \in Jobs \ {j} : job'[i] = IF s \in job[i].cur
                                               THEN [job[i] EXCEPT !.alone = FALSE] ELSE job[i]
        BY <2>2, <2>5, <2>7, OpenPartEffect DEF Typed
      <3>2. QED
        BY <1>7, <2>2, <3>1
    <2>8. QED
      BY <1>6, <2>2, <2>6, <2>7
  <1>9. ASSUME NEW j \in Jobs, EnrichRead(j) PROVE RecordsBounded'
    <2>1. PICK s \in job[j].todo : SkipPart(j, s) \/ OpenPart(j, s, "fetch", NoPart, daily[s])
      BY <1>9 DEF EnrichRead
    <2>2. job[j].pc = "enrich" /\ UNCHANGED <<log, starts>>
      BY <1>9 DEF EnrichRead, files
    <2>3. daily[s] \in Frame /\ NoPart \in Part
      BY JobFields, EmptyFrames DEF Typed, FilesType
    <2>4. PICK df \in Frame : df = daily[s]
      BY <2>3
    <2>5. CASE OpenPart(j, s, "fetch", NoPart, df)
      <3>1. /\ job'[j].cur = {s} /\ job'[j].pc = "fetch" /\ job'[j].todo = job[j].todo \ {s}
            /\ \A i \in Jobs \ {j} : job'[i] = IF s \in job[i].cur
                                               THEN [job[i] EXCEPT !.alone = FALSE] ELSE job[i]
        BY <2>2, <2>3, <2>5, OpenPartEffect DEF Typed
      <3>2. QED
        BY <1>7, <2>2, <3>1
    <2>6. QED
      BY <1>6, <2>1, <2>2, <2>4, <2>5
  <1>10. ASSUME NEW j \in Jobs, UNCHANGED <<log, starts>>,
                \/ NextPart(j, "roll")
                \/ NextPart(j, "enrich") /\ job[j].pc \in Enriching
         PROVE  RecordsBounded'
    <2>1. /\ job'[j].cur = {} /\ job'[j].todo = job[j].todo
          /\ job'[j].pc = "roll" \/ job[j].pc \in Enriching
          /\ \A i \in Jobs \ {j} : job'[i] = job[i]
      BY <1>10, NextPartEffect DEF Typed
    <2>2. job'[j].pc \in Enriching => job[j].pc \in Enriching
      BY <2>1 DEF Enriching
    <2>3. QED
      BY <1>3, <1>10, <2>1, <2>2
  <1>11. ASSUME NEW j \in Jobs, NEW step \in {"rollAdjusted", "enrichAdjusted", "enrichLog"},
                job' = [job EXCEPT ![j].pc = step], UNCHANGED <<log, starts>>,
                job[j].pc \notin Between, step # "rollAdjusted" => job[j].pc \in Enriching
         PROVE  RecordsBounded'
    <2>1. /\ job'[j].pc = step /\ job'[j].cur = job[j].cur /\ job'[j].todo = job[j].todo
          /\ \A i \in Jobs \ {j} : job'[i] = job[i]
      BY <1>11, GotoEffect DEF Typed
    <2>2. job'[j].pc \in Enriching => job[j].pc \in Enriching
      BY <1>11, <2>1 DEF Enriching
    <2>3. QED
      BY <1>3, <1>11, <2>1, <2>2
  <1>12. ASSUME NEW j \in Jobs, RollupClean(j) PROVE RecordsBounded'
    <2>1. /\ job[j].pc \notin Between /\ job' = [job EXCEPT ![j].pc = "rollAdjusted"]
          /\ UNCHANGED <<log, starts>>
      BY <1>12 DEF RollupClean, Between
    <2>2. QED
      BY <1>11, <2>1
  <1>13. ASSUME NEW j \in Jobs, RollupAdjusted(j) PROVE RecordsBounded'
    <2>1. UNCHANGED <<log, starts>>
      BY <1>13 DEF RollupAdjusted
    <2>2. NextPart(j, "roll")
      BY <1>13 DEF RollupAdjusted
    <2>3. QED
      BY <1>10, <2>1, <2>2
  <1>14. ASSUME NEW j \in Jobs, EnrichFetch(j) PROVE RecordsBounded'
    <2>1. job[j].pc = "fetch" /\ UNCHANGED <<log, starts>>
      BY <1>14 DEF EnrichFetch, files
    <2>2. job[j].pc \in Enriching
      BY <2>1 DEF Enriching
    <2>3. CASE NextPart(j, "enrich")
      BY <1>10, <2>1, <2>2, <2>3
    <2>4. CASE \E hits \in SUBSET Wanting(j) : Fetched(j, hits)
      <3>1. /\ job'[j].cur = job[j].cur /\ job'[j].todo = job[j].todo
            /\ \A i \in Jobs \ {j} : job'[i] = job[i]
        BY <2>1, <2>4, FetchEffect DEF Typed
      <3>2. QED
        BY <1>3, <2>1, <2>2, <3>1
    <2>5. QED
      BY <1>14, <2>3, <2>4 DEF EnrichFetch, Wanting, Fetched
  <1>15. ASSUME NEW j \in Jobs, EnrichClean(j) PROVE RecordsBounded'
    <2>1. /\ job[j].pc = "enrichClean" /\ UNCHANGED <<log, starts>>
          /\ NextPart(j, "enrich") \/ job' = [job EXCEPT ![j].pc = "enrichAdjusted"]
      BY <1>15 DEF EnrichClean
    <2>2. job[j].pc \notin Between /\ job[j].pc \in Enriching
      BY <2>1 DEF Between, Enriching
    <2>3. QED
      BY <1>10, <1>11, <2>1, <2>2
  <1>16. ASSUME NEW j \in Jobs, EnrichAdjusted(j) PROVE RecordsBounded'
    <2>1. /\ job[j].pc = "enrichAdjusted" /\ UNCHANGED <<log, starts>>
          /\ job' = [job EXCEPT ![j].pc = "enrichLog"]
      BY <1>16 DEF EnrichAdjusted
    <2>2. job[j].pc \notin Between /\ job[j].pc \in Enriching
      BY <2>1 DEF Between, Enriching
    <2>3. QED
      BY <1>11, <2>1, <2>2
  <1>17. ASSUME NEW j \in Jobs, EnrichLog(j) PROVE RecordsBounded'
    <2>1. PICK t \in job[j].cur :
             log' = [log EXCEPT ![t] = [c \in Conids |-> IF c \in job[j].hits
                                                         THEN @[c] + 1 ELSE @[c]]]
      BY <1>17 DEF EnrichLog
    <2>2. /\ job[j].pc \in Enriching /\ NextPart(j, "enrich") /\ UNCHANGED starts
          /\ starts \in Nat
      BY <1>17 DEF EnrichLog, Enriching, Typed, JobsType
    <2>3. /\ job'[j].cur = {} /\ job'[j].todo = job[j].todo
          /\ \A i \in Jobs \ {j} : job'[i] = job[i]
      BY <2>2, NextPartEffect DEF Typed
    <2>4. /\ \A s \in Symbols : Recording(s)' \subseteq Recording(s)
          /\ j \in Recording(t) /\ Recording(t)' \subseteq Recording(t) \ {j}
      <3>1. \A s \in Symbols : Recording(s)' \subseteq Recording(s)
        BY <2>2, <2>3, NoNewcomer
      <3>2. t \in Symbols /\ t \notin job[j].todo
        BY JobFields DEF Typed, JobsType, OnePartition
      <3>3. j \in Recording(t) /\ j \notin Recording(t)'
        BY <2>2, <2>3, <3>2 DEF Recording
      <3>4. QED
        BY <3>1, <3>2, <3>3
    <2> SUFFICES ASSUME NEW s \in Symbols, NEW c \in Conids
                 PROVE  log'[s][c] + Cardinality(Recording(s)') <= starts'
      BY DEF RecordsBounded
    <2>5. PICK T \in SUBSET Jobs : T = Recording(s)
      BY DEF Recording
    <2>6. PICK U \in SUBSET T : U = Recording(s)'
      BY <2>4, <2>5
    <2>7. log[s][c] \in Nat /\ log[s][c] + Cardinality(T) <= starts
      BY <2>5 DEF RecordsBounded, Typed, FilesType
    <2>8. Cardinality(U) <= Cardinality(T) /\ Cardinality(T) \in Nat /\ Cardinality(U) \in Nat
      BY RecordingFinite
    <2>9. CASE s # t
      <3>1. log'[s][c] = log[s][c]
        BY <2>1, <2>9 DEF Typed, FilesType
      <3>2. log'[s][c] + Cardinality(U) <= starts'
        BY <2>2, <2>7, <2>8, <3>1
      <3>3. QED
        BY <2>6, <3>2
    <2>10. CASE s = t
      <3>1. log'[s][c] = log[s][c] \/ log'[s][c] = log[s][c] + 1
        BY <2>1, <2>10 DEF Typed, FilesType
      <3>2. Cardinality(U) <= Cardinality(T) - 1
        <4>1. j \in T /\ U \in SUBSET (T \ {j}) /\ T \ {j} \in SUBSET Jobs
          BY <2>4, <2>5, <2>6, <2>10
        <4>2. Cardinality(T \ {j}) = Cardinality(T) - 1
          BY <4>1, RecordingFinite
        <4>3. Cardinality(U) <= Cardinality(T \ {j})
          BY <4>1, RecordingFinite
        <4>4. QED
          BY <4>2, <4>3
      <3>3. log'[s][c] + Cardinality(U) <= starts'
        BY <2>2, <2>7, <2>8, <3>1, <3>2
      <3>4. QED
        BY <2>6, <3>3
    <2>11. QED
      BY <2>9, <2>10
  <1>18. ASSUME NEW j \in Jobs, Finish(j) \/ Stop(j) PROVE RecordsBounded'
    <2>1. job' = [job EXCEPT ![j] = Idle] /\ UNCHANGED <<log, starts>>
      BY <1>18 DEF Finish, Stop, files
    <2>2. /\ job'[j].pc = "idle" /\ job'[j].todo = {} /\ job'[j].cur = {}
          /\ \A i \in Jobs \ {j} : job'[i] = job[i]
      BY <2>1 DEF Idle, Typed, JobsType
    <2>3. job'[j].pc \notin Enriching
      BY <2>2 DEF Enriching
    <2>4. QED
      BY <1>3, <2>1, <2>2, <2>3
  <1>19. QED
    BY <1>1, <1>2, <1>4, <1>5, <1>8, <1>9, <1>12, <1>13, <1>14, <1>15, <1>16, <1>17, <1>18
       DEF Next, Rollup, Enrich

-------------------------------------------------------------------------------
(* The inductive invariant. *)
IInv == Typed /\ AloneIsAlone /\ RowsHonest /\ Contents /\ RecordsBounded

LEMMA InitOK == Init => IInv
  <1> SUFFICES ASSUME Init PROVE IInv
    OBVIOUS
  <1>1. Typed /\ RecordsBounded
    BY TypedInit, BoundedInit
  <1>2. \A j \in Jobs : job[j] = Idle /\ Idle.cur = {} /\ Idle.df = NoFrame
    BY DEF Init, Idle
  <1>3. /\ daily = [s \in Symbols |-> NoFrame] /\ adjusted = daily
        /\ log = [s \in Symbols |-> [c \in Conids |-> 0]] /\ base = log
        /\ seen = [s \in Symbols |-> Unseen]
    BY DEF Init
  <1>4. AloneIsAlone
    BY <1>2 DEF AloneIsAlone
  <1>5. RowsHonest
    BY <1>2, <1>3, HonestFrames DEF RowsHonest
  <1>6. \A j \in Jobs : WorkOK(j)
    BY <1>2 DEF WorkOK
  <1>7. ASSUME NEW s \in Symbols PROVE SymbolOK(s)
    <2>1. Unseen.part = NoPart
      BY DEF Unseen
    <2>2. ASSUME NEW c \in Conids PROVE Good(seen[s].part, c) = {} /\ daily[s][c] = NoRow
      <3>1. seen[s].part = NoPart /\ daily[s] = NoFrame
        BY <1>3, <2>1
      <3>2. Good(NoPart, c) = {}
        BY DEF Good, NoPart
      <3>3. QED
        BY <3>1, <3>2 DEF NoFrame
    <2>3. ASSUME NEW c \in Conids PROVE log[s][c] - base[s][c] + 0 = 0
      <3>1. log[s][c] = 0 /\ base[s][c] = 0
        BY <1>3
      <3>2. QED
        BY <3>1
    <2>4. Chosen(s)
      BY <2>2 DEF Chosen
    <2>5. Story(s, {})
      BY <2>2, <2>3 DEF Story
    <2>6. QED
      BY <1>3, <2>4, <2>5 DEF SymbolOK
  <1>8. QED
    BY <1>1, <1>4, <1>5, <1>6, <1>7 DEF IInv, Contents

LEMMA StepOK == IInv /\ [Next]_vars => IInv'
  BY TypedStep, HonestStep, ContentsStep, BoundedStep DEF IInv

LEMMA Invariance == Spec => []IInv
  BY InitOK, StepOK, PTL DEF Spec

(* The files and the jobs' local variables hold what they may hold, and no   *)
(* contract is recorded more often than enrichments were started.            *)
THEOREM TypeCorrect == Spec => []TypeOK
<1>1. IInv => TypeOK
  <2> SUFFICES ASSUME IInv PROVE TypeOK
    OBVIOUS
  <2>1. Typed /\ RowsHonest /\ RecordsBounded
    BY DEF IInv
  <2>2. ASSUME NEW s \in Symbols, NEW c \in Conids
        PROVE  log[s][c] \in 0 .. MaxStarts /\ base[s][c] \in 0 .. MaxStarts
    <3>1. PICK T \in SUBSET Jobs : T = Recording(s)
      BY DEF Recording
    <3>2. Cardinality(T) \in Nat
      BY RecordingFinite
    <3>3. log[s][c] + Cardinality(T) <= starts /\ starts \in 0 .. MaxStarts
      BY <2>1, <3>1 DEF RecordsBounded, Typed, JobsType
    <3>4. log[s][c] \in Nat /\ base[s][c] \in Nat /\ base[s][c] <= log[s][c]
      BY <2>1 DEF Typed, FilesType, RowsHonest
    <3>5. QED
      BY <3>2, <3>3, <3>4
  <2>3. /\ log \in [Symbols -> [Conids -> 0 .. MaxStarts]]
        /\ base \in [Symbols -> [Conids -> 0 .. MaxStarts]]
    <3>1. log \in [Symbols -> [Conids -> Nat]] /\ base \in [Symbols -> [Conids -> Nat]]
      BY <2>1 DEF Typed, FilesType
    <3>2. QED
      BY <2>2, <3>1
  <2>4. ASSUME NEW j \in Jobs
        PROVE  /\ job[j].pc \in {"idle"} \cup Rolling \cup Enriching
               /\ job[j].todo \subseteq Symbols /\ job[j].cur \subseteq Symbols
               /\ job[j].df \in Frame /\ job[j].part \in Part
               /\ job[j].hits \subseteq Conids
               /\ job[j].cur = {} <=> job[j].pc \in {"idle", "roll", "enrich"}
    BY <2>1, JobFields DEF Typed, JobsType, OnePartition, Between
  <2>5. /\ snap \in [Views -> [Symbols -> Part]]
        /\ daily \in [Symbols -> Frame] /\ adjusted \in [Symbols -> Frame]
        /\ clock \in 0 .. MaxClock /\ starts \in 0 .. MaxStarts
        /\ \A s \in Symbols : seen[s].part \in Part
        /\ spoiled \subseteq Symbols
    BY <2>1 DEF Typed, FilesType, JobsType
  <2>6. QED
    BY <2>3, <2>4, <2>5 DEF TypeOK
<1>2. QED
  BY <1>1, Invariance, PTL

(* The two daily views of an underlying agree whenever nobody is working on  *)
(* it and no job was stopped or overlapped since the last complete rollup.   *)
THEOREM AdjustedAgrees == Spec => []AdjustedMatches
<1>1. IInv => AdjustedMatches
  BY DEF IInv, Contents, SymbolOK, AdjustedMatches, Settled
<1>2. QED
  BY <1>1, Invariance, PTL

(* Whatever enrichment does, the daily rows stay the ones _select_rows chose *)
(* from what the last rollup had read.                                       *)
THEOREM SelectionStands == Spec => []SelectionKept
<1>1. IInv => SelectionKept
  BY DEF IInv, Contents, SymbolOK, Chosen, SelectionKept
<1>2. QED
  BY <1>1, Invariance, PTL

(* Since the last rollup, the enrichment view has a record of exactly the    *)
(* enriched rows, and one only of those that were not forced.                *)
THEOREM RecordsAgree == Spec => []EnrichmentLogged
<1>1. IInv => EnrichmentLogged
  <2> SUFFICES ASSUME IInv, NEW s \in Settled, NEW c \in Conids
               PROVE  LET row == daily[s][c]
                          new == log[s][c] - base[s][c]
                      IN /\ new > 0 <=> row # NoRow /\ "oi_enriched" \in row.flags
                         /\ new > 1 => "oi_overwritten" \in row.flags
    BY DEF EnrichmentLogged
  <2>1. s \in Symbols /\ s \notin spoiled /\ \A j \in Jobs : s \notin job[j].cur
    BY DEF Settled
  <2>2. Story(s, {})
    BY <2>1 DEF IInv, Contents, SymbolOK
  <2>3. log[s][c] - base[s][c] + 0 = log[s][c] - base[s][c]
    BY <2>1 DEF IInv, Typed, FilesType
  <2>4. QED
    BY <2>2, <2>3 DEF Story
<1>2. QED
  BY <1>1, Invariance, PTL
=============================================================================
