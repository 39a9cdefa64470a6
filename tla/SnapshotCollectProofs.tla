------------------------- MODULE SnapshotCollectProofs -------------------------
(***************************************************************************)
(* The theorems of SnapshotCollect, for any list of contracts, any limits  *)
(* and any bucket: a contract is in one place at a time, not begun, in its *)
(* task, waited for or answered, and the lines and rows follow from that.  *)
(***************************************************************************)
EXTENDS SnapshotCollect, FiniteSetTheorems, SequenceTheorems, TLAPS

Rows == {ErrorRow(e) : e \in Errors} \cup {DataRow(l) : l \in Levels}

ConfigType == mode \in Modes /\ requireGreeks \in BOOLEAN /\ known \subseteq Contracts
FetchType ==
    /\ phase \in {"pick", "qualify", "collect", "done", "raised"}
    /\ rank \in 1 .. Len(Preferences) + 2
    /\ phase \in {"qualify", "collect"} => rank <= Len(Preferences) + 1
    /\ asked \subseteq Contracts /\ todo \subseteq asked
TaskType ==
    /\ holder \in asked \cup {Nobody}
    /\ waiting \subseteq asked /\ done \subseteq waiting
    /\ waited \in [Contracts -> 0 .. Timeout] /\ level \in [Contracts -> Levels]
Typed == ConfigType /\ FetchType /\ TaskType

(* What the tasks and batches do in which part of a capture. *)
Due == {c \in asked : mode = "reqtickers" => c \in known}
Stages ==
    /\ holder # Nobody => phase = "collect"
    /\ phase \notin {"qualify", "collect"} => todo = {}
    /\ phase # "collect" => waiting = {}
    /\ phase = "qualify" => mode = "reqtickers" /\ todo = asked
    /\ phase = "pick" => Due = {}
    /\ mode = "reqtickers" => done = {}
    /\ phase = "collect" => todo \cup waiting \subseteq Due

(* A contract is in one place.  (The holder of a batch's token is one that *)
(* is not begun.)                                                          *)
Apart ==
    /\ todo \cap waiting = {}
    /\ mode # "reqtickers" => holder \notin todo \cup waiting
    /\ mode = "reqtickers" /\ holder # Nobody => waiting = {}

(* Who has an answer. *)
InTask   == IF mode = "reqtickers" THEN {} ELSE {holder} \ {Nobody}
Answered == IF phase = "raised" THEN {} ELSE Due \ (todo \cup InTask \cup waiting)
OneRowEach ==
    /\ rows \in [Contracts -> Seq(Rows)]
    /\ \A c \in Contracts :
          /\ c \in Answered => \E r \in Rows : rows[c] = <<r>>
          /\ c \notin Answered => rows[c] = <<>>

(* The open lines are those waited for and those that could not be closed. *)
LinesOK ==
    /\ lines \subseteq asked /\ stuck \subseteq lines
    /\ mode = "reqtickers" => lines = {}
    /\ mode # "reqtickers" =>
          /\ lines \ stuck = waiting
          /\ holder \notin stuck /\ todo \cap stuck = {}
          /\ IsFiniteSet(waiting) /\ Cardinality(waiting) <= Concurrency
          /\ holder # Nobody => Cardinality(waiting) < Concurrency

(* The exchanges tried so far had no usable contract, and the fetch under   *)
(* way, or the last one, is for those of the exchange the capture is at.    *)
InTurn ==
    /\ \A r \in 1 .. rank - 1 : Usable(r) = {}
    /\ phase \in {"qualify", "collect"} => asked = Limited(OnExchange(rank))
    /\ phase = "done" => \/ rank = Len(Preferences) + 2 /\ Due = {}
                         \/ /\ rank <= Len(Preferences) + 1 /\ Due # {}
                            /\ asked = Limited(OnExchange(rank))

(* What is left of the requests and what may be taken now fit the bucket. *)
BucketOK ==
    /\ tokens \in 0 .. Full /\ elapsed \in 0 .. Full /\ load \in Nat
    /\ load + Refilled <= Full

Places == Typed /\ Stages /\ Apart
IInv   == Places /\ OneRowEach /\ LinesOK /\ InTurn /\ BucketOK

-------------------------------------------------------------------------------
(* The token bucket. *)
LEMMA FullType == Full \in Nat
<1>1. \A a, b \in Nat : a * b \in Nat
  OBVIOUS
<1>2. QED BY <1>1, CollectAssumption DEF Full

LEMMA BucketStep == ASSUME BucketOK, Next PROVE BucketOK'
<1>0. Full \in Nat /\ Refill \in Nat /\ Refill > 0
  BY FullType, CollectAssumption
<1> USE <1>0 DEF BucketOK, Refilled, Least
<1>1. ASSUME UNCHANGED bucket PROVE BucketOK'
  BY <1>1 DEF bucket
<1>2. ASSUME TakeToken, load' = load + Refill PROVE BucketOK'
  BY <1>2 DEF TakeToken
<1>3. CASE NoToken
  BY <1>3 DEF NoToken
<1>4. CASE Tick
  <2>1. tokens' = tokens /\ elapsed' = Least(Full, elapsed + 1)
        /\ load' = IF load = 0 THEN 0 ELSE load - 1
    BY <1>4 DEF Tick
  <2>2. QED BY <2>1
<1>5. CASE Pick \/ NothingFound \/ Qualify \/ Return \/ Begin \/ BeginBatch \/ BatchEnds \/ Collapse
  BY <1>1, <1>5 DEF Pick, NothingFound, Qualify, Return, Begin, BeginBatch, BatchEnds, Collapse
<1>6. CASE Request \/ RequestBatch
  BY <1>2, <1>6 DEF Request, RequestBatch
<1>7. ASSUME NEW c \in Contracts, Answer(c) \/ \E l \in Levels : Deliver(c, l) PROVE BucketOK'
  BY <1>1, <1>7 DEF Answer, Poll, Woken, TimedOut, CancelThen, Leaves, Deliver
<1>8. QED
  BY <1>3, <1>4, <1>5, <1>6, <1>7 DEF Next

-------------------------------------------------------------------------------
(* Where the contracts are. *)
LEMMA LeadingPart == \A n, S : Leading(n, S) \subseteq S
  BY DEF Leading

LEMMA PlacesInit == Init => Places
<1> SUFFICES ASSUME Init PROVE Places
  OBVIOUS
<1>1. Typed
  <2>1. Len(Preferences) \in Nat /\ Timeout \in Nat
    BY CollectAssumption
  <2>2. 1 \in 1 .. Len(Preferences) + 2 /\ 0 \in 0 .. Timeout
    BY <2>1
  <2>3. ConfigType
    BY DEF Init, ConfigType
  <2>4. FetchType /\ TaskType
    BY <2>2 DEF Init, FetchType, TaskType, Levels
  <2>5. QED BY <2>3, <2>4 DEF Typed
<1>2. Stages /\ Apart
  BY DEF Init, Stages, Apart, Due
<1>3. QED BY <1>1, <1>2 DEF Places

(* A fetch whose tasks are over and that has no row was asked for nothing. *)
LEMMA NoRowsNothingDue ==
  ASSUME Places, OneRowEach, Gathered, \A c \in asked : rows[c] = <<>>
  PROVE  Due = {}
<1>1. phase = "collect" /\ todo = {} /\ InTask = {} /\ waiting = {}
  BY DEF Gathered, InTask
<1>2. Answered = Due
  BY <1>1 DEF Answered
<1>3. ASSUME NEW c \in Due PROVE FALSE
  <2>1. c \in asked /\ c \in Contracts
    BY DEF Due, Places, Typed, FetchType
  <2>2. PICK r \in Rows : rows[c] = <<r>>
    BY <1>2, <2>1 DEF OneRowEach
  <2>3. rows[c] = <<>>
    BY <2>1
  <2>4. QED BY <2>2, <2>3
<1>4. QED BY <1>3

LEMMA PlacesStep == ASSUME Places, OneRowEach, Next PROVE Places'
<1> USE DEF Places, Typed, config, fetch, bucket
<1>0. /\ Len(Preferences) \in Nat /\ Timeout \in Nat
      /\ rank \in Int /\ 1 <= rank /\ rank <= Len(Preferences) + 2
      /\ Nobody \notin Contracts /\ asked \subseteq Contracts
  BY CollectAssumption DEF FetchType
<1>1. CASE Pick
  <2>1. rank <= Len(Preferences) + 1 /\ rank + 1 \in 1 .. Len(Preferences) + 2
    BY <1>0, <1>1 DEF Pick
  <2>2. Limited(OnExchange(rank)) \subseteq Contracts
    BY DEF Limited, OnExchange
  <2>3. holder = Nobody /\ waiting = {} /\ UNCHANGED <<mode, requireGreeks, known, holder, waiting, waited, level, done>>
    BY <1>1 DEF Pick, Stages, market
  <2>4. CASE Limited(OnExchange(rank)) = {}
    <3>1. rank' = rank + 1 /\ UNCHANGED <<phase, asked, todo>> /\ phase = "pick"
      BY <1>1, <2>4 DEF Pick
    <3>2. Typed'
      BY <2>1, <2>3, <3>1 DEF ConfigType, FetchType, TaskType
    <3>3. Stages' /\ Apart'
      BY <2>3, <3>1 DEF Stages, Apart, Due
    <3>4. QED BY <3>2, <3>3
  <2>5. CASE Limited(OnExchange(rank)) # {}
    <3>1. /\ asked' \subseteq Contracts /\ todo' = asked' /\ rank' = rank
          /\ phase' = IF mode = "reqtickers" THEN "qualify" ELSE "collect"
      BY <1>1, <2>2, <2>5 DEF Pick
    <3>2. ConfigType'
      BY <2>3 DEF ConfigType
    <3>3. FetchType'
      BY <2>1, <3>1 DEF FetchType
    <3>4. TaskType'
      BY <2>3, <3>1 DEF TaskType
    <3>5. Stages' /\ Apart'
      BY <1>0, <2>3, <3>1 DEF Stages, Apart, Due
    <3>6. QED BY <3>2, <3>3, <3>4, <3>5
  <2>6. QED BY <2>4, <2>5
<1>2. CASE NothingFound
  <2>1. ConfigType' /\ FetchType' /\ TaskType'
    BY <1>2 DEF NothingFound, ConfigType, FetchType, TaskType, market
  <2>2. Stages' /\ Apart'
    BY <1>2 DEF NothingFound, Stages, Apart, Due, market
  <2>3. QED BY <2>1, <2>2
<1>3. CASE Qualify
  <2>1. ConfigType' /\ FetchType' /\ TaskType'
    BY <1>3 DEF Qualify, ConfigType, FetchType, TaskType, market
  <2>2. Stages' /\ Apart'
    BY <1>3 DEF Qualify, Stages, Apart, Due, market
  <2>3. QED BY <2>1, <2>2
<1>4. CASE Return
  <2>1. /\ phase = "collect" /\ todo = {} /\ holder = Nobody /\ waiting = {}
        /\ UNCHANGED <<mode, requireGreeks, known, asked, todo, holder, waiting, waited, level, done>>
    BY <1>4 DEF Return, Gathered, market
  <2>2. ConfigType' /\ TaskType'
    BY <2>1 DEF ConfigType, TaskType
  <2>3. CASE \E c \in asked : rows[c] # <<>>
    <3>1. phase' = "done" /\ rank' = rank
      BY <1>4, <2>3 DEF Return
    <3>2. FetchType' /\ Stages' /\ Apart'
      BY <2>1, <3>1 DEF FetchType, Stages, Apart
    <3>3. QED BY <2>2, <3>2
  <2>4. CASE \A c \in asked : rows[c] = <<>>
    <3>1. phase' = "pick" /\ rank' = rank + 1
      BY <1>4, <2>4 DEF Return
    <3>2. rank + 1 \in 1 .. Len(Preferences) + 2
      BY <1>0, <2>1 DEF FetchType
    <3>3. FetchType'
      BY <2>1, <3>1, <3>2 DEF FetchType
    <3>4. Due = {}
      BY <2>1, <2>4, NoRowsNothingDue DEF Gathered
    <3>5. Stages' /\ Apart'
      BY <2>1, <3>1, <3>4 DEF Stages, Apart, Due
    <3>6. QED BY <2>2, <3>3, <3>5
  <2>5. QED BY <2>3, <2>4
<1>5. CASE NoToken \/ Tick
  <2>1. ConfigType' /\ FetchType'
    BY <1>5 DEF NoToken, Tick, ConfigType, FetchType
  <2>2. TaskType'
    <3>1. ASSUME NEW c \in Contracts, NEW n \in 0 .. Timeout PROVE Least(Timeout, n + 1) \in 0 .. Timeout
      BY <1>0, <3>1 DEF Least
    <3>2. CASE NoToken
      BY <3>2 DEF NoToken, TaskType, market
    <3>3. CASE Tick
      <4>1. waited' \in [Contracts -> 0 .. Timeout]
        BY <3>1, <3>3 DEF Tick, TaskType
      <4>2. QED BY <3>3, <4>1 DEF Tick, TaskType
    <3>4. QED BY <1>5, <3>2, <3>3
  <2>3. Stages' /\ Apart'
    BY <1>5 DEF NoToken, Tick, Stages, Apart, Due, market
  <2>4. QED BY <2>1, <2>2, <2>3
<1>6. CASE Begin
  <2>1. PICK c \in todo : holder' = c /\ todo' = todo \ {c}
    BY <1>6, LeadingPart DEF Begin
  <2>2. ConfigType' /\ FetchType' /\ TaskType'
    BY <1>6, <2>1 DEF Begin, ConfigType, FetchType, TaskType, market
  <2>3. Stages' /\ Apart'
    BY <1>6, <2>1 DEF Begin, Stages, Apart, Due, market
  <2>4. QED BY <2>2, <2>3
<1>7. CASE Request
  <2>1. /\ waiting' \in {waiting \cup {holder}, waiting} /\ holder' = Nobody
        /\ waited' = waited \/ waited' = [waited EXCEPT ![holder] = 0]
        /\ UNCHANGED <<mode, requireGreeks, known, phase, rank, asked, todo, level, done>>
        /\ mode # "reqtickers" /\ holder # Nobody
    BY <1>7 DEF Request
  <2>2. phase = "collect" /\ holder \in asked
    BY <2>1 DEF Stages, TaskType
  <2>3. ConfigType' /\ FetchType'
    BY <2>1 DEF ConfigType, FetchType
  <2>4. TaskType'
    <3>1. 0 \in 0 .. Timeout
      BY <1>0
    <3>2. waited' \in [Contracts -> 0 .. Timeout]
      BY <2>1, <3>1 DEF TaskType
    <3>3. QED BY <2>1, <2>2, <3>2 DEF TaskType
  <2>5. Stages'
    BY <2>1, <2>2 DEF Stages, Due
  <2>6. Apart'
    BY <1>0, <2>1, <2>2 DEF Apart, TaskType, FetchType
  <2>7. QED BY <2>3, <2>4, <2>5, <2>6
<1>8. ASSUME NEW c \in Contracts, NEW l \in Levels, Deliver(c, l) PROVE Places'
  <2>1. ConfigType' /\ FetchType' /\ TaskType'
    BY <1>8 DEF Deliver, ConfigType, FetchType, TaskType
  <2>2. Stages' /\ Apart'
    BY <1>8 DEF Deliver, Stages, Apart, Due
  <2>3. QED BY <2>1, <2>2
<1>9. ASSUME NEW c, NEW row, NEW ok, Leaves(c, row, ok) PROVE Places'
  <2>1. ConfigType' /\ FetchType' /\ TaskType'
    BY <1>9 DEF Leaves, ConfigType, FetchType, TaskType
  <2>2. Stages' /\ Apart'
    BY <1>9 DEF Leaves, Stages, Apart, Due
  <2>3. QED BY <2>1, <2>2
<1>10. ASSUME NEW c \in Contracts, Answer(c) PROVE Places'
  BY <1>9, <1>10 DEF Answer, Poll, Woken, TimedOut, CancelThen
<1>11. CASE BeginBatch
  <2>1. holder' \in todo
    BY <1>11, LeadingPart DEF BeginBatch
  <2>2. ConfigType' /\ FetchType' /\ TaskType'
    BY <1>11, <2>1 DEF BeginBatch, ConfigType, FetchType, TaskType, market
  <2>3. Stages' /\ Apart'
    BY <1>11, <2>1 DEF BeginBatch, Stages, Apart, Due, market
  <2>4. QED BY <2>2, <2>3
<1>12. CASE RequestBatch
  <2>1. waiting' \subseteq todo /\ todo' = todo \ waiting'
    BY <1>12, LeadingPart DEF RequestBatch
  <2>2. waiting = {} /\ phase = "collect"
    BY <1>12 DEF RequestBatch, Apart, Stages
  <2>3. ConfigType' /\ FetchType' /\ TaskType'
    BY <1>12, <2>1, <2>2 DEF RequestBatch, ConfigType, FetchType, TaskType
  <2>4. Stages' /\ Apart'
    BY <1>12, <2>1, <2>2 DEF RequestBatch, Stages, Apart, Due
  <2>5. QED BY <2>3, <2>4
<1>13. CASE BatchEnds
  <2>1. level' \in [Contracts -> Levels]
    BY <1>13 DEF BatchEnds, TaskType
  <2>2. UNCHANGED <<config, fetch, holder, waited, done>> /\ waiting' = {} /\ mode = "reqtickers"
    BY <1>13 DEF BatchEnds
  <2>3. done = {}
    BY <2>2 DEF Stages
  <2>4. ConfigType' /\ FetchType' /\ TaskType'
    BY <2>1, <2>2, <2>3 DEF ConfigType, FetchType, TaskType
  <2>5. Stages' /\ Apart'
    BY <2>2, <2>3 DEF Stages, Apart, Due
  <2>6. QED BY <2>4, <2>5
<1>14. CASE Collapse
  <2>1. /\ phase' = "raised" /\ waiting' = {} /\ done' = {} /\ todo' = {} /\ holder' = Nobody
        /\ UNCHANGED <<mode, requireGreeks, known, rank, asked>>
    BY <1>14 DEF Collapse
  <2>2. ConfigType' /\ FetchType'
    BY <2>1 DEF ConfigType, FetchType
  <2>3. TaskType'
    <3>1. 0 \in 0 .. Timeout /\ "none" \in Levels
      BY <1>0 DEF Levels
    <3>2. waited' \in [Contracts -> 0 .. Timeout] /\ level' \in [Contracts -> Levels]
      BY <1>14, <3>1 DEF Collapse
    <3>3. QED BY <2>1, <3>2 DEF TaskType
  <2>4. Stages' /\ Apart'
    BY <1>0, <2>1 DEF Stages, Apart, Due
  <2>5. QED BY <2>2, <2>3, <2>4
<1>20. QED
  BY <1>1, <1>2, <1>3, <1>4, <1>5, <1>6, <1>7, <1>8, <1>10, <1>11, <1>12, <1>13, <1>14 DEF Next

-------------------------------------------------------------------------------
(* The rows. *)
LEMMA ConfigKept == Next => UNCHANGED config
<1>1. ASSUME NEW c \in Contracts, Answer(c) \/ \E l \in Levels : Deliver(c, l) PROVE UNCHANGED config
  BY <1>1 DEF Answer, Poll, Woken, TimedOut, CancelThen, Leaves, Deliver
<1>2. QED
  BY <1>1 DEF Next, Pick, NothingFound, Qualify, Return, NoToken, Tick, Begin, Request, BeginBatch,
              RequestBatch, BatchEnds, Collapse

LEMMA SameRows == UNCHANGED requireGreeks => Rows' = Rows
<1> SUFFICES ASSUME UNCHANGED requireGreeks PROVE Rows' = Rows
  OBVIOUS
<1>1. \A l : DataRow(l)' = DataRow(l)
  BY DEF DataRow, Ready
<1>2. \A e : ErrorRow(e)' = ErrorRow(e)
  BY DEF ErrorRow
<1>3. QED BY <1>1, <1>2 DEF Rows

LEMMA RowsKept ==
  ASSUME UNCHANGED requireGreeks, OneRowEach, rows' = rows, Answered' = Answered
  PROVE  OneRowEach'
  BY SameRows DEF OneRowEach

LEMMA RowAdded ==
  ASSUME UNCHANGED requireGreeks, OneRowEach, NEW c \in Contracts \ Answered, NEW r \in Rows,
         rows' = [rows EXCEPT ![c] = Append(@, r)], Answered' = Answered \cup {c}
  PROVE  OneRowEach'
<1>1. rows[c] = <<>> /\ Append(<<>>, r) = <<r>> /\ <<r>> \in Seq(Rows)
  <2>1. rows[c] = <<>>
    BY DEF OneRowEach
  <2>2. Append(<<>>, r) = <<r>> /\ <<r>> \in Seq(Rows)
    OBVIOUS
  <2>3. QED BY <2>1, <2>2
<1>2. rows' = [rows EXCEPT ![c] = <<r>>]
  BY <1>1
<1>3. rows' \in [Contracts -> Seq(Rows')]
  BY <1>1, <1>2, SameRows DEF OneRowEach
<1>4. ASSUME NEW d \in Contracts
      PROVE  /\ d \in Answered' => \E q \in Rows' : rows'[d] = <<q>>
             /\ d \notin Answered' => rows'[d] = <<>>
  <2>1. CASE d = c
    BY <1>2, <2>1, SameRows DEF OneRowEach
  <2>2. CASE d # c
    <3>1. rows'[d] = rows[d]
      BY <1>2, <2>2 DEF OneRowEach
    <3>2. QED BY <2>2, <3>1, SameRows DEF OneRowEach
  <2>3. QED BY <2>1, <2>2
<1>5. QED BY <1>3, <1>4 DEF OneRowEach

LEMMA NoRows ==
  ASSUME UNCHANGED requireGreeks, rows' = [c \in Contracts |-> <<>>], Answered' = {}
  PROVE  OneRowEach'
<1>1. <<>> \in Seq(Rows) /\ Rows' = Rows
  BY SameRows
<1>2. QED BY <1>1 DEF OneRowEach

LEMMA RowsInit == Init => OneRowEach
<1> SUFFICES ASSUME Init PROVE OneRowEach
  OBVIOUS
<1>1. <<>> \in Seq(Rows) /\ Answered = {} /\ rows = [c \in Contracts |-> <<>>]
  BY DEF Init, Answered, Due
<1>2. QED BY <1>1 DEF OneRowEach

LEMMA RowType ==
  /\ \A l \in Levels : DataRow(l) \in Rows
  /\ \A e \in Errors : ErrorRow(e) \in Rows
  BY DEF Rows

LEMMA RowsStep == ASSUME Places, OneRowEach, Next PROVE OneRowEach'
<1> USE DEF Places, Typed, config, fetch, bucket
<1>0. /\ Nobody \notin Contracts /\ asked \subseteq Contracts /\ waiting \subseteq asked
      /\ UNCHANGED requireGreeks
  BY ConfigKept, CollectAssumption DEF FetchType, TaskType
<1>1. CASE Pick
  <2>1. Answered = {} /\ rows' = rows /\ UNCHANGED <<mode, known, holder, waiting, level>>
    BY <1>1 DEF Pick, Answered, Stages, market
  <2>2. Answered' = {}
    <3>1. CASE UNCHANGED <<phase, asked, todo>>
      BY <2>1, <3>1 DEF Answered, Due, InTask
    <3>2. CASE asked' = Limited(OnExchange(rank)) /\ todo' = asked'
      BY <3>2 DEF Answered, Due
    <3>3. QED BY <1>1, <3>1, <3>2 DEF Pick
  <2>3. QED BY <1>0, <2>1, <2>2, RowsKept
<1>2. CASE NothingFound \/ Return
  <2>1. /\ phase # "raised" /\ phase' # "raised"
        /\ UNCHANGED <<mode, known, asked, todo, holder, waiting, rows, level>>
    BY <1>2 DEF NothingFound, Return, Gathered, market
  <2>2. Answered' = Answered
    BY <2>1 DEF Answered, Due, InTask
  <2>3. QED BY <1>0, <2>1, <2>2, RowsKept
<1>3. CASE Qualify
  <2>1. /\ phase # "raised" /\ phase' # "raised" /\ mode = "reqtickers" /\ todo = asked
        /\ todo' = asked \cap known
        /\ UNCHANGED <<mode, known, asked, holder, waiting, rows, level>>
    BY <1>3 DEF Qualify, Stages, market
  <2>2. Answered' = {} /\ Answered = {}
    BY <2>1 DEF Answered, Due
  <2>3. QED BY <1>0, <2>1, <2>2, RowsKept
<1>4. CASE NoToken \/ Tick
  <2>1. UNCHANGED <<mode, known, phase, asked, todo, holder, waiting, rows, level>>
    BY <1>4 DEF NoToken, Tick, market
  <2>2. Answered' = Answered
    BY <2>1 DEF Answered, Due, InTask
  <2>3. QED BY <1>0, <2>1, <2>2, RowsKept
<1>5. CASE Begin
  <2>1. PICK c \in todo : holder' = c /\ todo' = todo \ {c}
    BY <1>5, LeadingPart DEF Begin
  <2>2. /\ UNCHANGED <<mode, known, phase, asked, waiting, rows, level>>
        /\ mode # "reqtickers" /\ holder = Nobody /\ c # Nobody
    BY <1>0, <1>5, <2>1 DEF Begin, market, FetchType
  <2>3. todo' \cup InTask' = todo \cup InTask
    BY <2>1, <2>2 DEF InTask
  <2>4. Answered' = Answered
    BY <2>2, <2>3 DEF Answered, Due
  <2>5. QED BY <1>0, <2>2, <2>4, RowsKept
<1>6. CASE Request
  <2>1. /\ UNCHANGED <<mode, known, phase, asked, todo, level>>
        /\ mode # "reqtickers" /\ holder # Nobody /\ holder' = Nobody
    BY <1>6 DEF Request
  <2>2. /\ InTask = {holder} /\ InTask' = {} /\ phase = "collect"
        /\ holder \in asked /\ holder \notin todo \cup waiting
    BY <2>1 DEF InTask, Stages, TaskType, Apart
  <2>3. CASE waiting' = waiting \cup {holder} /\ rows' = rows
    <3>1. Answered' = Answered
      BY <2>1, <2>2, <2>3 DEF Answered, Due
    <3>2. QED BY <1>0, <2>1, <2>3, <3>1, RowsKept
  <2>4. CASE /\ waiting' = waiting
             /\ rows' = [rows EXCEPT ![holder] = Append(@, ErrorRow("subscription_failed"))]
    <3>1. Answered' = Answered \cup {holder} /\ holder \notin Answered /\ holder \in Contracts
      BY <1>0, <2>1, <2>2, <2>4 DEF Answered, Due
    <3>2. ErrorRow("subscription_failed") \in Rows
      BY <3>1, RowType DEF Errors
    <3>3. QED BY <1>0, <2>1, <2>4, <3>1, <3>2, RowAdded
  <2>5. QED BY <1>6, <2>3, <2>4 DEF Request
<1>7. ASSUME NEW c \in Contracts, NEW l \in Levels, Deliver(c, l) PROVE OneRowEach'
  <2>1. /\ UNCHANGED <<mode, known, phase, asked, todo, holder, waiting, rows>>
        /\ c \in waiting /\ level' = [level EXCEPT ![c] = l]
    BY <1>7 DEF Deliver
  <2>2. Answered' = Answered /\ c \notin Answered
    BY <2>1 DEF Answered, Due, InTask
  <2>3. QED BY <1>0, <2>1, <2>2, RowsKept
<1>8. ASSUME NEW c \in waiting, NEW row \in Rows, NEW ok, Leaves(c, row, ok),
             mode # "reqtickers"
      PROVE  OneRowEach'
  <2>1. /\ UNCHANGED <<mode, known, phase, asked, todo, holder, level>>
        /\ waiting' = waiting \ {c} /\ rows' = [rows EXCEPT ![c] = Append(@, row)]
    BY <1>8 DEF Leaves
  <2>2. phase = "collect" /\ c \in Contracts /\ c \in asked /\ c \notin todo /\ c # holder
    BY <1>0, <1>8 DEF Stages, Apart
  <2>3. Answered' = Answered \cup {c} /\ c \notin Answered
    BY <1>8, <2>1, <2>2 DEF Answered, Due, InTask
  <2>4. QED BY <1>0, <1>8, <2>1, <2>2, <2>3, RowAdded
<1>9. ASSUME NEW c \in Contracts, Answer(c) PROVE OneRowEach'
  <2>1. DataRow(level[c]) \in Rows
    BY RowType DEF TaskType
  <2>2. /\ ErrorRow("timeout") \in Rows
        /\ ErrorRow("unexpected_error") \in Rows
    BY RowType DEF Errors
  <2>3. c \in waiting /\ mode # "reqtickers"
    BY <1>9 DEF Answer, Poll, Woken, TimedOut, TaskType
  <2>4. \E row \in {DataRow(level[c]), ErrorRow("timeout"), ErrorRow("unexpected_error")},
            ok \in BOOLEAN : Leaves(c, row, ok)
    BY <1>9 DEF Answer, Poll, Woken, TimedOut, CancelThen
  <2>5. QED BY <1>8, <2>1, <2>2, <2>3, <2>4
<1>10. CASE BeginBatch
  <2>1. UNCHANGED <<mode, known, phase, asked, todo, waiting, rows, level>> /\ mode = "reqtickers"
    BY <1>10 DEF BeginBatch, market
  <2>2. Answered' = Answered
    BY <2>1 DEF Answered, Due, InTask
  <2>3. QED BY <1>0, <2>1, <2>2, RowsKept
<1>11. CASE RequestBatch
  <2>1. waiting' \subseteq todo /\ todo' = todo \ waiting'
    BY <1>11, LeadingPart DEF RequestBatch
  <2>2. /\ UNCHANGED <<mode, known, phase, asked, rows, level>>
        /\ mode = "reqtickers" /\ waiting = {}
    BY <1>11 DEF RequestBatch, Apart
  <2>3. Answered' = Answered
    BY <2>1, <2>2 DEF Answered, Due, InTask
  <2>4. QED BY <1>0, <2>2, <2>3, RowsKept
<1>12. CASE BatchEnds
  <2>1. PICK had \in [waiting -> Levels], ok \in BOOLEAN :
          /\ level' = [c \in Contracts |-> IF c \in waiting /\ ok THEN had[c] ELSE level[c]]
          /\ rows' = [c \in Contracts |->
                        IF c \notin waiting THEN rows[c]
                        ELSE Append(rows[c], IF ok THEN DataRow(had[c]) ELSE ErrorRow("batch_error"))]
    BY <1>12 DEF BatchEnds
  <2>2. /\ UNCHANGED <<mode, known, phase, asked, todo>> /\ mode = "reqtickers"
        /\ waiting' = {} /\ waiting # {}
    BY <1>12 DEF BatchEnds
  <2>3. phase = "collect" /\ waiting \subseteq Due /\ waiting \cap todo = {}
    BY <2>2 DEF Stages, Apart
  <2>4. Answered' = Answered \cup waiting /\ Answered \cap waiting = {}
    BY <2>2, <2>3 DEF Answered, Due, InTask
  <2>5. ASSUME NEW c \in Contracts
        PROVE  /\ rows'[c] \in Seq(Rows')
               /\ c \in Answered' => \E r \in Rows' : rows'[c] = <<r>>
               /\ c \notin Answered' => rows'[c] = <<>>
    <3>1. CASE c \notin waiting
      <4>1. rows'[c] = rows[c]
        BY <2>1, <3>1
      <4>2. QED BY <1>0, <2>4, <3>1, <4>1, SameRows DEF OneRowEach
    <3>2. CASE c \in waiting
      <4>1. PICK r : r = IF ok THEN DataRow(had[c]) ELSE ErrorRow("batch_error")
        OBVIOUS
      <4>2. rows[c] = <<>>
        BY <2>4, <3>2 DEF OneRowEach
      <4>3. rows'[c] = <<r>>
        <5>1. rows'[c] = Append(rows[c], r)
          BY <2>1, <3>2, <4>1
        <5>2. QED BY <4>2, <5>1
      <4>4. r \in Rows /\ Rows' = Rows
        <5>1. had[c] \in Levels /\ "batch_error" \in Errors
          BY <3>2 DEF Errors
        <5>2. QED BY <1>0, <4>1, <5>1, RowType, SameRows
      <4>5. QED BY <2>4, <3>2, <4>3, <4>4
    <3>3. QED BY <3>1, <3>2
  <2>6. rows' \in [Contracts -> Seq(Rows')]
    BY <2>1, <2>5
  <2>7. QED BY <2>5, <2>6 DEF OneRowEach
<1>13. CASE Collapse
  <2>1. rows' = [c \in Contracts |-> <<>>] /\ Answered' = {}
    BY <1>13 DEF Collapse, Answered
  <2>2. QED BY <1>0, <2>1, NoRows
<1>14. QED
  BY <1>1, <1>2, <1>3, <1>4, <1>5, <1>6, <1>7, <1>9, <1>10, <1>11, <1>12, <1>13 DEF Next

-------------------------------------------------------------------------------
(* The lines. *)
LEMMA LinesInit == Init => LinesOK
<1>1. IsFiniteSet({}) /\ Cardinality({}) = 0 /\ 0 <= Concurrency
  BY FS_EmptySet, CollectAssumption
<1>2. QED
  BY <1>1 DEF Init, LinesOK

(* Nothing that concerns the lines has happened. *)
LEMMA LinesKept ==
  ASSUME LinesOK, UNCHANGED <<mode, asked, lines, stuck, waiting>>, todo' \subseteq todo,
         holder' \in {holder, Nobody}, stuck \subseteq Contracts, Nobody \notin Contracts
  PROVE  LinesOK'
  BY DEF LinesOK

LEMMA LinesStep == ASSUME Places, LinesOK, Next PROVE LinesOK'
<1> USE DEF Places, Typed, config, fetch, bucket, market
<1>0. /\ Nobody \notin Contracts /\ asked \subseteq Contracts /\ waiting \subseteq asked
      /\ stuck \subseteq Contracts /\ UNCHANGED mode /\ Concurrency \in Nat
  BY ConfigKept, CollectAssumption DEF FetchType, TaskType, LinesOK
<1>1. CASE Pick
  <2>1. holder = Nobody /\ waiting = {} /\ Due = {} /\ UNCHANGED <<holder, waiting, lines, stuck>>
    BY <1>1 DEF Pick, Stages
  <2>2. lines = {} /\ stuck = {}
    BY <2>1 DEF LinesOK, Due
  <2>3. QED
    BY <1>0, <2>1, <2>2 DEF LinesOK
<1>2. CASE NothingFound \/ Return \/ NoToken \/ Tick
  BY <1>0, <1>2, LinesKept DEF NothingFound, Return, NoToken, Tick
<1>3. CASE Qualify
  BY <1>0, <1>3 DEF Qualify, Stages, LinesOK
<1>4. CASE Begin
  <2>1. PICK c \in todo : holder' = c /\ todo' = todo \ {c}
    BY <1>4, LeadingPart DEF Begin
  <2>2. Cardinality(waiting) < Concurrency /\ UNCHANGED <<asked, waiting, lines, stuck>>
    BY <1>4 DEF Begin
  <2>3. QED
    BY <1>0, <2>1, <2>2 DEF LinesOK
<1>5. CASE Request
  <2>1. /\ UNCHANGED <<asked, todo, stuck>> /\ mode # "reqtickers" /\ holder # Nobody
        /\ holder' = Nobody
        /\ \/ waiting' = waiting \cup {holder} /\ lines' = lines \cup {holder}
           \/ waiting' = waiting /\ lines' = lines
    BY <1>5 DEF Request
  <2>2. holder \in asked /\ holder \notin waiting
    BY <2>1 DEF TaskType, Apart
  <2>3. /\ IsFiniteSet(waiting) /\ Cardinality(waiting) < Concurrency
        /\ lines \ stuck = waiting /\ holder \notin stuck /\ todo \cap stuck = {}
        /\ lines \subseteq asked /\ stuck \subseteq lines
    BY <2>1 DEF LinesOK
  <2>4. CASE waiting' = waiting \cup {holder} /\ lines' = lines \cup {holder}
    <3>1. IsFiniteSet(waiting') /\ Cardinality(waiting') = Cardinality(waiting) + 1
      BY <2>2, <2>3, <2>4, FS_AddElement
    <3>2. Cardinality(waiting) \in Nat
      BY <2>3, FS_CardinalityType
    <3>3. Cardinality(waiting') <= Concurrency
      BY <1>0, <2>3, <3>1, <3>2
    <3>4. lines' \ stuck = waiting' /\ lines' \subseteq asked /\ stuck \subseteq lines'
      BY <2>2, <2>3, <2>4
    <3>5. QED
      BY <1>0, <2>1, <2>3, <3>1, <3>3, <3>4 DEF LinesOK
  <2>5. CASE waiting' = waiting /\ lines' = lines
    <3>1. Cardinality(waiting) <= Concurrency
      BY <1>0, <2>3, FS_CardinalityType
    <3>2. QED
      BY <1>0, <2>1, <2>3, <2>5, <3>1 DEF LinesOK
  <2>6. QED BY <2>1, <2>4, <2>5
<1>6. ASSUME NEW c \in Contracts, NEW l \in Levels, Deliver(c, l) PROVE LinesOK'
  BY <1>0, <1>6, LinesKept DEF Deliver
<1>7. ASSUME NEW c \in waiting, NEW row, NEW ok \in BOOLEAN, Leaves(c, row, ok), mode # "reqtickers",
             holder = Nobody
      PROVE  LinesOK'
  <2>1. /\ UNCHANGED <<asked, todo, holder>> /\ waiting' = waiting \ {c}
        /\ \/ lines' = lines \ {c} /\ stuck' = stuck
           \/ lines' = lines /\ stuck' = stuck \cup {c}
    BY <1>7 DEF Leaves
  <2>2. /\ IsFiniteSet(waiting) /\ Cardinality(waiting) <= Concurrency
        /\ lines \ stuck = waiting /\ todo \cap stuck = {} /\ holder \notin stuck
        /\ lines \subseteq asked /\ stuck \subseteq lines
    BY <1>7 DEF LinesOK
  <2>3. c \notin todo /\ c \in lines /\ c \notin stuck /\ c # Nobody
    BY <1>0, <1>7, <2>2 DEF Apart
  <2>4. IsFiniteSet(waiting') /\ Cardinality(waiting') = Cardinality(waiting) - 1
    BY <1>7, <2>1, <2>2, FS_RemoveElement
  <2>5. Cardinality(waiting') <= Concurrency
    BY <1>0, <2>2, <2>4, FS_CardinalityType
  <2>6. /\ lines' \ stuck' = waiting' /\ lines' \subseteq asked /\ stuck' \subseteq lines'
        /\ todo \cap stuck' = {} /\ holder \notin stuck'
    BY <1>7, <2>1, <2>2, <2>3
  <2>7. QED
    BY <1>0, <1>7, <2>1, <2>4, <2>5, <2>6 DEF LinesOK
<1>8. ASSUME NEW c \in Contracts, Answer(c) PROVE LinesOK'
  <2>1. c \in waiting /\ mode # "reqtickers" /\ holder = Nobody
    BY <1>8 DEF Answer, Poll, Woken, TimedOut, TaskType
  <2>2. \E row \in {DataRow(level[c]), ErrorRow("timeout"), ErrorRow("unexpected_error")},
            ok \in BOOLEAN : Leaves(c, row, ok)
    BY <1>8 DEF Answer, Poll, Woken, TimedOut, CancelThen
  <2>3. QED BY <1>7, <2>1, <2>2
<1>9. CASE BeginBatch
  BY <1>0, <1>9 DEF BeginBatch, LinesOK
<1>10. CASE RequestBatch \/ BatchEnds
  BY <1>0, <1>10 DEF RequestBatch, BatchEnds, LinesOK
<1>11. CASE Collapse
  <2>1. PICK S \in SUBSET (waiting \cap lines) :
          stuck' = stuck \cup S /\ lines' = lines \ (waiting \ S)
    BY <1>11 DEF Collapse
  <2>2. /\ waiting' = {} /\ todo' = {} /\ holder' = Nobody /\ asked' = asked
    BY <1>11 DEF Collapse
  <2>3. IsFiniteSet({}) /\ Cardinality({}) = 0 /\ 0 <= Concurrency
    BY <1>0, FS_EmptySet
  <2>4. lines' \subseteq asked /\ stuck' \subseteq lines' /\ stuck' \subseteq Contracts
    BY <1>0, <2>1 DEF LinesOK
  <2>5. mode = "reqtickers" => lines' = {}
    BY <2>1 DEF LinesOK
  <2>6. mode # "reqtickers" => lines' \ stuck' = {}
    BY <2>1 DEF LinesOK
  <2>7. QED
    BY <1>0, <2>2, <2>3, <2>4, <2>5, <2>6 DEF LinesOK
<1>12. QED
  BY <1>1, <1>2, <1>3, <1>4, <1>5, <1>6, <1>8, <1>9, <1>10, <1>11 DEF Next

-------------------------------------------------------------------------------
(* The exchanges. *)
LEMMA UsableKept ==
  ASSUME UNCHANGED config
  PROVE  \A r : Usable(r)' = Usable(r) /\ Limited(OnExchange(r))' = Limited(OnExchange(r))
  BY DEF config, Usable, Limited, OnExchange

LEMMA TurnInit == Init => InTurn
<1> SUFFICES ASSUME Init PROVE InTurn
  OBVIOUS
<1>1. rank = 1 /\ phase = "pick"
  BY DEF Init
<1>2. \A r : r \notin 1 .. 0
  OBVIOUS
<1>3. QED BY <1>1, <1>2 DEF InTurn

LEMMA TurnStep == ASSUME Places, OneRowEach, InTurn, Next PROVE InTurn'
<1>0. /\ Len(Preferences) \in Nat /\ rank \in 1 .. Len(Preferences) + 2
      /\ UNCHANGED config /\ Due' = {c \in asked' : mode = "reqtickers" => c \in known}
      /\ \A r : Usable(r)' = Usable(r) /\ Limited(OnExchange(r))' = Limited(OnExchange(r))
  BY ConfigKept, UsableKept, CollectAssumption DEF Places, Typed, FetchType, Due, config
<1>1. ASSUME rank' = rank + 1, Usable(rank) = {} PROVE \A r \in 1 .. rank' - 1 : Usable(r)' = {}
  <2> SUFFICES ASSUME NEW r \in 1 .. rank' - 1 PROVE Usable(r) = {}
    BY <1>0
  <2>1. r \in 1 .. rank - 1 \/ r = rank
    BY <1>0, <1>1
  <2>2. QED BY <1>1, <2>1 DEF InTurn
<1>2. ASSUME rank' = rank PROVE \A r \in 1 .. rank' - 1 : Usable(r)' = {}
  BY <1>0, <1>2 DEF InTurn
<1>3. CASE Pick
  <2>1. CASE Limited(OnExchange(rank)) = {}
    <3>1. rank' = rank + 1 /\ phase' = "pick" /\ Usable(rank) = {}
      BY <1>3, <2>1 DEF Pick, Usable
    <3>2. QED BY <1>1, <3>1 DEF InTurn
  <2>2. CASE Limited(OnExchange(rank)) # {}
    <3>1. /\ rank' = rank /\ phase' \in {"qualify", "collect"}
          /\ asked' = Limited(OnExchange(rank))
      BY <1>3, <2>2 DEF Pick
    <3>2. asked' = Limited(OnExchange(rank))'
      BY <1>0, <3>1
    <3>3. QED BY <1>2, <3>1, <3>2 DEF InTurn
  <2>3. QED BY <2>1, <2>2
<1>4. CASE NothingFound
  <2>1. /\ rank' = rank /\ asked' = asked /\ phase' = "done" /\ phase = "pick"
        /\ rank > Len(Preferences) + 1
    BY <1>4 DEF NothingFound
  <2>2. rank = Len(Preferences) + 2 /\ Due' = {}
    BY <1>0, <2>1 DEF Places, Stages, Due
  <2>3. QED BY <1>2, <2>1, <2>2 DEF InTurn
<1>5. CASE Return
  <2>1. /\ Gathered /\ phase = "collect" /\ asked' = asked
        /\ asked = Limited(OnExchange(rank)) /\ rank <= Len(Preferences) + 1
    BY <1>5 DEF Return, Gathered, InTurn, Places, Typed, FetchType
  <2>2. Due = Usable(rank) /\ Due' = Due
    BY <1>0, <2>1 DEF Due, Usable
  <2>3. CASE \E c \in asked : rows[c] # <<>>
    <3>1. PICK c \in asked : rows[c] # <<>>
      BY <2>3
    <3>2. c \in Answered
      BY <3>1 DEF OneRowEach, Places, Typed, FetchType
    <3>3. Due # {}
      BY <3>2 DEF Answered
    <3>4. phase' = "done" /\ rank' = rank
      BY <1>5, <2>3 DEF Return
    <3>5. asked' = Limited(OnExchange(rank))'
      BY <1>0, <2>1, <3>4
    <3>6. QED BY <1>2, <2>1, <2>2, <3>3, <3>4, <3>5 DEF InTurn
  <2>4. CASE \A c \in asked : rows[c] = <<>>
    <3>1. phase' = "pick" /\ rank' = rank + 1
      BY <1>5, <2>4 DEF Return
    <3>2. Usable(rank) = {}
      BY <2>1, <2>2, <2>4, NoRowsNothingDue
    <3>3. QED BY <1>1, <3>1, <3>2 DEF InTurn
  <2>5. QED BY <2>3, <2>4
<1>6. ASSUME UNCHANGED <<rank, asked>>,
             \/ phase' = phase
             \/ phase' = "raised"
             \/ phase = "qualify" /\ phase' = "collect"
      PROVE  InTurn'
  BY <1>0, <1>2, <1>6 DEF InTurn, Due
<1>7. CASE Qualify \/ NoToken \/ Tick \/ Begin \/ Request \/ BeginBatch \/ RequestBatch \/ BatchEnds \/ Collapse
  BY <1>6, <1>7 DEF Qualify, NoToken, Tick, Begin, Request, BeginBatch, RequestBatch, BatchEnds,
                    Collapse, fetch
<1>8. ASSUME NEW c \in Contracts, Answer(c) \/ \E l \in Levels : Deliver(c, l) PROVE InTurn'
  BY <1>6, <1>8 DEF Answer, Poll, Woken, TimedOut, CancelThen, Leaves, Deliver, fetch
<1>9. QED
  BY <1>3, <1>4, <1>5, <1>7, <1>8 DEF Next

-------------------------------------------------------------------------------
LEMMA InitOK == Init => IInv
<1>1. Init => BucketOK
  <2>1. Full \in Nat
    BY FullType
  <2>2. QED BY <2>1 DEF Init, BucketOK, Refilled, Least
<1>2. QED
  BY <1>1, PlacesInit, RowsInit, LinesInit, TurnInit DEF IInv

LEMMA StepOK == IInv /\ [Next]_vars => IInv'
<1>1. IInv /\ Next => IInv'
  BY BucketStep, PlacesStep, RowsStep, LinesStep, TurnStep DEF IInv
<1>2. ASSUME IInv, UNCHANGED vars PROVE IInv'
  <2> USE <1>2 DEF IInv, vars, config, fetch, bucket, market
  <2>1. Places'
    BY DEF Places, Typed, ConfigType, FetchType, TaskType, Stages, Apart, Due
  <2>2. OneRowEach'
    <3>1. Answered' = Answered
      BY DEF Answered, Due, InTask
    <3>2. QED BY <3>1, RowsKept
  <2>3. LinesOK'
    BY DEF LinesOK
  <2>4. BucketOK'
    BY DEF BucketOK, Refilled
  <2>5. InTurn'
    <3>1. /\ phase' = phase /\ rank' = rank /\ asked' = asked /\ Due' = Due
          /\ \A r : Usable(r)' = Usable(r) /\ Limited(OnExchange(r))' = Limited(OnExchange(r))
      BY UsableKept DEF Due
    <3>2. InTurn
      OBVIOUS
    <3>3. \A r \in 1 .. rank' - 1 : Usable(r)' = {}
      BY ONLY <3>1, <3>2 DEF InTurn
    <3>4. QED BY ONLY <3>1, <3>2, <3>3 DEF InTurn
  <2>6. QED BY <2>1, <2>2, <2>3, <2>4, <2>5
<1>3. QED BY <1>1, <1>2

LEMMA Invariance == Spec => []IInv
  BY InitOK, StepOK, PTL DEF Spec

(* A contract is asked for before it is begun, waited for or has its line. *)
THEOREM TypeCorrect == Spec => []TypeOK
<1>1. IInv => TypeOK
  <2> SUFFICES ASSUME IInv PROVE TypeOK
    OBVIOUS
  <2>1. ASSUME NEW c \in Contracts, NEW i \in DOMAIN rows[c] PROVE rows[c][i] \in Rows
    BY DEF IInv, OneRowEach
  <2>2. mode # "reqtickers" => waiting \subseteq lines
    BY DEF IInv, LinesOK
  <2>3. QED
    BY <2>1, <2>2 DEF IInv, Places, Typed, ConfigType, FetchType, TaskType, LinesOK, BucketOK,
                      TypeOK, Rows
<1>2. QED BY <1>1, Invariance, PTL

(* TokenBucket.acquire keeps the pace over any span of time, for any         *)
(* capacity and rate.                                                        *)
THEOREM PaceHolds == Spec => []Pacing
<1>1. IInv => Pacing
  <2> SUFFICES ASSUME IInv PROVE load <= Full
    BY DEF Pacing
  <2>1. Full \in Nat /\ Refilled \in Nat /\ load \in Nat /\ load + Refilled <= Full
    BY FullType DEF IInv, BucketOK, Refilled, Least
  <2>2. QED BY <2>1
<1>2. QED BY <1>1, Invariance, PTL

(* No more than Concurrency lines are open, and the fetchers leave none,     *)
(* whether they return rows or the loop collapses.                           *)
THEOREM NoLineLeft == Spec => []LinesReturned
<1>1. IInv => LinesReturned
  <2> SUFFICES ASSUME IInv PROVE LinesReturned
    OBVIOUS
  <2>1. CASE mode = "reqtickers"
    <3>1. lines = {} /\ stuck = {} /\ Cardinality({}) = 0 /\ 0 <= Concurrency
      BY <2>1, FS_EmptySet, CollectAssumption DEF IInv, LinesOK
    <3>2. lines \ stuck = {}
      BY <3>1
    <3>3. QED BY <3>1, <3>2 DEF LinesReturned
  <2>2. CASE mode # "reqtickers"
    BY <2>2 DEF IInv, Places, Stages, LinesOK, LinesReturned
  <2>3. QED BY <2>1, <2>2
<1>2. QED BY <1>1, Invariance, PTL

(* Every contract that was due has exactly one row when the fetch is over.   *)
THEOREM EachAnswered == Spec => []AnsweredOnce
<1>1. IInv => AnsweredOnce
  <2> SUFFICES ASSUME IInv, phase = "done", NEW c \in Contracts
               PROVE  Len(rows[c]) = IF c \in asked /\ (mode = "reqtickers" => c \in known) THEN 1 ELSE 0
    BY DEF AnsweredOnce
  <2>1. Answered = Due
    BY DEF IInv, Places, Stages, Answered, InTask
  <2>2. CASE c \in Due
    <3>1. PICK r \in Rows : rows[c] = <<r>>
      BY <2>1, <2>2 DEF IInv, OneRowEach
    <3>2. Len(rows[c]) = 1
      BY <3>1
    <3>3. QED BY <2>2, <3>2 DEF Due
  <2>3. CASE c \notin Due
    <3>1. rows[c] = <<>>
      BY <2>1, <2>3 DEF IInv, OneRowEach
    <3>2. QED BY <2>3, <3>1 DEF Due
  <2>4. QED BY <2>2, <2>3
<1>2. QED BY <1>1, Invariance, PTL

(* The rows a capture returns are those of the first exchange on which there *)
(* is a usable contract, and of all of its contracts.                        *)
THEOREM FirstUsableWins == Spec => []FirstUsableExchange
<1>1. IInv => FirstUsableExchange
  <2> SUFFICES ASSUME IInv, phase = "done", NEW c \in Contracts
               PROVE  rows[c] # <<>> <=>
                        \E r \in 1 .. Len(Preferences) + 1 :
                            c \in Usable(r) /\ \A q \in 1 .. r - 1 : Usable(q) = {}
    BY DEF FirstUsableExchange
  <2>1. Len(Preferences) \in Nat /\ rank \in 1 .. Len(Preferences) + 2
    BY CollectAssumption DEF IInv, Places, Typed, FetchType
  <2>2. \A r \in 1 .. rank - 1 : Usable(r) = {}
    BY DEF IInv, InTurn
  <2>3. rows[c] # <<>> <=> c \in Due
    <3>1. Answered = Due
      BY DEF IInv, Places, Stages, Answered, InTask
    <3>2. CASE c \in Due
      <4>1. PICK r \in Rows : rows[c] = <<r>>
        BY <3>1, <3>2 DEF IInv, OneRowEach
      <4>2. QED BY <3>2, <4>1
    <3>3. CASE c \notin Due
      BY <3>1, <3>3 DEF IInv, OneRowEach
    <3>4. QED BY <3>2, <3>3
  <2>4. CASE rank = Len(Preferences) + 2
    <3>1. Due = {}
      BY <2>1, <2>4 DEF IInv, InTurn
    <3>2. \A r \in 1 .. Len(Preferences) + 1 : Usable(r) = {}
      BY <2>1, <2>2, <2>4
    <3>3. QED BY <2>3, <3>1, <3>2
  <2>5. CASE rank # Len(Preferences) + 2
    <3>1. rank \in 1 .. Len(Preferences) + 1 /\ Due # {} /\ asked = Limited(OnExchange(rank))
      BY <2>1, <2>5 DEF IInv, InTurn
    <3>2. Due = Usable(rank)
      BY <3>1 DEF Due, Usable
    <3>3. ASSUME NEW r \in 1 .. Len(Preferences) + 1, c \in Usable(r),
                 \A q \in 1 .. r - 1 : Usable(q) = {}
          PROVE  r = rank
      <4>1. r \notin 1 .. rank - 1
        BY <2>2, <3>3
      <4>2. rank \notin 1 .. r - 1
        BY <3>1, <3>2, <3>3
      <4>3. QED BY <2>1, <3>1, <4>1, <4>2
    <3>4. QED BY <2>2, <2>3, <3>1, <3>2, <3>3
  <2>6. QED BY <2>4, <2>5
<1>2. QED BY <1>1, Invariance, PTL
================================================================================
