----------------------------- MODULE StoreProofs -----------------------------
(***************************************************************************)
(* The theorems of the four models of what is kept in files, for every     *)
(* value of their constants.  IntradayStore: a partition on which no two   *)
(* runs overlapped and no run died never loses a row.  StockStore: no day  *)
(* is left out, and what is deleted is merged.  OptionHistory: the folders *)
(* and the files of a contract join.  Fundamentals: the daily budget is    *)
(* kept, and nothing is fetched twice a day.                               *)
(***************************************************************************)
EXTENDS IntradayStore, StockStore, OptionHistory, Fundamentals, FiniteSetTheorems, WellFoundedInduction,
        TLAPS

(***************************************************************************)
(* IntradayStore.                                                          *)
(***************************************************************************)
(* Two runs that merge into one file are on record as overlapping on it. *)
SoleMerger ==
    \A r, q \in Runs, f \in Files :
        r # q /\ Merging(r, f) /\ Merging(q, f) => f \in overlapped

(* A file is truncated because a run is writing it, or died writing it. *)
TornIsOwned ==
    \A f \in torn : f \in crashed \/ \E r \in Runs : pc[r] = "write" /\ target[r] = f

(* What a run is about to write still extends what the file holds. *)
MergeIsFresh ==
    \A r \in Runs, f \in Files :
        Merging(r, f) /\ Intact(f) => merged[r] = Merge(file[f], rows[r][f[2]])

(* The rows of a run are in every partition it no longer has to write. *)
WrittenRowsKept ==
    \A r \in Runs, f \in Files :
        f \notin todo[r] => \A k \in Keys : rows[r][f[2]][k] <= latest[f][k]

(* A run that merges into a clean partition has left the raw layer. *)
RawLayerFirst ==
    \A r \in Runs, f \in Files :
        Merging(r, f) /\ f[1] = "clean" => \A g \in todo[r] : g[1] = "clean"

(* What was ever written to the clean layer was written to raw before. *)
CleanWrittenLater ==
    \A s \in Symbols, k \in Keys : latest[<<"clean", s>>][k] <= latest[<<"raw", s>>][k]

(* A run that returned has nothing left to write. *)
DoneHasNoTodo == \A r \in Runs : pc[r] = "done" => todo[r] = {}

FilesInv == NothingLost /\ SoleMerger /\ TornIsOwned /\ MergeIsFresh
RowsInv  == WrittenRowsKept /\ RawLayerFirst /\ CleanWrittenLater /\ DoneHasNoTodo
-------------------------------------------------------------------------------
(* Merge yields a frame, and one that is at least as new in every key as    *)
(* each of the two it merges (_deduplicate keeps the last row by asof_ts).  *)
LEMMA MergeProps ==
    ASSUME NEW old \in Frames, NEW new \in Frames
    PROVE  /\ Merge(old, new) \in Frames
           /\ \A k \in Keys : /\ old[k] <= Merge(old, new)[k]
                              /\ new[k] <= Merge(old, new)[k]
                              /\ Merge(old, new)[k] \in {old[k], new[k]}
<1>1. Merge(old, new) \in Frames
  BY DEF Merge, Frames
<1>2. ASSUME NEW k \in Keys
      PROVE  /\ old[k] <= Merge(old, new)[k]
             /\ new[k] <= Merge(old, new)[k]
             /\ Merge(old, new)[k] \in {old[k], new[k]}
  BY StoreAssumption, <1>2 DEF Merge, Frames, Asof
<1> QED BY <1>1, <1>2

(* The frame of no rows is a frame. *)
LEMMA EmptyFrame == Empty \in Frames /\ \A k \in Keys : Empty[k] = 0
  BY StoreAssumption DEF Empty, Frames, Asof
-------------------------------------------------------------------------------
(* Each action keeps the types. *)
LEMMA TypeStep == TypeOK /\ [Next]_vars => TypeOK'
<1> SUFFICES ASSUME TypeOK, [Next]_vars PROVE TypeOK'
  OBVIOUS
<1> USE StoreAssumption, EmptyFrame DEF TypeOK
<1>1. ASSUME NEW r \in Runs, Capture(r) PROVE TypeOK'
  <2>1. PICK now \in Asof \ Slots, got, answered \in [Symbols -> SUBSET Conids] :
            LET hit == {s \in Symbols : got[s] # {}}
            IN /\ clock < now
               /\ \A s \in Symbols : answered[s] \subseteq got[s]
               /\ clock' = now
               /\ rows' = [rows EXCEPT ![r] =
                              [s \in Symbols |-> Captured(r, got[s], answered[s], now)]]
               /\ todo' = [todo EXCEPT ![r] = Layers \X hit]
               /\ pc' = [pc EXCEPT ![r] = IF hit = {} THEN "done" ELSE "read"]
    BY <1>1, Zenon DEF Capture
  <2>2. slot[r] \in Asof
    <3>1. slot[r] \in Slots
      OBVIOUS
    <3>2. \A t \in Slots : t \in 1 .. MaxClock
      BY StoreAssumption
    <3>3. slot[r] \in 1 .. MaxClock
      BY <3>1, <3>2, Zenon
    <3>4. 1 .. MaxClock \subseteq Asof
      BY DEF Asof
    <3> QED BY <3>3, <3>4, Zenon
  <2>3. \A s \in Symbols : Captured(r, got[s], answered[s], now) \in Frames
    BY <2>2 DEF Captured, Frames, Asof
  <2>4. rows' \in [Runs -> [Symbols -> Frames]]
    BY <2>1, <2>3
  <2>5. todo' \in [Runs -> SUBSET Files] /\ pc' \in [Runs -> Steps]
    BY <2>1 DEF Files, Steps
  <2>6. \A q \in Runs : pc'[q] \in {"open", "write"} => target'[q] \in todo'[q]
    BY <1>1, <2>1 DEF Capture
  <2> QED BY <1>1, <2>1, <2>4, <2>5, <2>6 DEF Capture
<1>2. ASSUME NEW r \in Runs, ReadPartition(r) PROVE TypeOK'
  <2>1. PICK f \in Files :
            /\ NextFile(r, f)
            /\ target' = [target EXCEPT ![r] = f]
            /\ merged' = [merged EXCEPT ![r] =
                             Merge(IF f \in torn THEN Empty ELSE file[f], rows[r][f[2]])]
            /\ overlapped' = IF \E q \in Runs : Merging(q, f)
                             THEN overlapped \cup {f} ELSE overlapped
    BY <1>2 DEF ReadPartition
  <2>2. f[2] \in Symbols
    BY DEF Files
  <2>3. Merge(IF f \in torn THEN Empty ELSE file[f], rows[r][f[2]]) \in Frames
    BY <2>2, MergeProps
  <2>4. merged' \in [Runs -> Frames] /\ target' \in [Runs -> Files]
    BY <2>1, <2>3
  <2>5. \A q \in Runs : pc'[q] \in {"open", "write"} => target'[q] \in todo'[q]
    BY <1>2, <2>1 DEF ReadPartition, NextFile
  <2>6. overlapped' \subseteq Files /\ pc' \in [Runs -> Steps]
    BY <1>2, <2>1 DEF ReadPartition, Steps
  <2> QED BY <1>2, <2>4, <2>5, <2>6 DEF ReadPartition
<1>3. ASSUME NEW r \in Runs, OpenPartition(r) PROVE TypeOK'
  BY <1>3 DEF OpenPartition, Steps
<1>4. ASSUME NEW r \in Runs, FinishPartition(r) PROVE TypeOK'
  <2>1. target[r] \in Files /\ target[r][2] \in Symbols
    BY DEF Files
  <2>2. latest' \in [Files -> Frames] /\ file' \in [Files -> Frames]
    BY <1>4, <2>1, MergeProps DEF FinishPartition
  <2>3. \A q \in Runs : pc'[q] \in {"open", "write"} => target'[q] \in todo'[q]
    BY <1>4 DEF FinishPartition
  <2>4. /\ torn' \subseteq Files
        /\ todo' \in [Runs -> SUBSET Files]
        /\ pc' \in [Runs -> Steps]
        /\ merged' \in [Runs -> Frames]
    BY <1>4 DEF FinishPartition, Steps
  <2> QED BY <1>4, <2>2, <2>3, <2>4 DEF FinishPartition
<1>5. ASSUME NEW r \in Runs, Die(r) PROVE TypeOK'
  BY <1>5 DEF Die, Steps
<1>6. CASE UNCHANGED vars
  BY <1>6 DEF vars, run
<1> QED BY <1>1, <1>2, <1>3, <1>4, <1>5, <1>6 DEF Next

(* The variables of SnapshotRunner.run always have their types, whatever    *)
(* the interleaving of runs.                                                *)
THEOREM TypeCorrect == Spec => []TypeOK
<1>1. Init => TypeOK
  <2> SUFFICES ASSUME Init PROVE TypeOK
    OBVIOUS
  <2>1. target \in [Runs -> Files]
    <3>1. \E f : f \in Files
      <4>1. PICK s \in Symbols : TRUE
        BY StoreAssumption
      <4>2. <<"raw", s>> \in Files
        BY DEF Files, Layers
      <4> QED BY <4>2
    <3>2. Nowhere \in Files
      BY <3>1, Zenon DEF Nowhere
    <3> QED BY <3>2 DEF Init
  <2> QED BY EmptyFrame, StoreAssumption, <2>1 DEF Init, TypeOK, Steps, Asof
<1> QED BY <1>1, TypeStep, PTL DEF Spec
-------------------------------------------------------------------------------
(* A read or an open of a partition, and a run that captures or dies, write *)
(* nothing; what a run finishes is what it merged, and the record of the    *)
(* partition grows by the rows of the run.                                  *)
LEMMA FilesStep == TypeOK /\ FilesInv /\ [Next]_vars => FilesInv'
<1> SUFFICES ASSUME TypeOK, FilesInv, [Next]_vars PROVE FilesInv'
  OBVIOUS
<1> USE DEF FilesInv, NothingLost, SoleMerger, TornIsOwned, MergeIsFresh, Merging, Intact
<1>1. ASSUME NEW r \in Runs, Capture(r) PROVE FilesInv'
  <2>1. /\ pc[r] = "idle" /\ pc'[r] \in {"read", "done"}
        /\ \A q \in Runs \ {r} : pc'[q] = pc[q] /\ rows'[q] = rows[q]
        /\ UNCHANGED <<file, torn, target, merged, latest, overlapped, crashed>>
    BY <1>1 DEF Capture, TypeOK
  <2> QED BY <2>1
<1>2. ASSUME NEW r \in Runs, ReadPartition(r) PROVE FilesInv'
  <2>1. PICK f \in Files :
            /\ NextFile(r, f)
            /\ target' = [target EXCEPT ![r] = f]
            /\ merged' = [merged EXCEPT ![r] =
                             Merge(IF f \in torn THEN Empty ELSE file[f], rows[r][f[2]])]
            /\ overlapped' = IF \E q \in Runs : Merging(q, f)
                             THEN overlapped \cup {f} ELSE overlapped
    BY <1>2 DEF ReadPartition
  <2>2. /\ pc[r] = "read" /\ pc'[r] = "open"
        /\ \A q \in Runs \ {r} : /\ pc'[q] = pc[q] /\ target'[q] = target[q]
                                 /\ merged'[q] = merged[q]
        /\ target'[r] = f
        /\ merged'[r] = Merge(IF f \in torn THEN Empty ELSE file[f], rows[r][f[2]])
        /\ UNCHANGED <<file, torn, rows, latest, crashed>>
    BY <1>2, <2>1 DEF ReadPartition, TypeOK
  <2>3. overlapped \subseteq overlapped'
    BY <2>1
  <2>4. NothingLost'
    BY <2>2, <2>3
  <2>5. SoleMerger'
    BY <2>1, <2>2, <2>3
  <2>6. TornIsOwned'
    BY <2>2
  <2>7. f \in torn => f \in crashed \/ f \in overlapped'
    BY <2>1
  <2>8. MergeIsFresh'
    BY <2>2, <2>3, <2>7
  <2> QED BY <2>4, <2>5, <2>6, <2>8
<1>3. ASSUME NEW r \in Runs, OpenPartition(r) PROVE FilesInv'
  <2>1. /\ pc[r] = "open" /\ pc'[r] = "write"
        /\ \A q \in Runs \ {r} : pc'[q] = pc[q]
        /\ torn' = torn \cup {target[r]}
        /\ UNCHANGED <<file, rows, target, merged, latest, overlapped, crashed>>
    BY <1>3 DEF OpenPartition, TypeOK
  <2> QED BY <2>1
<1>4. ASSUME NEW r \in Runs, FinishPartition(r) PROVE FilesInv'
  <2> DEFINE f == target[r]
  <2>1. /\ f \in Files
        /\ pc[r] = "write" /\ pc'[r] \in {"done", "read"}
        /\ \A q \in Runs \ {r} : pc'[q] = pc[q] /\ merged'[q] = merged[q]
        /\ \A g \in Files \ {f} : file'[g] = file[g] /\ latest'[g] = latest[g]
        /\ file'[f] = merged[r]
        /\ latest'[f] = Merge(latest[f], rows[r][f[2]])
        /\ UNCHANGED <<rows, target, overlapped, crashed>>
    BY <1>4 DEF FinishPartition, TypeOK
  <2>2. \/ torn' = torn \ {f}
        \/ torn' = torn /\ \E q \in Runs \ {r} : pc[q] = "write" /\ target[q] = f
    BY <1>4 DEF FinishPartition
  <2>3. ASSUME NEW q \in Runs \ {r}, Merging(q, f) PROVE f \in overlapped
    BY <2>1, <2>3
  <2>4. Intact(f) => merged[r] = Merge(file[f], rows[r][f[2]])
    BY <2>1
  <2>5. NothingLost'
    BY <2>1, <2>4
  <2>6. SoleMerger'
    BY <2>1
  <2>7. TornIsOwned'
    BY <2>1, <2>2
  <2>8. MergeIsFresh'
    BY <2>1, <2>3
  <2> QED BY <2>5, <2>6, <2>7, <2>8
<1>5. ASSUME NEW r \in Runs, Die(r) PROVE FilesInv'
  <2>1. /\ pc'[r] = "dead"
        /\ \A q \in Runs \ {r} : /\ pc'[q] = pc[q] /\ rows'[q] = rows[q]
                                 /\ merged'[q] = merged[q]
        /\ crashed' = IF pc[r] = "write" THEN crashed \cup {target[r]} ELSE crashed
        /\ UNCHANGED <<file, torn, target, latest, overlapped>>
    BY <1>5 DEF Die, TypeOK
  <2> QED BY <2>1
<1>6. CASE UNCHANGED vars
  BY <1>6 DEF vars, run
<1> QED BY <1>1, <1>2, <1>3, <1>4, <1>5, <1>6 DEF Next

(* A run drops a partition from its list only when it has written it, and   *)
(* turns to the clean layer only when nothing of raw is left.               *)
LEMMA RowsStep == TypeOK /\ TypeOK' /\ RowsInv /\ [Next]_vars => RowsInv'
<1> SUFFICES ASSUME TypeOK, TypeOK', RowsInv, [Next]_vars PROVE RowsInv'
  OBVIOUS
<1> USE DEF RowsInv, RawLayerFirst, DoneHasNoTodo, Merging
<1>1. ASSUME NEW r \in Runs, Capture(r) PROVE RowsInv'
  <2>1. PICK now \in Asof \ Slots, got, answered \in [Symbols -> SUBSET Conids] :
            LET hit == {s \in Symbols : got[s] # {}}
            IN /\ clock < now
               /\ \A s \in Symbols : answered[s] \subseteq got[s]
               /\ clock' = now
               /\ rows' = [rows EXCEPT ![r] =
                              [s \in Symbols |-> Captured(r, got[s], answered[s], now)]]
               /\ todo' = [todo EXCEPT ![r] = Layers \X hit]
               /\ pc' = [pc EXCEPT ![r] = IF hit = {} THEN "done" ELSE "read"]
    BY <1>1, Zenon DEF Capture
  <2>2. /\ pc'[r] \in {"read", "done"}
        /\ pc'[r] = "done" => todo'[r] = {}
        /\ \A q \in Runs \ {r} : /\ pc'[q] = pc[q] /\ rows'[q] = rows[q]
                                 /\ todo'[q] = todo[q]
        /\ UNCHANGED <<target, latest>>
    BY <1>1, <2>1 DEF Capture, TypeOK, Layers
  <2>3. ASSUME NEW f \in Files, f \notin todo'[r], NEW k \in Keys
        PROVE  rows'[r][f[2]][k] <= latest[f][k]
    <3>1. f[1] \in Layers /\ f[2] \in Symbols /\ f = <<f[1], f[2]>>
      BY DEF Files
    <3>2. got[f[2]] = {}
      BY <2>1, <2>3, <3>1 DEF TypeOK
    <3>3. rows'[r][f[2]][k] = 0
      BY <2>1, <3>1, <3>2 DEF TypeOK, Captured
    <3>4. latest[f][k] \in Nat
      BY StoreAssumption DEF TypeOK, Frames, Asof
    <3> QED BY <3>3, <3>4
  <2>4. WrittenRowsKept'
    BY <2>2, <2>3 DEF WrittenRowsKept
  <2>5. CleanWrittenLater'
    BY <2>2 DEF CleanWrittenLater
  <2> QED BY <2>2, <2>4, <2>5
<1>2. ASSUME NEW r \in Runs, ReadPartition(r) PROVE RowsInv'
  <2>1. PICK f \in Files :
            /\ NextFile(r, f)
            /\ target' = [target EXCEPT ![r] = f]
    BY <1>2 DEF ReadPartition
  <2>2. /\ pc'[r] = "open" /\ target'[r] = f
        /\ \A q \in Runs \ {r} : pc'[q] = pc[q] /\ target'[q] = target[q]
        /\ UNCHANGED <<rows, todo, latest>>
    BY <1>2, <2>1 DEF ReadPartition, TypeOK
  <2> QED BY <2>1, <2>2 DEF NextFile, WrittenRowsKept, CleanWrittenLater
<1>3. ASSUME NEW r \in Runs, OpenPartition(r) PROVE RowsInv'
  <2>1. /\ pc[r] = "open" /\ pc'[r] = "write"
        /\ \A q \in Runs \ {r} : pc'[q] = pc[q]
        /\ UNCHANGED <<rows, todo, target, latest>>
    BY <1>3 DEF OpenPartition, TypeOK
  <2> QED BY <2>1 DEF WrittenRowsKept, CleanWrittenLater
<1>4. ASSUME NEW r \in Runs, FinishPartition(r) PROVE RowsInv'
  <2> DEFINE f == target[r]
             new == rows[r][f[2]]
  <2>1. /\ f \in Files /\ f[1] \in Layers /\ f[2] \in Symbols
        /\ f = <<f[1], f[2]>> /\ f \in todo[r]
        /\ pc[r] = "write" /\ pc'[r] \in {"done", "read"}
        /\ pc'[r] = "done" => todo'[r] = {}
        /\ todo'[r] = todo[r] \ {f}
        /\ \A q \in Runs \ {r} : pc'[q] = pc[q] /\ todo'[q] = todo[q]
        /\ \A g \in Files \ {f} : latest'[g] = latest[g]
        /\ latest'[f] = Merge(latest[f], new)
        /\ UNCHANGED <<rows, target>>
    BY <1>4 DEF FinishPartition, TypeOK, Files
  <2>2. latest[f] \in Frames /\ new \in Frames
    BY <2>1 DEF TypeOK
  <2>3. \A k \in Keys : /\ latest[f][k] <= latest'[f][k]
                        /\ new[k] <= latest'[f][k]
                        /\ latest'[f][k] \in {latest[f][k], new[k]}
    BY <2>1, <2>2, MergeProps
  <2>4. \A g \in Files, k \in Keys : /\ latest[g][k] \in Int /\ latest'[g][k] \in Int
                                     /\ latest[g][k] <= latest'[g][k]
    <3> TAKE g \in Files, k \in Keys
    <3>1. latest[g][k] \in Int /\ latest'[g][k] \in Int
      BY StoreAssumption DEF TypeOK, Frames, Asof
    <3>2. CASE g = f
      BY <2>3, <3>1, <3>2
    <3>3. CASE g # f
      <4>1. latest'[g] = latest[g]
        BY <2>1, <3>3
      <4> QED BY <3>1, <4>1
    <3> QED BY <3>1, <3>2, <3>3
  <2>5. \A q \in Runs, g \in Files, k \in Keys : rows[q][g[2]][k] \in Int
    BY StoreAssumption DEF TypeOK, Frames, Asof, Files
  <2>6. WrittenRowsKept'
    <3> SUFFICES ASSUME NEW q \in Runs, NEW g \in Files, g \notin todo'[q], NEW k \in Keys
                 PROVE  rows[q][g[2]][k] <= latest'[g][k]
      BY <2>1 DEF WrittenRowsKept
    <3>1. CASE g \notin todo[q]
      <4>1. rows[q][g[2]][k] <= latest[g][k]
        BY <3>1 DEF WrittenRowsKept
      <4> QED BY <4>1, <2>4, <2>5
    <3>2. CASE g \in todo[q]
      <4>1. q = r /\ g = f
        BY <2>1, <3>2
      <4> QED BY <4>1, <2>3
    <3> QED BY <3>1, <3>2
  <2>7. CleanWrittenLater'
    <3> SUFFICES ASSUME NEW s \in Symbols, NEW k \in Keys
                 PROVE  latest'[<<"clean", s>>][k] <= latest'[<<"raw", s>>][k]
      BY DEF CleanWrittenLater
    <3> DEFINE c == <<"clean", s>>
               w == <<"raw", s>>
    <3>1. /\ c \in Files /\ w \in Files /\ c # w
          /\ c[1] = "clean" /\ w[1] = "raw" /\ c[2] = s /\ w[2] = s
      BY DEF Files, Layers
    <3>2. latest[c][k] <= latest[w][k]
      BY DEF CleanWrittenLater
    <3>3. CASE f = c
      <4>1. w \notin todo[r]
        BY <2>1, <3>1, <3>3
      <4>2. rows[r][w[2]][k] <= latest[w][k]
        BY <3>1, <4>1 DEF WrittenRowsKept
      <4>3. new[k] <= latest[w][k]
        BY <3>1, <3>3, <4>2
      <4>4. latest'[w] = latest[w]
        BY <2>1, <3>1, <3>3
      <4> QED BY <2>3, <3>2, <3>3, <4>3, <4>4
    <3>4. CASE f # c
      <4>1. latest'[c][k] = latest[c][k]
        BY <2>1, <3>1, <3>4
      <4>2. latest[w][k] <= latest'[w][k] /\ latest[c][k] \in Int
            /\ latest[w][k] \in Int /\ latest'[w][k] \in Int
        BY <2>4, <3>1
      <4> QED BY <3>2, <4>1, <4>2
    <3> QED BY <3>3, <3>4
  <2> QED BY <2>1, <2>6, <2>7
<1>5. ASSUME NEW r \in Runs, Die(r) PROVE RowsInv'
  <2>1. /\ pc'[r] = "dead"
        /\ \A q \in Runs \ {r} : /\ pc'[q] = pc[q] /\ rows'[q] = rows[q]
                                 /\ todo'[q] = todo[q]
        /\ rows'[r] = [s \in Symbols |-> Empty]
        /\ UNCHANGED <<target, latest>>
    BY <1>5 DEF Die, TypeOK
  <2>2. \A f \in Files, k \in Keys : rows'[r][f[2]][k] = 0 /\ latest[f][k] \in Nat
    BY <2>1, EmptyFrame, StoreAssumption DEF Files, TypeOK, Frames, Asof
  <2>3. WrittenRowsKept'
    BY <2>1, <2>2 DEF WrittenRowsKept
  <2> QED BY <2>1, <2>3 DEF CleanWrittenLater
<1>6. CASE UNCHANGED vars
  BY <1>6 DEF vars, run, WrittenRowsKept, CleanWrittenLater
<1> QED BY <1>1, <1>2, <1>3, <1>4, <1>5, <1>6 DEF Next
-------------------------------------------------------------------------------
(* All parts of the invariant hold throughout.                              *)
LEMMA Inductive == Spec => [](TypeOK /\ FilesInv /\ RowsInv)
<1>1. Init => FilesInv
  BY DEF Init, FilesInv, NothingLost, SoleMerger, TornIsOwned, MergeIsFresh, Merging
<1>2. Init => RowsInv
  <2> SUFFICES ASSUME Init PROVE RowsInv
    OBVIOUS
  <2>1. WrittenRowsKept
    BY EmptyFrame DEF Init, WrittenRowsKept, Files
  <2>2. CleanWrittenLater
    BY EmptyFrame DEF Init, CleanWrittenLater, Files, Layers
  <2> QED BY <2>1, <2>2 DEF Init, RowsInv, RawLayerFirst, DoneHasNoTodo, Merging
<1> QED BY <1>1, <1>2, TypeCorrect, TypeStep, FilesStep, RowsStep, PTL DEF Spec

(* However captures and merges interleave, a partition no two runs had open *)
(* at once and no run died on holds the newest row ever written for each    *)
(* key (_merge_and_write_partition).                                        *)
THEOREM NoLostUpdate == Spec => []NothingLost
<1>1. FilesInv => NothingLost
  BY DEF FilesInv
<1> QED BY <1>1, Inductive, PTL

(* The clean layer is never ahead of raw, whatever run died between the two *)
(* loops of SnapshotRunner.run.                                             *)
THEOREM CleanNeverAhead == Spec => []CleanBehindRaw
<1>1. FilesInv /\ RowsInv => CleanBehindRaw
  <2> SUFFICES ASSUME FilesInv, RowsInv, NEW s \in Symbols,
                      Intact(<<"raw", s>>), Intact(<<"clean", s>>), NEW k \in Keys
               PROVE  file[<<"clean", s>>][k] <= file[<<"raw", s>>][k]
    BY DEF CleanBehindRaw
  <2>1. <<"raw", s>> \in Files /\ <<"clean", s>> \in Files
    BY DEF Files, Layers
  <2> QED BY <2>1 DEF FilesInv, NothingLost, RowsInv, CleanWrittenLater
<1> QED BY <1>1, Inductive, PTL

(* A run that returned has its rows, or rows of the same keys with a later  *)
(* stamp, in both layers, whatever the runs after it did: the error row of  *)
(* a repeated capture, stamped with the slot, never replaces an answer that *)
(* came after the time of its slot.                                         *)
THEOREM ReturnIsDurable == Spec => []ReturnedRunKept
<1>1. FilesInv /\ RowsInv => ReturnedRunKept
  BY DEF FilesInv, NothingLost, RowsInv, WrittenRowsKept, DoneHasNoTodo, ReturnedRunKept
<1> QED BY <1>1, Inductive, PTL
-------------------------------------------------------------------------------
(***************************************************************************)
(* Sets of days have a first and a last one.                               *)
(***************************************************************************)
(* A set of days has a last one: of the subsets {later days}, one has no   *)
(* smaller one.                                                            *)
LEMMA LastExists ==
  ASSUME NEW n \in Nat, NEW T \in SUBSET (1 .. n), T # {}
  PROVE  \E x \in T : \A y \in T : y <= x
<1> DEFINE Later(x) == {y \in T : x < y}
           All == {Later(x) : x \in T}
<1>0. T \subseteq Int
  OBVIOUS
<1>1. IsFiniteSet(T)
  <2>1. IsFiniteSet(1 .. n)
    BY FS_Interval
  <2>2. QED BY <2>1, FS_Subset
<1>2. \A x \in T : Later(x) \in FiniteSubsetsOf(T)
  BY <1>1, FS_Subset DEF FiniteSubsetsOf
<1>3. All \in SUBSET FiniteSubsetsOf(T) /\ All # {}
  BY <1>2
<1>4. PICK M \in All : \A L \in All : <<L, M>> \notin StrictSubsetOrdering(T)
  <2> HIDE DEF All
  <2>1. IsWellFoundedOn(StrictSubsetOrdering(T), FiniteSubsetsOf(T))
    BY FS_StrictSubsetOrderingWellFounded
  <2>2. QED BY <1>3, <2>1, WFMin, Zenon
<1>5. PICK x \in T : M = Later(x)
  OBVIOUS
<1>6. ASSUME NEW y \in T PROVE y <= x
  <2> SUFFICES ASSUME x < y PROVE FALSE
    OBVIOUS
  <2>1. Later(y) \subseteq Later(x) /\ y \in Later(x) /\ y \notin Later(y)
    <3>1. \A z \in T : z \in Int /\ x \in Int /\ y \in Int /\ (y < z => x < z) /\ ~(y < y)
      BY <1>0
    <3>2. QED BY <3>1
  <2>2. Later(y) \in SUBSET T /\ Later(x) \in SUBSET T /\ Later(y) \in All
    OBVIOUS
  <2> HIDE DEF Later, All
  <2>3. <<Later(y), Later(x)>> \in StrictSubsetOrdering(T)
    BY <2>1, <2>2 DEF StrictSubsetOrdering
  <2>4. QED BY <1>4, <1>5, <2>2, <2>3
<1>7. QED BY <1>6

(* And a first one. *)
LEMMA FirstExists ==
  ASSUME NEW n \in Nat, NEW T \in SUBSET (1 .. n), T # {}
  PROVE  \E x \in T : \A y \in T : x <= y
<1> DEFINE U == {n + 1 - x : x \in T}
<1>1. \A x \in T : x \in Int /\ 1 <= x /\ x <= n
  OBVIOUS
<1>2. U \in SUBSET (1 .. n) /\ U # {}
  <2>1. \A x \in T : n + 1 - x \in 1 .. n
    BY <1>1
  <2>2. \A u \in U : u \in 1 .. n
    BY <2>1
  <2>3. QED BY <2>2
<1>3. PICK u \in U : \A v \in U : v <= u
  BY <1>2, LastExists
<1>4. PICK x \in T : u = n + 1 - x
  BY <1>3
<1>5. ASSUME NEW y \in T PROVE x <= y
  <2>1. n + 1 - y <= n + 1 - x
    BY <1>3, <1>4
  <2>2. QED BY <1>1, <2>1
<1>6. QED BY <1>5

LEMMA NewestOfDays ==
  ASSUME NEW n \in Nat, NEW T \in SUBSET (1 .. n), T # {}
  PROVE  Newest(T) \in T /\ \A e \in T : e <= Newest(T)
  BY LastExists DEF Newest

LEMMA OldestOfDays ==
  ASSUME NEW n \in Nat, NEW T \in SUBSET (1 .. n), T # {}
  PROVE  Oldest(T) \in T /\ \A e \in T : Oldest(T) <= e
  BY FirstExists DEF Oldest

-------------------------------------------------------------------------------
(***************************************************************************)
(* StockStore.                                                             *)
(***************************************************************************)
(* The constants of StockStore. *)
LEMMA StockConstants ==
  /\ LastDay \in Nat /\ LastDay >= 1 /\ MaxCrashes \in Nat /\ MaxCommands \in Nat
  /\ MonthDays \in Nat /\ MonthDays >= 1 /\ KeepMonths \in Nat /\ KeepMonths >= 1
  /\ Window \in Nat /\ Window >= 1
  BY StockAssumption, DaysAssumption

Names == UNION {Values(v) : v \in Views}

LEMMA EmptyTable == \A S : Nothing \in Tables(S)
<1>1. \A S : Nothing \in [{} -> SUBSET S] /\ {} \in SUBSET Days
  BY DEF Nothing
<1>2. QED BY <1>1 DEF Tables

LEMMA NoRows ==
  ASSUME NEW S, NEW f \in Tables(S), DOMAIN f = {}, NEW T
  PROVE  f \in Tables(T)
<1>1. f \in [{} -> SUBSET S]
  BY DEF Tables
<1>2. f \in [{} -> SUBSET T] /\ {} \in SUBSET Days
  BY <1>1
<1>3. QED BY <1>2 DEF Tables

LEMMA TableParts ==
  ASSUME NEW S, NEW f \in Tables(S)
  PROVE  /\ DOMAIN f \in SUBSET Days /\ \A d \in DOMAIN f : f[d] \in SUBSET S
<1>1. PICK D \in SUBSET Days : f \in [D -> SUBSET S]
  BY DEF Tables
<1>2. QED BY <1>1

LEMMA TableIntro ==
  ASSUME NEW S, NEW D \in SUBSET Days, NEW f \in [D -> SUBSET S]
  PROVE  f \in Tables(S)
  BY DEF Tables

LEMMA WithTable ==
  ASSUME NEW S, NEW f \in Tables(S), NEW d \in Days, NEW x, x \subseteq S
  PROVE  /\ With(f, d, x) \in Tables(S)
         /\ DOMAIN With(f, d, x) = DOMAIN f \cup {d}
         /\ With(f, d, x)[d] = x
         /\ \A e \in DOMAIN f : e # d => With(f, d, x)[e] = f[e]
<1>1. DOMAIN f \cup {d} \in SUBSET Days /\ \A e \in DOMAIN f : f[e] \in SUBSET S
  BY TableParts
<1>2. With(f, d, x) \in [DOMAIN f \cup {d} -> SUBSET S]
  BY <1>1 DEF With
<1>3. With(f, d, x) \in Tables(S)
  BY <1>1, <1>2, TableIntro
<1>4. QED BY <1>3 DEF With

LEMMA WithoutTable ==
  ASSUME NEW S, NEW f \in Tables(S), NEW d
  PROVE  /\ Without(f, d) \in Tables(S)
         /\ DOMAIN Without(f, d) = DOMAIN f \ {d}
         /\ \A e \in DOMAIN f : e # d => Without(f, d)[e] = f[e]
<1>1. DOMAIN f \ {d} \in SUBSET Days /\ \A e \in DOMAIN f : f[e] \in SUBSET S
  BY TableParts
<1>2. Without(f, d) \in [DOMAIN f \ {d} -> SUBSET S]
  BY <1>1 DEF Without
<1>3. Without(f, d) \in Tables(S)
  BY <1>1, <1>2, TableIntro
<1>4. QED BY <1>3 DEF Without

(* What a write leaves. *)
StoreType ==
    /\ store \in [Views -> [Universe -> Tables(Names)]]
    /\ \A v \in Views, s \in Universe : store[v][s] \in Tables(Values(v))

LEMMA WrittenEffect ==
  ASSUME StoreType, NEW v \in Views, NEW s \in Universe, NEW d \in Days,
         NEW row \in SUBSET Values(v), store' = Written(v, s, d, row)
  PROVE  /\ StoreType'
         /\ \A w \in Views, t \in Universe :
               IF w = v /\ t = s THEN Dates(w, t)' = Dates(w, t) \cup {d}
                                ELSE store'[w][t] = store[w][t]
<1>1. row \subseteq Names /\ row \subseteq Values(v)
  BY DEF Names
<1>2. store[v][s] \in Tables(Names) /\ store[v][s] \in Tables(Values(v))
  BY DEF StoreType
<1> DEFINE new == With(store[v][s], d, row)
<1>3. new \in Tables(Names) /\ new \in Tables(Values(v)) /\ DOMAIN new = Dates(v, s) \cup {d}
  <2>1. new \in Tables(Names)
    BY <1>1, <1>2, WithTable
  <2>2. new \in Tables(Values(v))
    BY <1>1, <1>2, WithTable
  <2>3. DOMAIN new = DOMAIN store[v][s] \cup {d}
    BY DEF With
  <2>4. QED BY <2>1, <2>2, <2>3 DEF Dates
<1> HIDE DEF new
<1>4. store' = [store EXCEPT ![v][s] = new]
  BY DEF Written, new
<1>5. \A w \in Views, t \in Universe : store'[w][t] = IF w = v /\ t = s THEN new ELSE store[w][t]
  BY <1>4 DEF StoreType
<1>6. store' \in [Views -> [Universe -> Tables(Names)]]
  BY <1>3, <1>4 DEF StoreType
<1>7. QED BY <1>3, <1>5, <1>6 DEF StoreType, Dates

LEMMA NewestDate ==
  ASSUME StoreType, NEW v \in Views, NEW s \in Universe, Dates(v, s) # {}
  PROVE  /\ Newest(Dates(v, s)) \in Dates(v, s) /\ Dates(v, s) \subseteq Days
         /\ \A e \in Dates(v, s) : e <= Newest(Dates(v, s))
<1>1. Dates(v, s) \in SUBSET (1 .. LastDay) /\ LastDay \in Nat
  BY StockConstants, TableParts DEF StoreType, Dates, Days
<1>2. \E d \in Dates(v, s) : \A e \in Dates(v, s) : e <= d
  BY <1>1, LastExists
<1>3. QED BY <1>1, <1>2 DEF Newest, Days

-------------------------------------------------------------------------------
RestType ==
    /\ day \in Days /\ phase \in {"idle", "next", "fill", "merge", "delete"} /\ view \in Views
    /\ stepped \in [Views -> [Universe -> SUBSET Days]]
    /\ damaged \subseteq Views \X Universe \X Days
    /\ pending \in Tables(Values(view))
    /\ window \in Int \X Days /\ window[1] <= window[2] /\ queue \subseteq Universe
    /\ phase = "fill" => queue # {}
    /\ phase # "fill" => DOMAIN pending = {}
    /\ dirs \subseteq Views \X Days /\ keys \subseteq MonthKeys /\ unreadable \subseteq MonthKeys
    /\ {auto, chained, failed, remove} \subseteq BOOLEAN
    /\ commands \in 0 .. MaxCommands /\ crashes \in 0 .. MaxCrashes
MergedType ==
    /\ DOMAIN months = MonthKeys
    /\ \A k \in MonthKeys : /\ months[k].cols \subseteq Seq(Parts) /\ DOMAIN months[k].rows \subseteq Days
                        /\ \A d \in DOMAIN months[k].rows : months[k].rows[d] \subseteq months[k].cols
Typed == StoreType /\ RestType /\ MergedType

LEMMA FirstType ==
  ASSUME Typed, queue # {}
  PROVE  sym \in Universe /\ First \in Int /\ First <= LastDay + 1
<1>1. sym \in Universe /\ window[1] \in Int /\ view \in Views
  BY DEF Typed, RestType, sym
<1>2. window[1] <= LastDay + 1 /\ LastDay \in Int
  BY StockConstants DEF Typed, RestType, Days
<1>3. Dates(view, sym) # {} => Newest(Dates(view, sym)) + 1 \in Int /\ Newest(Dates(view, sym)) + 1 <= LastDay + 1
  <2>1. Dates(view, sym) # {} => Newest(Dates(view, sym)) \in Days
    BY <1>1, NewestDate DEF Typed
  <2>2. QED BY StockConstants, <2>1 DEF Days
<1>4. QED BY <1>1, <1>2, <1>3 DEF First

LEMMA SkippedDays ==
  ASSUME Typed, NEW v \in Views, NEW s \in Universe, NEW first \in Int, first <= LastDay + 1,
         stepped' = StepOver(v, s, first)
  PROVE  /\ stepped' \in [Views -> [Universe -> SUBSET Days]]
         /\ \A w \in Views, t \in Universe : stepped[w][t] \subseteq stepped'[w][t]
         /\ Skipped(v, s, first) \subseteq stepped'[v][s]
<1>1. Skipped(v, s, first) \subseteq Days
  BY StockConstants DEF Skipped, Days
<1>2. \A w \in Views, t \in Universe :
         stepped'[w][t] = IF w = v /\ t = s THEN stepped[v][s] \cup Skipped(v, s, first)
                                           ELSE stepped[w][t]
  BY DEF Typed, RestType, StepOver
<1>3. stepped' \in [Views -> [Universe -> SUBSET Days]]
  BY <1>1 DEF Typed, RestType, StepOver
<1>4. QED BY <1>2, <1>3

(* What a write, whole or torn, may change beside the store. *)
LEMMA DamageTypes ==
  ASSUME Typed, NEW v \in Views, NEW s \in Universe, NEW d \in Days
  PROVE  /\ \A row : WriteFile(v, s, d, row) => damaged' \subseteq Views \X Universe \X Days
         /\ TearFile(v, s, d) => /\ damaged' \subseteq Views \X Universe \X Days
                                 /\ crashes' \in 0 .. MaxCrashes
<1>1. damaged \subseteq Views \X Universe \X Days /\ <<v, s, d>> \in Views \X Universe \X Days
  BY DEF Typed, RestType
<1>2. crashes < MaxCrashes => crashes + 1 \in 0 .. MaxCrashes
  BY StockConstants DEF Typed, RestType
<1>3. QED BY <1>1, <1>2 DEF WriteFile, TearFile

(* The day that is written is one of the calendar's. *)
LEMMA NextDateType ==
  ASSUME Typed, phase = "fill", NEW d \in NextDate(DOMAIN pending)
  PROVE  /\ view \in Views /\ sym \in Universe /\ d \in Days
         /\ d \in DOMAIN pending /\ pending[d] \in SUBSET Values(view)
<1>1. view \in Views /\ sym \in Universe
  BY FirstType DEF Typed, RestType
<1>2. d \in DOMAIN pending
  BY DEF NextDate
<1>3. d \in Days /\ pending[d] \in SUBSET Values(view)
  BY <1>2, TableParts DEF Typed, RestType
<1>4. QED BY <1>1, <1>2, <1>3

LEMMA RestStep == ASSUME Typed, StockNext PROVE RestType'
<1> USE DEF Typed, RestType
<1>1. CASE Tomorrow
  BY StockConstants, <1>1 DEF Tomorrow, commandState, limits, Days
<1>2. ASSUME NEW v \in Views, NEW s \in Universe, NEW d \in Days, NEW row, Snapshot(v, s, d, row)
      PROVE  RestType'
  <2>1. d \in Int /\ d <= LastDay + 1
    BY StockConstants DEF Days
  <2>2. stepped' \in [Views -> [Universe -> SUBSET Days]]
    BY <1>2, <2>1, SkippedDays DEF Snapshot
  <2>3. damaged' \subseteq Views \X Universe \X Days /\ crashes' \in 0 .. MaxCrashes
    <3>1. (WriteFile(v, s, d, row) /\ UNCHANGED crashes) \/ TearFile(v, s, d)
      BY <1>2 DEF Snapshot
    <3>2. QED BY <3>1, DamageTypes
  <2>4. commands' \in 0 .. MaxCommands
    BY StockConstants, <1>2 DEF Snapshot, Command
  <2>5. QED BY <1>2, <2>2, <2>3, <2>4 DEF Snapshot, Command, commandState
<1>3. ASSUME NEW v \in Views, NEW d \in Days, NEW fromNewest \in BOOLEAN, NEW chain \in BOOLEAN,
             StartBackfill(v, d, fromNewest, chain)
      PROVE  RestType'
  <2>1. pending' \in Tables(Values(view'))
    BY <1>3, NoRows DEF StartBackfill, Command
  <2>2. window' \in Int \X Days /\ window'[1] <= window'[2]
    BY StockConstants, <1>3 DEF StartBackfill, Days
  <2>3. QED BY StockConstants, <1>3, <2>1, <2>2 DEF StartBackfill, Command
<1>4. ASSUME NEW answer \in [Values(view) -> Answers], Fetch(answer)
      PROVE  RestType'
  <2>1. stepped' \in [Views -> [Universe -> SUBSET Days]]
    BY <1>4, FirstType, SkippedDays DEF Fetch
  <2>2. pending' \in Tables(Values(view))
    <3> DEFINE D == UNION {BarDays(answer[c]) : c \in Values(view)}
    <3>1. D \in SUBSET Days
      BY DEF BarDays
    <3>2. pending' \in [D -> SUBSET Values(view)]
      BY <1>4 DEF Fetch
    <3> HIDE DEF D
    <3>3. QED BY <3>1, <3>2, TableIntro
  <2>3. QED BY <1>4, <2>1, <2>2 DEF Fetch, limits
<1>5. CASE Write
  <2>1. PICK d \in NextDate(DOMAIN pending) :
           WriteFile(view, sym, d, pending[d]) /\ pending' = Without(pending, d)
    BY <1>5 DEF Write
  <2>2. pending' \in Tables(Values(view))
    BY <2>1, WithoutTable
  <2>3. damaged' \subseteq Views \X Universe \X Days
    BY <1>5, <2>1, NextDateType, DamageTypes DEF Write
  <2>4. QED BY <1>5, <2>2, <2>3 DEF Write, limits
<1>6. CASE SymbolDone
  BY <1>6 DEF SymbolDone, limits
<1>7. CASE RunDone
  <2>1. pending' \in Tables(Values(view'))
    BY <1>7, NoRows DEF RunDone
  <2>2. window' \in Int \X Days /\ window'[1] <= window'[2] /\ view' \in Views
    BY StockConstants, <1>7 DEF RunDone, Days, Views
  <2>3. QED BY <1>7, <2>1, <2>2 DEF RunDone, limits
<1>8. CASE RunFails
  <2>1. pending' \in Tables(Values(view')) /\ DOMAIN pending' = {}
    BY <1>8, EmptyTable DEF RunFails, Nothing
  <2>2. window' \in Int \X Days /\ window'[1] <= window'[2] /\ view' \in Views
    BY StockConstants, <1>8 DEF RunFails, Days, Views
  <2>3. {auto', chained', failed', remove'} \subseteq BOOLEAN
    <3>1. auto' \in {auto, FALSE} /\ chained' = FALSE /\ failed' = failed /\ remove' = remove
      BY <1>8, Zenon DEF RunFails
    <3>2. QED BY <3>1
  <2>4. queue' \subseteq Universe /\ phase' \in {"idle", "next"}
    BY <1>8 DEF RunFails
  <2>5. UNCHANGED <<day, stepped, dirs, keys, unreadable, commands>>
    BY <1>8 DEF RunFails
  <2>6. damaged' \subseteq Views \X Universe \X Days /\ crashes' \in 0 .. MaxCrashes
    <3>1. CASE crashes < MaxCrashes /\ crashes' = crashes + 1 /\ UNCHANGED damaged
      BY StockConstants, <3>1
    <3>2. CASE phase = "fill" /\ \E d \in NextDate(DOMAIN pending) : TearFile(view, sym, d)
      BY <3>2, NextDateType, DamageTypes
    <3>3. QED BY <1>8, <3>1, <3>2 DEF RunFails
  <2>7. QED BY <2>1, <2>2, <2>3, <2>4, <2>5, <2>6
<1>9. ASSUME NEW r \in BOOLEAN, StartCleanup(r) PROVE RestType'
  <2>1. OldKeys \subseteq MonthKeys
    BY DEF OldKeys, MonthKeys
  <2>2. {auto', chained', failed', remove'} \subseteq BOOLEAN
    BY <1>9 DEF StartCleanup
  <2>3. dirs' \subseteq Views \X Days /\ keys' \subseteq MonthKeys /\ phase' = "merge"
    BY <1>9, <2>1 DEF StartCleanup
  <2>4. /\ UNCHANGED <<day, damaged, view, stepped, pending, window, queue, unreadable, crashes>>
        /\ DOMAIN pending = {}
    BY <1>9 DEF StartCleanup, Command
  <2>5. commands' \in 0 .. MaxCommands
    BY StockConstants, <1>9 DEF StartCleanup, Command
  <2>6. QED BY <2>2, <2>3, <2>4, <2>5
<1>10. CASE MergeKey
  BY <1>10 DEF MergeKey, limits
<1>11. CASE MergesDone
  BY <1>11 DEF MergesDone, CleanupOver, limits
<1>12. CASE DeleteDir
  <2>1. PICK x \in dirs : stepped' = [stepped EXCEPT ![x[1]] = [s \in Universe |-> @[s] \cup {x[2]}]]
    BY <1>12 DEF DeleteDir, NextDir
  <2>2. stepped' \in [Views -> [Universe -> SUBSET Days]]
    BY <2>1
  <2>3. QED BY <1>12, <2>2 DEF DeleteDir, NextDir, limits
<1>13. CASE DeletesDone
  BY <1>13 DEF DeletesDone, CleanupOver, limits
<1>14. CASE CleanupDies
  <2>1. keys # {} => key \in MonthKeys
    BY DEF key
  <2>2. unreadable' \subseteq MonthKeys
    BY <1>14, <2>1 DEF CleanupDies
  <2>3. {auto', chained', failed', remove'} \subseteq BOOLEAN
    BY <1>14 DEF CleanupDies, CleanupOver
  <2>4. QED BY StockConstants, <1>14, <2>2, <2>3 DEF CleanupDies, CleanupOver
<1>15. ASSUME NEW s \in Universe, NEW d \in Days,
              \/ SnapshotBars(s, d)
              \/ \E row \in SUBSET Values("volatility") : SnapshotVolatility(s, d, row)
       PROVE  RestType'
  BY <1>2, <1>15 DEF SnapshotBars, SnapshotVolatility, Views
<1>16. QED
  BY <1>15, <1>1, <1>2, <1>3, <1>4, <1>5, <1>6, <1>7, <1>8, <1>9, <1>10, <1>11, <1>12, <1>13, <1>14
  DEF StockNext

-------------------------------------------------------------------------------
(* The month's file. *)
FrameOK(f) == /\ f.cols \subseteq Seq(Parts) /\ DOMAIN f.rows \subseteq Days
              /\ \A d \in DOMAIN f.rows : f.rows[d] \subseteq f.cols
Has(f, d, c) == \E x \in At(f, d) : x[1] = c[1]

LEMMA ColumnsType ==
  \A v \in Views : /\ Columns(v) \subseteq Seq(Parts) /\ Values(v) \subseteq Columns(v)
                  /\ Columns(v) # {}
<1>1. {<<"meta">>, <<"bar">>, <<"iv">>, <<"hv">>} \subseteq Seq(Parts)
  <2>1. \A a \in Parts : <<a>> \in Seq(Parts)
    OBVIOUS
  <2>2. {"meta", "bar", "iv", "hv"} \subseteq Parts
    BY DEF Parts
  <2>3. QED BY <2>1, <2>2, Zenon
<1>2. \A v \in Views : Values(v) = {<<"bar">>} \/ Values(v) = {<<"iv">>, <<"hv">>}
  BY DEF Values
<1>3. ASSUME NEW v \in Views
      PROVE  /\ Columns(v) \subseteq Seq(Parts) /\ Values(v) \subseteq Columns(v) /\ Columns(v) # {}
  <2>1. CASE Values(v) = {<<"bar">>}
    BY <1>1, <2>1, Zenon DEF Columns
  <2>2. CASE Values(v) = {<<"iv">>, <<"hv">>}
    BY <1>1, <2>2, Zenon DEF Columns
  <2>3. QED BY <1>2, <2>1, <2>2
<1>4. QED BY <1>3

LEMMA SourceRows ==
  ASSUME Typed, NEW v \in Views, NEW k \in MonthKeys, NEW d \in Source(v, k)
  PROVE  d \in Days /\ d \in Dates(v, k[1]) /\ store[v][k[1]][d] \subseteq Values(v)
<1>1. k[1] \in Universe
  BY DEF MonthKeys
<1>2. d \in DOMAIN store[v][k[1]]
  BY DEF Source, OldDates, Dates
<1>3. store[v][k[1]] \in Tables(Values(v))
  BY <1>1 DEF Typed, StoreType
<1>4. QED BY <1>2, <1>3, TableParts DEF Dates

LEMMA PriceFrameOK ==
  ASSUME Typed, NEW k \in MonthKeys
  PROVE  /\ FrameOK(PriceFrame(k))
         /\ \A d \in Source("daily_bars", k) : /\ At(PriceFrame(k), d) = store["daily_bars"][k[1]][d]
                                               /\ PriceFrame(k).cols # {}
<1> DEFINE bars == Source("daily_bars", k)
           f == PriceFrame(k)
<1>1. "daily_bars" \in Views
  BY DEF Views
<1>2. /\ f.cols = months[k].cols \cup (IF bars = {} THEN {} ELSE Columns("daily_bars"))
      /\ DOMAIN f.rows = bars \cup DOMAIN months[k].rows
      /\ \A d \in DOMAIN f.rows : f.rows[d] = IF d \in bars THEN store["daily_bars"][k[1]][d]
                                                         ELSE months[k].rows[d]
  BY DEF PriceFrame
<1>3. \A d \in bars : d \in Days /\ store["daily_bars"][k[1]][d] \subseteq Columns("daily_bars")
  BY <1>1, SourceRows, ColumnsType
<1> HIDE DEF f, bars
<1>4. /\ months[k].cols \subseteq Seq(Parts) /\ DOMAIN months[k].rows \subseteq Days
      /\ \A d \in DOMAIN months[k].rows : months[k].rows[d] \subseteq months[k].cols
  BY DEF Typed, MergedType
<1>5. FrameOK(f)
  <2>1. f.cols \subseteq Seq(Parts)
    BY <1>1, <1>2, <1>4, ColumnsType
  <2>2. DOMAIN f.rows \subseteq Days
    BY <1>2, <1>3, <1>4
  <2>3. ASSUME NEW d \in DOMAIN f.rows PROVE f.rows[d] \subseteq f.cols
    BY <1>2, <1>3, <1>4
  <2>4. QED BY <2>1, <2>2, <2>3 DEF FrameOK
<1>6. ASSUME NEW d \in bars PROVE At(f, d) = store["daily_bars"][k[1]][d] /\ f.cols # {}
  BY <1>1, <1>2, ColumnsType DEF At
<1>7. QED BY <1>5, <1>6 DEF f, bars

LEMMA VolFrameOK ==
  ASSUME Typed, NEW k \in MonthKeys
  PROVE  /\ FrameOK(VolFrame(k))
         /\ \A d \in Source("volatility", k) : /\ At(VolFrame(k), d) = store["volatility"][k[1]][d]
                                               /\ VolFrame(k).cols # {}
<1> DEFINE vols == Source("volatility", k)
           f == VolFrame(k)
<1>1. "volatility" \in Views
  BY DEF Views
<1>2. /\ f.cols = IF vols = {} THEN {} ELSE Columns("volatility")
      /\ DOMAIN f.rows = vols
      /\ \A d \in DOMAIN f.rows : f.rows[d] = store["volatility"][k[1]][d]
  BY DEF VolFrame
<1>3. \A d \in vols : d \in Days /\ store["volatility"][k[1]][d] \subseteq Columns("volatility")
  BY <1>1, SourceRows, ColumnsType
<1> HIDE DEF f, vols
<1>4. f.cols \subseteq Seq(Parts) /\ DOMAIN f.rows \subseteq Days
  BY <1>1, <1>2, <1>3, ColumnsType
<1>5. ASSUME NEW d \in DOMAIN f.rows PROVE f.rows[d] \subseteq f.cols
  BY <1>2, <1>3
<1>6. ASSUME NEW d \in vols PROVE At(f, d) = store["volatility"][k[1]][d] /\ f.cols # {}
  BY <1>1, <1>2, ColumnsType DEF At
<1>7. QED BY <1>4, <1>5, <1>6 DEF f, vols, FrameOK

(* A column keeps its name when it is given a suffix. *)
LEMMA RenamedColumns ==
  ASSUME NEW S, S \subseteq Seq(Parts), NEW common, NEW suffix \in Parts
  PROVE  /\ Renamed(S, common, suffix) \subseteq Seq(Parts)
         /\ \A T : T \subseteq S => Renamed(T, common, suffix) \subseteq Renamed(S, common, suffix)
         /\ \A c \in S : c # <<>> => \E x \in Renamed(S, common, suffix) : x[1] = c[1]
<1>1. ASSUME NEW c \in S
      PROVE  /\ Append(c, suffix) \in Seq(Parts)
             /\ c # <<>> => Append(c, suffix)[1] = c[1]
  OBVIOUS
<1>2. QED BY <1>1 DEF Renamed

LEMMA JoinOK ==
  ASSUME NEW l, NEW r, FrameOK(l), FrameOK(r)
  PROVE  /\ FrameOK(Join(l, r))
         /\ \A d, c : c # <<>> /\ (c \in At(l, d) \/ c \in At(r, d)) => Has(Join(l, r), d, c)
<1> DEFINE common == l.cols \cap r.cols
           both(a, b) == Renamed(a, common, "_price") \cup Renamed(b, common, "_vol")
           j == Join(l, r)
<1>1. /\ j.cols = both(l.cols, r.cols)
      /\ DOMAIN j.rows = DOMAIN l.rows \cup DOMAIN r.rows
      /\ \A d \in DOMAIN j.rows : j.rows[d] = both(At(l, d), At(r, d))
  BY DEF Join
<1>2. "_price" \in Parts /\ "_vol" \in Parts
  BY DEF Parts
<1>3. \A d : At(l, d) \subseteq l.cols /\ At(r, d) \subseteq r.cols
  BY DEF At, FrameOK
<1>4. l.cols \subseteq Seq(Parts) /\ r.cols \subseteq Seq(Parts)
  BY DEF FrameOK
<1> HIDE DEF j, common
<1>5. j.cols \subseteq Seq(Parts)
  BY <1>1, <1>2, <1>4, RenamedColumns
<1>6. ASSUME NEW d PROVE both(At(l, d), At(r, d)) \subseteq both(l.cols, r.cols)
  <2>1. Renamed(At(l, d), common, "_price") \subseteq Renamed(l.cols, common, "_price")
    BY <1>2, <1>3, <1>4, RenamedColumns
  <2>2. Renamed(At(r, d), common, "_vol") \subseteq Renamed(r.cols, common, "_vol")
    BY <1>2, <1>3, <1>4, RenamedColumns
  <2>3. QED BY <2>1, <2>2
<1>7. FrameOK(j)
  <2>1. DOMAIN j.rows \subseteq Days
    BY <1>1 DEF FrameOK
  <2>2. \A d \in DOMAIN j.rows : j.rows[d] \subseteq j.cols
    BY <1>1, <1>6
  <2>3. QED BY <1>5, <2>1, <2>2 DEF FrameOK
<1>8. ASSUME NEW d, NEW c, c # <<>>, c \in At(l, d) \/ c \in At(r, d)
      PROVE  Has(j, d, c)
  <2>1. d \in DOMAIN j.rows
    BY <1>1, <1>8 DEF At
  <2>2. At(j, d) = both(At(l, d), At(r, d))
    BY <1>1, <2>1 DEF At
  <2>3. CASE c \in At(l, d)
    <3>1. At(l, d) \subseteq Seq(Parts)
      BY <1>3, <1>4
    <3>2. PICK x \in Renamed(At(l, d), common, "_price") : x[1] = c[1]
      BY <1>2, <1>8, <2>3, <3>1, RenamedColumns
    <3>3. QED BY <2>2, <3>2 DEF Has
  <2>4. CASE c \in At(r, d)
    <3>1. At(r, d) \subseteq Seq(Parts)
      BY <1>3, <1>4
    <3>2. PICK x \in Renamed(At(r, d), common, "_vol") : x[1] = c[1]
      BY <1>2, <1>8, <2>4, <3>1, RenamedColumns
    <3>3. QED BY <2>2, <3>2 DEF Has
  <2>5. QED BY <1>8, <2>3, <2>4
<1>9. QED BY <1>7, <1>8 DEF j

(* The merged month has the values of every partition it is made from. *)
LEMMA MergedMonthOK ==
  ASSUME Typed, NEW k \in MonthKeys
  PROVE  /\ FrameOK(MergedMonth(k))
         /\ \A v \in Views : \A d \in Source(v, k) : \A c \in store[v][k[1]][d] :
               Has(MergedMonth(k), d, c)
<1> DEFINE l == PriceFrame(k)
           r == VolFrame(k)
<1>1. FrameOK(l) /\ FrameOK(r)
  BY PriceFrameOK, VolFrameOK
<1>2. \A d \in Source("daily_bars", k) : At(l, d) = store["daily_bars"][k[1]][d] /\ l.cols # {}
  BY PriceFrameOK
<1>3. \A d \in Source("volatility", k) : At(r, d) = store["volatility"][k[1]][d] /\ r.cols # {}
  BY VolFrameOK
<1>4. \A v \in Views : \A d \in Source(v, k) : \A c \in store[v][k[1]][d] :
         c # <<>> /\ (c \in At(l, d) \/ c \in At(r, d))
  <2>1. \A v \in Views : \A d \in Source(v, k) : store[v][k[1]][d] \subseteq Values(v)
    BY SourceRows
  <2>2. \A v \in Views : \A c \in Values(v) : c # <<>>
    BY DEF Values
  <2>3. QED BY <1>2, <1>3, <2>1, <2>2 DEF Views
<1>5. MergedMonth(k) = IF r.cols = {} THEN l ELSE IF l.cols = {} THEN r ELSE Join(l, r)
  BY DEF MergedMonth
<1>6. \A d, c : c \in At(l, d) => l.cols # {} /\ Has(l, d, c)
  BY <1>1 DEF FrameOK, At, Has
<1>7. \A d, c : c \in At(r, d) => r.cols # {} /\ Has(r, d, c)
  BY <1>1 DEF FrameOK, At, Has
<1> HIDE DEF l, r
<1>8. CASE r.cols = {}
  BY <1>1, <1>4, <1>5, <1>6, <1>7, <1>8
<1>9. CASE r.cols # {} /\ l.cols = {}
  BY <1>1, <1>4, <1>5, <1>6, <1>7, <1>9
<1>10. CASE r.cols # {} /\ l.cols # {}
  BY <1>1, <1>4, <1>5, <1>10, JoinOK
<1>11. QED BY <1>8, <1>9, <1>10

LEMMA MergedStep == ASSUME Typed, [StockNext]_stockVars PROVE MergedType'
<1>1. CASE UNCHANGED months
  BY <1>1 DEF Typed, MergedType
<1>2. CASE MergeKey /\ ~MergeFails
  <2>1. key \in MonthKeys /\ months' = [months EXCEPT ![key] = MergedMonth(key)]
    BY <1>2 DEF MergeKey, key, Typed, RestType
  <2>2. FrameOK(MergedMonth(key))
    BY <2>1, MergedMonthOK
  <2>3. DOMAIN months' = MonthKeys
    BY <2>1 DEF Typed, MergedType
  <2>4. \A k \in MonthKeys : months'[k] = months[k] \/ FrameOK(months'[k])
    BY <2>1, <2>2 DEF Typed, MergedType
  <2>5. \A k \in MonthKeys : FrameOK(months[k])
    BY DEF Typed, MergedType, FrameOK
  <2>6. \A k \in MonthKeys : FrameOK(months'[k])
    BY <2>4, <2>5, Zenon
  <2>7. QED BY <2>3, <2>6 DEF MergedType, FrameOK
<1>3. StockNext => UNCHANGED months \/ (MergeKey /\ ~MergeFails)
  BY DEF StockNext, Tomorrow, SnapshotBars, SnapshotVolatility, Snapshot, StartBackfill, Fetch,
         Write, SymbolDone, RunDone, RunFails, StartCleanup, MergeKey, MergesDone, DeleteDir,
         DeletesDone, CleanupDies
<1>4. QED BY <1>1, <1>2, <1>3 DEF stockVars

-------------------------------------------------------------------------------
(* The steps that change the store. *)
LEMMA StoreChanges ==
  ASSUME Typed, [StockNext]_stockVars
  PROVE  \/ UNCHANGED store
         \/ \E v \in Views, s \in Universe, d \in Days : \E row \in SUBSET Values(v) :
               store' = Written(v, s, d, row)
         \/ DeleteDir
<1>1. ASSUME NEW v \in Views, NEW s \in Universe, NEW d \in Days, NEW row \in SUBSET Values(v),
             Snapshot(v, s, d, row)
      PROVE  \E x \in SUBSET Values(v) : store' = Written(v, s, d, x)
  <2>1. store' = Written(v, s, d, row) \/ store' = Written(v, s, d, {})
    BY <1>1 DEF Snapshot, WriteFile, TearFile
  <2>2. {} \in SUBSET Values(v)
    OBVIOUS
  <2>3. QED BY <2>1, <2>2
<1>2. CASE Write \/ (RunFails /\ ~UNCHANGED store)
  <2>1. PICK d \in NextDate(DOMAIN pending) :
           store' = Written(view, sym, d, pending[d]) \/ store' = Written(view, sym, d, {})
    BY <1>2 DEF Write, RunFails, WriteFile, TearFile
  <2>2. /\ view \in Views /\ sym \in Universe /\ d \in Days
        /\ pending[d] \in SUBSET Values(view) /\ {} \in SUBSET Values(view)
    BY <1>2, NextDateType DEF Write, RunFails
  <2>3. QED BY <2>1, <2>2
<1>3. CASE \E s \in Universe, d \in Days :
             \/ SnapshotBars(s, d)
             \/ \E row \in SUBSET Values("volatility") : SnapshotVolatility(s, d, row)
  <2>1. "daily_bars" \in Views /\ "volatility" \in Views
    BY DEF Views
  <2>2. QED BY <1>1, <1>3, <2>1 DEF SnapshotBars, SnapshotVolatility
<1>4. CASE UNCHANGED stockVars
  BY <1>4 DEF stockVars
<1>5. StockNext => \/ UNCHANGED store \/ Write \/ DeleteDir \/ (RunFails /\ ~UNCHANGED store)
                   \/ \E s \in Universe, d \in Days :
                         \/ SnapshotBars(s, d)
                         \/ \E row \in SUBSET Values("volatility") : SnapshotVolatility(s, d, row)
  BY DEF StockNext, Tomorrow, StartBackfill, Fetch, SymbolDone, RunDone, StartCleanup,
         MergeKey, MergesDone, DeletesDone, CleanupDies
<1>6. QED BY <1>2, <1>3, <1>4, <1>5

(* What the deletion of a directory leaves. *)
Deletes(x) ==
    \A v \in Views, s \in Universe :
       /\ DOMAIN store'[v][s] = IF v = x[1] THEN DOMAIN store[v][s] \ {x[2]} ELSE DOMAIN store[v][s]
       /\ \A d \in DOMAIN store'[v][s] : store'[v][s][d] = store[v][s][d]
       /\ stepped'[v][s] = IF v = x[1] THEN stepped[v][s] \cup {x[2]} ELSE stepped[v][s]

LEMMA DeleteEffect ==
  ASSUME Typed, DeleteDir
  PROVE  StoreType' /\ \E x \in dirs : Deletes(x)
<1>1. PICK x \in dirs :
         /\ store' = [store EXCEPT ![x[1]] = [s \in Universe |-> Without(@[s], x[2])]]
         /\ stepped' = [stepped EXCEPT ![x[1]] = [s \in Universe |-> @[s] \cup {x[2]}]]
  BY DEF DeleteDir, NextDir
<1>2. x[1] \in Views
  BY DEF Typed, RestType
<1>3. \A v \in Views, s \in Universe :
         store'[v][s] = IF v = x[1] THEN Without(store[v][s], x[2]) ELSE store[v][s]
  BY <1>1, <1>2 DEF Typed, StoreType
<1>4. \A v \in Views, s \in Universe :
         stepped'[v][s] = IF v = x[1] THEN stepped[v][s] \cup {x[2]} ELSE stepped[v][s]
  BY <1>1, <1>2 DEF Typed, RestType
<1>5. \A v \in Views, s \in Universe :
         /\ store[v][s] \in Tables(Names) /\ store[v][s] \in Tables(Values(v))
         /\ Without(store[v][s], x[2]) \in Tables(Names)
         /\ Without(store[v][s], x[2]) \in Tables(Values(v))
  BY WithoutTable DEF Typed, StoreType
<1>6. StoreType'
  <2>1. store' \in [Views -> [Universe -> Tables(Names)]]
    <3>1. \A s \in Universe : Without(store[x[1]][s], x[2]) \in Tables(Names)
      BY <1>2, <1>5
    <3>2. [s \in Universe |-> Without(store[x[1]][s], x[2])] \in [Universe -> Tables(Names)]
      BY <3>1
    <3>3. QED BY <1>1, <1>2, <3>2 DEF Typed, StoreType
  <2>2. QED BY <1>3, <1>5, <2>1 DEF StoreType
<1>7. ASSUME NEW v \in Views, NEW s \in Universe
      PROVE  /\ DOMAIN store'[v][s] = IF v = x[1] THEN DOMAIN store[v][s] \ {x[2]}
                                                ELSE DOMAIN store[v][s]
             /\ \A d \in DOMAIN store'[v][s] : store'[v][s][d] = store[v][s][d]
  <2>1. DOMAIN Without(store[v][s], x[2]) = DOMAIN store[v][s] \ {x[2]}
    BY DEF Without
  <2>2. \A d \in DOMAIN store[v][s] \ {x[2]} : Without(store[v][s], x[2])[d] = store[v][s][d]
    BY DEF Without
  <2>3. QED BY <1>3, <2>1, <2>2
<1>8. Deletes(x)
  BY <1>4, <1>7 DEF Deletes
<1>9. QED BY <1>6, <1>8

LEMMA StockTypedStep == ASSUME Typed, [StockNext]_stockVars PROVE Typed'
<1>1. RestType'
  <2>1. CASE UNCHANGED stockVars
    BY <2>1 DEF Typed, RestType, stockVars, commandState, limits
  <2>2. QED BY <2>1, RestStep
<1>2. StoreType'
  <2>1. CASE UNCHANGED store
    BY <2>1 DEF Typed, StoreType
  <2>2. ASSUME NEW v \in Views, NEW s \in Universe, NEW d \in Days, NEW row \in SUBSET Values(v),
               store' = Written(v, s, d, row)
        PROVE  StoreType'
    BY <2>2, WrittenEffect DEF Typed
  <2>3. QED BY <2>1, <2>2, StoreChanges, DeleteEffect
<1>3. QED BY <1>1, <1>2, MergedStep DEF Typed

(* The types are kept by every step, from the start on. *)
LEMMA StockTyped == StockSpec => []Typed
<1>1. StockInit => Typed
  <2> SUFFICES ASSUME StockInit PROVE Typed
    OBVIOUS
  <2>1. "daily_bars" \in Views
    BY DEF Views
  <2>2. StoreType
    BY EmptyTable DEF StockInit, StoreType
  <2>3. MergedType
    BY DEF StockInit, MergedType, Nothing
  <2>4. DOMAIN pending = {} /\ pending \in Tables(Values(view))
    BY EmptyTable DEF StockInit, Nothing
  <2>5. window \in Int \X Days /\ window[1] <= window[2] /\ day \in Days
    BY StockConstants DEF StockInit, Days
  <2>6. /\ stepped \in [Views -> [Universe -> SUBSET Days]]
        /\ commands \in 0 .. MaxCommands /\ crashes \in 0 .. MaxCrashes
    BY StockConstants DEF StockInit
  <2>7. {auto, chained, failed, remove} \subseteq BOOLEAN
    BY DEF StockInit
  <2>8. RestType
    BY <2>1, <2>4, <2>5, <2>6, <2>7 DEF StockInit, RestType
  <2>9. QED BY <2>2, <2>3, <2>8 DEF Typed
<1>2. Typed /\ [StockNext]_stockVars => Typed'
  BY StockTypedStep
<1>3. QED BY <1>1, <1>2, PTL DEF StockSpec

(* StockStore keeps its types: every date is one of the calendar's, a      *)
(* partition has only values of its view, and the file of a month never    *)
(* has a row with a value outside its columns.                             *)
THEOREM StockTypeCorrect == StockSpec => []StockTypeOK
<1>1. Typed => StockTypeOK
  BY DEF Typed, StoreType, RestType, MergedType, StockTypeOK, Names
<1>2. QED BY <1>1, StockTyped, PTL

-------------------------------------------------------------------------------
(* While the rows of a symbol are written, a day before one that is still *)
(* to be written is to be written too, has been, or was gone past.        *)
FillOK ==
    phase = "fill" => \A d \in DOMAIN pending : \A e \in 1 .. d - 1 :
                         \/ e \in DOMAIN pending
                         \/ e \in Dates(view, sym) \/ e \in stepped[view][sym]

(* A day below a date that there is a file of has a file too, or was gone *)
(* past.                                                                  *)
Accounted ==
    \A v \in Views, s \in Universe : \A d \in Dates(v, s) :
        \A e \in 1 .. d - 1 : e \in Dates(v, s) \/ e \in stepped[v][s]

(* A day before the first one of a write is there, or is gone past. *)
LEMMA BeforeFirst ==
  ASSUME Typed, Accounted, NEW v \in Views, NEW s \in Universe, NEW first \in Int,
         first <= LastDay + 1, stepped' = StepOver(v, s, first), NEW e \in 1 .. first - 1
  PROVE  e \in Dates(v, s) \/ e \in stepped'[v][s]
<1>1. CASE \A d \in Dates(v, s) : d < e
  BY <1>1, SkippedDays DEF Skipped
<1>2. CASE \E d \in Dates(v, s) : ~(d < e)
  <2>1. PICK d \in Dates(v, s) : ~(d < e)
    BY <1>2
  <2>2. d \in Days
    BY TableParts DEF Typed, StoreType, Dates
  <2>3. e \in 1 .. d - 1 \/ e = d
    BY <2>1, <2>2 DEF Days
  <2>4. e \in Dates(v, s) \/ e \in stepped[v][s]
    BY <2>3 DEF Accounted
  <2>5. QED BY <2>4, SkippedDays
<1>3. QED BY <1>1, <1>2

(* Accounted once a row is written whose earlier days are all accounted for. *)
LEMMA HolesAfterWrite ==
  ASSUME Typed, Accounted, NEW v \in Views, NEW s \in Universe, NEW d \in Days,
         NEW row \in SUBSET Values(v), store' = Written(v, s, d, row),
         \A w \in Views, t \in Universe : stepped[w][t] \subseteq stepped'[w][t],
         \A e \in 1 .. d - 1 : e \in Dates(v, s) \/ e \in stepped'[v][s]
  PROVE  Accounted'
<1>1. \A w \in Views, t \in Universe :
         Dates(w, t)' = IF w = v /\ t = s THEN Dates(w, t) \cup {d} ELSE Dates(w, t)
  <2>1. \A w \in Views, t \in Universe :
           IF w = v /\ t = s THEN DOMAIN store'[w][t] = DOMAIN store[w][t] \cup {d}
                            ELSE store'[w][t] = store[w][t]
    BY WrittenEffect DEF Typed, Dates
  <2>2. QED BY <2>1 DEF Dates
<1>2. ASSUME NEW w \in Views, NEW t \in Universe, NEW x \in Dates(w, t)', NEW e \in 1 .. x - 1
      PROVE  e \in Dates(w, t)' \/ e \in stepped'[w][t]
  <2>1. CASE x \in Dates(w, t)
    <3>1. e \in Dates(w, t) \/ e \in stepped[w][t]
      BY <2>1 DEF Accounted
    <3>2. Dates(w, t) \subseteq Dates(w, t)'
      BY <1>1
    <3>3. QED BY <3>1, <3>2
  <2>2. CASE x \notin Dates(w, t)
    <3>1. w = v /\ t = s /\ x = d /\ Dates(w, t)' = Dates(w, t) \cup {d}
      BY <1>1, <1>2, <2>2
    <3>2. QED BY <3>1
  <2>3. QED BY <2>1, <2>2
<1>3. QED BY <1>2 DEF Accounted

LEMMA BeforeNext ==
  ASSUME Typed, FillOK, phase = "fill", NEW d \in NextDate(DOMAIN pending), NEW e \in 1 .. d - 1
  PROVE  e \in Dates(view, sym) \/ e \in stepped[view][sym]
<1>1. d \in DOMAIN pending /\ d \in Days /\ \A x \in DOMAIN pending : d <= x
  BY NextDateType DEF NextDate
<1>2. e \notin DOMAIN pending
  BY <1>1 DEF Days
<1>3. QED BY <1>1, <1>2 DEF FillOK

LEMMA HolesStep ==
  ASSUME Typed, Accounted, FillOK, [StockNext]_stockVars
  PROVE  Accounted' /\ FillOK'
<1>1. ASSUME NEW v \in Views, NEW s \in Universe, NEW d \in Days, NEW row \in SUBSET Values(v),
             Snapshot(v, s, d, row)
      PROVE  Accounted' /\ FillOK'
  <2>1. d \in Int /\ d <= LastDay + 1 /\ stepped' = StepOver(v, s, d)
    BY <1>1, StockConstants DEF Snapshot, Days
  <2>2. \A e \in 1 .. d - 1 : e \in Dates(v, s) \/ e \in stepped'[v][s]
    BY <2>1, BeforeFirst
  <2>3. \A w \in Views, t \in Universe : stepped[w][t] \subseteq stepped'[w][t]
    BY <2>1, SkippedDays
  <2>4. phase' = "idle"
    BY <1>1 DEF Snapshot, Command
  <2>5. store' = Written(v, s, d, row) \/ store' = Written(v, s, d, {})
    BY <1>1 DEF Snapshot, WriteFile, TearFile
  <2>6. {} \in SUBSET Values(v)
    OBVIOUS
  <2>7. Accounted'
    BY <2>2, <2>3, <2>5, <2>6, HolesAfterWrite
  <2>8. QED BY <2>4, <2>7 DEF FillOK
<1>2. ASSUME NEW answer \in [Values(view) -> Answers], Fetch(answer)
      PROVE  Accounted' /\ FillOK'
  <2>1. view \in Views /\ sym \in Universe /\ First \in Int /\ First <= LastDay + 1
    BY <1>2, FirstType DEF Fetch, Typed, RestType
  <2>2. /\ stepped' = StepOver(view, sym, First)
        /\ store' = store /\ view' = view /\ queue' = queue
        /\ DOMAIN pending' = UNION {BarDays(answer[c]) : c \in Values(view)}
    BY <1>2 DEF Fetch
  <2>3. \A e \in 1 .. First - 1 : e \in Dates(view, sym) \/ e \in stepped'[view][sym]
    BY <2>1, <2>2, BeforeFirst
  <2>4. \A w \in Views, t \in Universe : stepped[w][t] \subseteq stepped'[w][t]
    BY <2>1, <2>2, SkippedDays
  <2>5. Accounted'
    BY <2>2, <2>4 DEF Accounted, Dates
  <2>6. ASSUME NEW d \in DOMAIN pending', NEW e \in 1 .. d - 1
        PROVE  \/ e \in DOMAIN pending'
               \/ e \in Dates(view, sym) \/ e \in stepped'[view][sym]
    <3>1. PICK c \in Values(view) : d \in BarDays(answer[c])
      BY <2>2
    <3>2. CASE e < First
      BY <2>1, <2>3, <3>2
    <3>3. CASE ~(e < First)
      <4>1. d \in Days /\ e \in Int /\ 1 <= e /\ e < d /\ window[2] \in Int
        BY <2>6, <3>1 DEF BarDays, Days, Typed, RestType
      <4>2. e \in BarDays(answer[c])
        <5>1. e \in Days /\ First <= e
          BY StockConstants, <2>1, <3>3, <4>1 DEF Days
        <5>2. /\ d <= window[2] => e <= window[2]
              /\ d < window[2] => e < window[2]
          BY <4>1 DEF Days
        <5>3. QED BY <3>1, <5>1, <5>2, Zenon DEF BarDays
      <4>3. QED BY <2>2, <4>2
    <3>4. QED BY <3>2, <3>3
  <2>7. FillOK'
    BY <2>2, <2>6 DEF FillOK, Dates, sym
  <2>8. QED BY <2>5, <2>7
<1>3. CASE Write
  <2>1. PICK d \in NextDate(DOMAIN pending) :
           store' = Written(view, sym, d, pending[d]) /\ pending' = Without(pending, d)
    BY <1>3 DEF Write, WriteFile
  <2>2. view \in Views /\ sym \in Universe /\ phase = "fill"
    BY <1>3, NextDateType DEF Write
  <2>3. d \in DOMAIN pending /\ d \in Days /\ pending[d] \in SUBSET Values(view)
    BY <2>2, NextDateType
  <2>5. UNCHANGED <<view, queue, stepped, phase>>
    BY <1>3 DEF Write
  <2>6. \A e \in 1 .. d - 1 : e \in Dates(view, sym) \/ e \in stepped'[view][sym]
    BY <2>2, <2>5, BeforeNext
  <2>7. Accounted'
    BY <2>1, <2>2, <2>3, <2>5, <2>6, HolesAfterWrite
  <2>8. Dates(view, sym)' = Dates(view, sym) \cup {d}
    <3>1. StoreType /\ store' = Written(view, sym, d, pending[d])
      BY <2>1 DEF Typed
    <3>2. DOMAIN store'[view][sym] = DOMAIN store[view][sym] \cup {d}
      BY <2>2, <2>3, <3>1, WrittenEffect DEF Dates
    <3>3. QED BY <2>5, <3>2 DEF Dates, sym
  <2>9. DOMAIN pending' = DOMAIN pending \ {d}
    BY <2>1 DEF Without
  <2>10. FillOK'
    BY <2>2, <2>5, <2>8, <2>9 DEF FillOK, sym
  <2>11. QED BY <2>7, <2>10
<1>10. CASE RunFails /\ ~UNCHANGED store
  <2>1. PICK d \in NextDate(DOMAIN pending) : store' = Written(view, sym, d, {})
    BY <1>10 DEF RunFails, TearFile
  <2>2. phase = "fill" /\ stepped' = stepped /\ phase' # "fill"
    BY <1>10 DEF RunFails
  <2>3. view \in Views /\ sym \in Universe /\ d \in Days /\ {} \in SUBSET Values(view)
    BY <2>2, NextDateType
  <2>4. \A e \in 1 .. d - 1 : e \in Dates(view, sym) \/ e \in stepped'[view][sym]
    BY <2>2, BeforeNext
  <2>5. Accounted'
    BY <2>1, <2>2, <2>3, <2>4, HolesAfterWrite
  <2>6. QED BY <2>2, <2>5 DEF FillOK
<1>4. CASE DeleteDir
  <2>0. PICK x \in dirs : Deletes(x)
    BY <1>4, DeleteEffect
  <2>1. \A v \in Views, s \in Universe :
            /\ Dates(v, s)' = IF v = x[1] THEN Dates(v, s) \ {x[2]} ELSE Dates(v, s)
            /\ stepped'[v][s] = IF v = x[1] THEN stepped[v][s] \cup {x[2]} ELSE stepped[v][s]
    BY <2>0, ZenonT(40) DEF Deletes, Dates
  <2>2. ASSUME NEW v \in Views, NEW s \in Universe, NEW d \in Dates(v, s)', NEW e \in 1 .. d - 1
        PROVE  e \in Dates(v, s)' \/ e \in stepped'[v][s]
    <3>1. d \in Dates(v, s)
      BY <2>1, <2>2
    <3>2. e \in Dates(v, s) \/ e \in stepped[v][s]
      BY <3>1 DEF Accounted
    <3>3. QED BY <2>1, <3>2, ZenonT(40)
  <2>3. phase' = "delete"
    BY <1>4 DEF DeleteDir
  <2>4. QED BY <2>2, <2>3 DEF Accounted, FillOK
<1>5. CASE UNCHANGED <<store, stepped>> /\ phase' # "fill"
  BY <1>5 DEF Accounted, FillOK, Dates
<1>6. CASE UNCHANGED stockVars
  BY <1>6 DEF stockVars, commandState, Accounted, FillOK, Dates, sym
<1>7. ASSUME NEW s \in Universe, NEW d \in Days,
             \/ SnapshotBars(s, d)
             \/ \E row \in SUBSET Values("volatility") : SnapshotVolatility(s, d, row)
      PROVE  Accounted' /\ FillOK'
  <2>1. "daily_bars" \in Views /\ "volatility" \in Views
    BY DEF Views
  <2>2. QED BY <1>1, <1>7, <2>1 DEF SnapshotBars, SnapshotVolatility
<1>8. \/ Tomorrow \/ SymbolDone \/ RunDone \/ (RunFails /\ UNCHANGED store) \/ MergeKey
      \/ MergesDone \/ DeletesDone \/ CleanupDies \/ \E r \in BOOLEAN : StartCleanup(r)
      \/ \E v \in Views, d \in Days, fromNewest, chain \in BOOLEAN :
            StartBackfill(v, d, fromNewest, chain)
      => UNCHANGED <<store, stepped>> /\ phase' # "fill"
  BY DEF Tomorrow, SymbolDone, RunDone, RunFails, MergeKey, MergesDone, DeletesDone, CleanupDies,
         CleanupOver, StartCleanup, StartBackfill
<1>9. QED BY <1>2, <1>3, <1>4, <1>5, <1>6, <1>7, <1>8, <1>10 DEF StockNext

(* A partition that was torn has cost a death. *)
Counted == IsFiniteSet(damaged) /\ Cardinality(damaged) <= crashes

LEMMA CountedStep ==
  ASSUME Typed, Counted, [StockNext]_stockVars
  PROVE  Counted'
<1>0. crashes \in Nat /\ MaxCrashes \in Nat
  BY StockConstants DEF Typed, RestType
<1>1. ASSUME damaged' \subseteq damaged, crashes' = crashes \/ crashes' = crashes + 1
      PROVE  Counted'
  <2>1. IsFiniteSet(damaged') /\ Cardinality(damaged') <= Cardinality(damaged)
    BY <1>1, FS_Subset DEF Counted
  <2>2. Cardinality(damaged) \in Nat /\ Cardinality(damaged') \in Nat
    BY <2>1, FS_CardinalityType DEF Counted
  <2>3. QED BY <1>0, <1>1, <2>1, <2>2 DEF Counted
<1>2. ASSUME NEW v, NEW s, NEW d, TearFile(v, s, d)
      PROVE  Counted'
  <2>1. damaged' = damaged \cup {<<v, s, d>>} /\ crashes' = crashes + 1
    BY <1>2 DEF TearFile
  <2>2. /\ IsFiniteSet(damaged')
        /\ Cardinality(damaged') = Cardinality(damaged)
           \/ Cardinality(damaged') = Cardinality(damaged) + 1
    BY <2>1, FS_AddElement DEF Counted
  <2>3. Cardinality(damaged) \in Nat
    BY FS_CardinalityType DEF Counted
  <2>4. QED BY <1>0, <2>1, <2>2, <2>3 DEF Counted
<1>3. \/ \E v, s, d : TearFile(v, s, d)
      \/ damaged' \subseteq damaged /\ (crashes' = crashes \/ crashes' = crashes + 1)
  <2>1. CASE UNCHANGED stockVars
    BY <2>1 DEF stockVars, limits
  <2>2. CASE StockNext
    BY <2>2 DEF StockNext, Tomorrow, SnapshotBars, SnapshotVolatility, Snapshot, WriteFile,
                StartBackfill, Fetch, Write, SymbolDone, RunDone, RunFails, StartCleanup, MergeKey,
                MergesDone, DeleteDir, DeletesDone, CleanupDies, limits
  <2>3. QED BY <2>1, <2>2
<1>4. QED BY <1>1, <1>2, <1>3

(* A day below the newest one of a view has its row, or was gone past, or   *)
(* its very file is one a command died in the write of, at most one for a   *)
(* death: no crash, window, chained run or cleanup leaves another out.      *)
THEOREM NoHolesLeft == StockSpec => []NoHoles
<1>1. StockInit => Accounted /\ FillOK /\ Counted
  <2>1. StockInit => Counted
    BY FS_EmptySet DEF StockInit, Counted
  <2>2. QED BY <2>1 DEF StockInit, Accounted, FillOK, Dates, Nothing
<1>2. /\ Typed /\ Accounted /\ FillOK /\ [StockNext]_stockVars => Accounted' /\ FillOK'
      /\ Typed /\ Counted /\ [StockNext]_stockVars => Counted'
  BY HolesStep, CountedStep
<1>3. Accounted /\ Counted => NoHoles
  BY DEF Accounted, Counted, NoHoles, Readable
<1>4. QED BY <1>1, <1>2, <1>3, StockTyped, PTL DEF StockSpec

-------------------------------------------------------------------------------
(* A partition and the file of its month can be read, and the file has its values. *)
Safe(v, s, d) == /\ <<v, s, d>> \notin damaged /\ <<s, Month(d)>> \notin unreadable
                 /\ \A c \in store[v][s][d] : Held(<<s, Month(d)>>, d, c)

(* During a cleanup in which no merge has failed, a partition of an old    *)
(* month that is not safe still has its key in front of it; directories    *)
(* are deleted only when all are safe.                                     *)
CleanupOK ==
    /\ phase \in {"merge", "delete"} => \A x \in dirs : x[2] < Cutoff
    /\ phase = "merge" /\ ~failed =>
          \A v \in Views, s \in Universe : \A d \in OldDates(v, s) :
             <<s, Month(d)>> \in keys \/ Safe(v, s, d)
    /\ phase = "delete" =>
          \A v \in Views, s \in Universe : \A d \in OldDates(v, s) : Safe(v, s, d)

LEMMA CleanupStep == ASSUME Typed, CleanupOK, [StockNext]_stockVars PROVE CleanupOK'
<1>1. CASE phase' \notin {"merge", "delete"}
  BY <1>1 DEF CleanupOK
<1>2. ASSUME NEW r \in BOOLEAN, StartCleanup(r) PROVE CleanupOK'
  <2>1. UNCHANGED <<store, day>> /\ phase' = "merge" /\ keys' = OldKeys
    BY <1>2 DEF StartCleanup
  <2>2. \A x \in dirs' : x[2] < Cutoff
    BY <1>2 DEF StartCleanup, OldDates
  <2>3. ASSUME NEW v \in Views, NEW s \in Universe, NEW d \in OldDates(v, s)
        PROVE  <<s, Month(d)>> \in OldKeys
    <3>1. d \in Days
      BY TableParts DEF Typed, StoreType, OldDates, Dates
    <3>2. <<s, d>> \in {y \in Universe \X Days : \E w \in Views : y[2] \in OldDates(w, y[1])}
      BY <2>3, <3>1
    <3>3. QED BY <3>2 DEF OldKeys
  <2>4. \A v \in Views, s \in Universe : OldDates(v, s)' = OldDates(v, s)
    BY <2>1 DEF OldDates, Dates, Cutoff
  <2>5. QED BY <2>1, <2>2, <2>3, <2>4 DEF CleanupOK, Cutoff
<1>3. CASE MergeKey
  <2>1. UNCHANGED <<store, damaged, day, phase, dirs, unreadable>> /\ phase = "merge"
    BY <1>3 DEF MergeKey
  <2>2. key \in keys /\ key \in MonthKeys /\ keys' = keys \ {key}
    BY <1>3 DEF MergeKey, key, Typed, RestType
  <2>3. \A x \in dirs' : x[2] < Cutoff'
    BY <2>1 DEF CleanupOK, Cutoff
  <2>4. ASSUME ~failed', NEW v \in Views, NEW s \in Universe, NEW d \in OldDates(v, s)
        PROVE  <<s, Month(d)>> \in keys' \/ Safe(v, s, d)'
    <3> DEFINE k == <<s, Month(d)>>
    <3>1. ~MergeFails /\ ~failed /\ months' = [months EXCEPT ![key] = MergedMonth(key)]
      BY <1>3, <2>4 DEF MergeKey
    <3>2. CASE k = key
      <4>1. d \in Source(v, key)
        BY <3>2 DEF Source
      <4>2. \A c \in store[v][key[1]][d] : Has(MergedMonth(key), d, c)
        BY <2>2, <4>1, MergedMonthOK
      <4>3. months'[key] = MergedMonth(key)
        BY <2>2, <3>1 DEF Typed, MergedType
      <4>4. \A c \in store[v][s][d] : Held(k, d, c)'
        BY <3>2, <4>2, <4>3 DEF Has, Held, At
      <4>5. key \notin unreadable /\ <<v, s, d>> \notin damaged
        BY <3>1, <3>2, <4>1 DEF MergeFails
      <4>6. QED BY <2>1, <3>2, <4>4, <4>5 DEF Safe
    <3>3. CASE k # key
      <4>1. k \in keys \/ Safe(v, s, d)
        BY <2>1, <3>1 DEF CleanupOK
      <4>2. months'[k] = months[k] \/ k \notin MonthKeys
        BY <2>2, <3>1, <3>3 DEF Typed, MergedType
      <4>3. d \in Days /\ k \in MonthKeys
        <5>1. d \in Days
          BY TableParts DEF Typed, StoreType, OldDates, Dates
        <5>2. QED BY <5>1 DEF MonthKeys
      <4>4. Safe(v, s, d) => Safe(v, s, d)'
        BY <2>1, <4>2, <4>3 DEF Safe, Held, At
      <4>5. QED BY <2>2, <3>3, <4>1, <4>4
    <3>4. QED BY <3>2, <3>3
  <2>5. \A v \in Views, s \in Universe : OldDates(v, s)' = OldDates(v, s)
    BY <2>1 DEF OldDates, Dates, Cutoff
  <2>6. QED BY <2>1, <2>3, <2>4, <2>5 DEF CleanupOK
<1>4. CASE MergesDone
  <2>1. UNCHANGED <<store, damaged, day, months, unreadable>> /\ phase = "merge" /\ keys = {}
    BY <1>4 DEF MergesDone
  <2>2. SUFFICES ASSUME phase' \in {"merge", "delete"} PROVE CleanupOK'
    BY <1>1
  <2>3. Removes /\ phase' = "delete" /\ dirs' = dirs
    BY <1>4, <2>2 DEF MergesDone, CleanupOver
  <2>4. \A v \in Views, s \in Universe : \A d \in OldDates(v, s) : Safe(v, s, d)
    BY <2>1, <2>3 DEF CleanupOK, Removes
  <2>5. QED BY <2>1, <2>3, <2>4 DEF CleanupOK, OldDates, Dates, Cutoff, Safe, Held, At
<1>5. CASE DeleteDir
  <2>1. /\ UNCHANGED <<day, months, unreadable, phase>> /\ phase = "delete"
        /\ dirs' \subseteq dirs /\ damaged' \subseteq damaged
    BY <1>5 DEF DeleteDir
  <2>0. PICK x \in dirs : Deletes(x)
    BY <1>5, DeleteEffect
  <2>2. \A v \in Views, s \in Universe :
            /\ Dates(v, s)' = IF v = x[1] THEN Dates(v, s) \ {x[2]} ELSE Dates(v, s)
            /\ \A d \in Dates(v, s)' : store'[v][s][d] = store[v][s][d]
    BY <2>0, ZenonT(40) DEF Deletes, Dates
  <2>3. \A v \in Views, s \in Universe : OldDates(v, s)' \subseteq OldDates(v, s)
    BY <2>1, <2>2 DEF OldDates, Cutoff
  <2>4. \A v \in Views, s \in Universe : \A d \in OldDates(v, s)' : Safe(v, s, d)'
    <3>1. \A v \in Views, s \in Universe : \A d \in OldDates(v, s)' :
             Safe(v, s, d) /\ store'[v][s][d] = store[v][s][d]
      BY <2>1, <2>2, <2>3 DEF CleanupOK, OldDates
    <3>2. ASSUME NEW v \in Views, NEW s \in Universe, NEW d \in OldDates(v, s)'
          PROVE  Safe(v, s, d)'
      <4>1. Safe(v, s, d) /\ store'[v][s][d] = store[v][s][d]
        BY <3>1
      <4>2. <<v, s, d>> \notin damaged' /\ <<s, Month(d)>> \notin unreadable'
        BY <2>1, <4>1 DEF Safe
      <4>3. \A c \in store'[v][s][d] : Held(<<s, Month(d)>>, d, c)'
        BY <2>1, <4>1 DEF Safe, Held, At
      <4>4. QED BY <4>2, <4>3 DEF Safe
    <3>3. QED BY <3>2
  <2>5. \A x1 \in dirs' : x1[2] < Cutoff'
    BY <2>1 DEF CleanupOK, Cutoff
  <2>6. QED BY <2>1, <2>4, <2>5 DEF CleanupOK
<1>6. CASE UNCHANGED stockVars
  BY <1>6 DEF stockVars, commandState, CleanupOK, OldDates, Dates, Cutoff, Safe, Held, At
<1>7. ASSUME NEW s \in Universe, NEW d \in Days,
             \/ SnapshotBars(s, d)
             \/ \E row \in SUBSET Values("volatility") : SnapshotVolatility(s, d, row)
      PROVE  phase' = "idle"
  BY <1>7 DEF SnapshotBars, SnapshotVolatility, Snapshot, Command
<1>8. \/ Tomorrow \/ Write \/ SymbolDone \/ RunDone \/ RunFails \/ DeletesDone \/ CleanupDies
      \/ \E answer \in [Values(view) -> Answers] : Fetch(answer)
      \/ \E v \in Views, d \in Days, fromNewest, chain \in BOOLEAN :
            StartBackfill(v, d, fromNewest, chain)
      => phase' \notin {"merge", "delete"}
  BY DEF Tomorrow, Write, SymbolDone, RunDone, RunFails, DeletesDone, CleanupDies,
         CleanupOver, Fetch, StartBackfill
<1>9. QED BY <1>1, <1>2, <1>3, <1>4, <1>5, <1>6, <1>7, <1>8 DEF StockNext

LEMMA DeletedSafe ==
  ASSUME Typed, CleanupOK, [StockNext]_stockVars, NEW v \in Views, NEW s \in Universe,
         NEW d \in Dates(v, s) \ DOMAIN store'[v][s]
  PROVE  Safe(v, s, d)
<1>1. CASE DeleteDir
  <2>1. PICK x \in dirs : Deletes(x)
    BY <1>1, DeleteEffect
  <2>2. d = x[2]
    <3>1. DOMAIN store'[v][s] = IF v = x[1] THEN DOMAIN store[v][s] \ {x[2]} ELSE DOMAIN store[v][s]
      BY <2>1 DEF Deletes
    <3>2. d \in DOMAIN store[v][s] /\ d \notin DOMAIN store'[v][s]
      BY DEF Dates
    <3> HIDE DEF Dates
    <3>3. QED BY <3>1, <3>2
  <2>3. d \in OldDates(v, s)
    BY <1>1, <2>2 DEF CleanupOK, DeleteDir, OldDates
  <2>4. QED BY <1>1, <2>3 DEF CleanupOK, DeleteDir
<1>2. CASE UNCHANGED store
  BY <1>2 DEF Dates
<1>3. ASSUME NEW w \in Views, NEW t \in Universe, NEW e \in Days, NEW row \in SUBSET Values(w),
             store' = Written(w, t, e, row)
      PROVE  FALSE
  <2>1. Dates(v, s) \subseteq DOMAIN store'[v][s]
    BY <1>3, WrittenEffect DEF Typed, Dates
  <2>2. QED BY <2>1
<1>4. QED BY <1>1, <1>2, <1>3, StoreChanges

(* A cleanup deletes a partition only when it and the file of its month    *)
(* can be read and the file has its values, whatever failed or was cut     *)
(* short before.                                                           *)
THEOREM DeletedPartitionsAreMerged == StockSpec => DeletedIsMerged
<1>1. StockInit => CleanupOK
  BY DEF StockInit, CleanupOK
<1>2. Typed /\ CleanupOK /\ [StockNext]_stockVars => CleanupOK'
  BY CleanupStep
<1>3. Typed /\ CleanupOK /\ [StockNext]_stockVars =>
         [\A v \in Views, s \in Universe : \A d \in Dates(v, s) \ DOMAIN store'[v][s] :
            /\ <<v, s, d>> \notin damaged /\ <<s, Month(d)>> \notin unreadable
            /\ \A c \in store[v][s][d] : Held(<<s, Month(d)>>, d, c)]_stockVars
  BY DeletedSafe DEF Safe
<1>4. QED BY <1>1, <1>2, <1>3, StockTyped, PTL DEF StockSpec, DeletedIsMerged
-------------------------------------------------------------------------------
(***************************************************************************)
(* OptionHistory.                                                          *)
(***************************************************************************)
(* The constants of OptionHistory. *)
LEMMA HistoryConstants ==
  /\ LastDay \in Nat /\ LastDay >= 1 /\ MaxCrashes \in Nat /\ MaxRuns \in Nat
  /\ FullDays \subseteq Nat
  /\ \A stage \in Stages : Reach[stage] \in Nat /\ Reach[stage] >= 1
  /\ \A c \in Contracts : c.listed \in Nat /\ c.expiry \in Nat
  <1>1. \A c \in Contracts : c.listed \in Days
    BY HistoryAssumption
  <1>2. QED BY <1>1, HistoryAssumption, DaysAssumption DEF Days

LEMMA WithEntry ==
  \A f, d, x :
      /\ DOMAIN With(f, d, x) = DOMAIN f \cup {d}
      /\ With(f, d, x)[d] = x
      /\ \A e \in DOMAIN With(f, d, x) :
            \/ e \in DOMAIN f /\ e # d /\ With(f, d, x)[e] = f[e]
            \/ e = d /\ With(f, d, x)[e] = x
  BY DEF With

-------------------------------------------------------------------------------
RunTypes ==
    /\ day \in Days /\ phase \in {"idle", "history", "contracts", "weekend", "bars"}
    /\ queue \subseteq Universe /\ asked \subseteq 1 .. day /\ left \subseteq Contracts
    /\ tornLists \subseteq Universe \X Days
    /\ runs \in 0 .. MaxRuns /\ crashes \in 0 .. MaxCrashes
    /\ phase = "contracts" => queue # {} /\ day \in Folders(sym)
ModeTypes ==
    mode \in [stage : Stages, incremental : BOOLEAN, resume : BOOLEAN, days : FullDays \cup {0}]
ListTypes ==
    /\ DOMAIN lists = Universe
    /\ \A s \in Universe : \A d \in DOMAIN lists[s] : d \in 1 .. day /\ lists[s][d] \subseteq Contracts
FolderTypes ==
    /\ DOMAIN folders = Universe /\ tooShort \in [Universe -> SUBSET Days]
    /\ \A s \in Universe : \A d \in Folders(s) :
          d \in 1 .. day /\ \A c \in DOMAIN folders[s][d] : folders[s][d][c] \subseteq 1 .. d

(* The bars of a contract are from days on which it was listed. *)
Span(c) == {d \in 1 .. day : c.listed <= d}
FileTypes ==
    /\ DOMAIN files \subseteq Contracts \X Stages /\ broken \subseteq DOMAIN files
    /\ \A k \in DOMAIN files : files[k] # {} /\ files[k] \subseteq Span(k[1])

HistoryTyped == RunTypes /\ ModeTypes /\ ListTypes /\ FolderTypes /\ FileTypes

LEMMA SymbolInTurn == ASSUME RunTypes, queue # {} PROVE sym \in Universe
  BY DEF RunTypes, sym

(* A request goes no further than today. *)
LEMMA Requested ==
  ASSUME day \in Days, NEW n
  PROVE  LastDays(n) \subseteq 1 .. day
  BY HistoryConstants DEF LastDays, Days

LEMMA OpenedFolder ==
  ASSUME HistoryTyped, NEW found, OpenFolder(found)
  PROVE  /\ sym \in Universe /\ queue' = queue /\ day' = day
         /\ DOMAIN folders' = Universe /\ day \in DOMAIN folders'[sym]
         /\ DOMAIN folders'[sym] = Folders(sym) \cup {day}
         /\ \A s \in Universe : \A d \in DOMAIN folders'[s] :
               \/ d \in Folders(s) /\ folders'[s][d] = folders[s][d]
               \/ s = sym /\ d = day /\ d \notin Folders(s) /\ DOMAIN folders'[s][d] = {}
         /\ \A s \in Universe : s # sym => folders'[s] = folders[s]
<1>1. sym \in Universe
  BY SymbolInTurn DEF OpenFolder, HistoryTyped
<1>2. folders' = [folders EXCEPT ![sym] = IF day \in DOMAIN @ THEN @ ELSE With(@, day, Nothing)]
  BY DEF OpenFolder
<1>3. DOMAIN folders = Universe
  BY DEF HistoryTyped, FolderTypes
<1>4. /\ DOMAIN folders' = Universe
      /\ folders'[sym] = IF day \in DOMAIN folders[sym] THEN folders[sym]
                                                       ELSE With(folders[sym], day, Nothing)
      /\ \A s \in Universe : s # sym => folders'[s] = folders[s]
  BY <1>1, <1>2, <1>3
<1>5. DOMAIN Nothing = {}
  BY DEF Nothing
<1>6. DOMAIN folders'[sym] = Folders(sym) \cup {day}
  <2>1. DOMAIN With(folders[sym], day, Nothing) = DOMAIN folders[sym] \cup {day}
    BY WithEntry
  <2>2. QED BY <1>4, <2>1 DEF Folders
<1>7. \A d \in DOMAIN folders'[sym] :
         \/ d \in Folders(sym) /\ folders'[sym][d] = folders[sym][d]
         \/ d = day /\ d \notin Folders(sym) /\ DOMAIN folders'[sym][d] = {}
  <2>1. CASE day \in DOMAIN folders[sym]
    BY <1>4, <2>1 DEF Folders
  <2>2. CASE day \notin DOMAIN folders[sym]
    <3>1. folders'[sym] = With(folders[sym], day, Nothing)
      BY <1>4, <2>2
    <3>2. ASSUME NEW d \in DOMAIN folders'[sym]
          PROVE  \/ d \in DOMAIN folders[sym] /\ folders'[sym][d] = folders[sym][d]
                 \/ d = day /\ folders'[sym][d] = Nothing
      BY <3>1 DEF With
    <3>3. QED BY <1>5, <2>2, <3>2 DEF Folders
  <2>3. QED BY <2>1, <2>2
<1>8. \A s \in Universe : \A d \in DOMAIN folders'[s] :
         \/ d \in Folders(s) /\ folders'[s][d] = folders[s][d]
         \/ s = sym /\ d = day /\ d \notin Folders(s) /\ DOMAIN folders'[s][d] = {}
  BY <1>4, <1>7 DEF Folders
<1>9. QED BY <1>1, <1>4, <1>6, <1>8 DEF OpenFolder

(* The folders a contract's fetch leaves. *)
LEMMA FetchedContract ==
  ASSUME HistoryTyped, NEW answered \in BOOLEAN, FetchContract(answered)
  PROVE  /\ DOMAIN folders' = Universe
         /\ \A s \in Universe : DOMAIN folders'[s] = Folders(s)
         /\ \A s \in Universe : \A d \in Folders(s) : \A c \in DOMAIN folders'[s][d] :
               \/ c \in DOMAIN folders[s][d] /\ folders'[s][d][c] = folders[s][d][c]
               \/ s = sym /\ d = day /\ folders'[s][d][c] = Bars(c, asked)
<1>1. CASE folders' = folders
  BY <1>1 DEF HistoryTyped, FolderTypes, Folders
<1>2. CASE folders' = [folders EXCEPT ![sym][day] = With(@, contract, Bars(contract, asked))]
  <2> DEFINE row == With(folders[sym][day], contract, Bars(contract, asked))
  <2>1. sym \in Universe /\ day \in Folders(sym) /\ DOMAIN folders = Universe
    BY SymbolInTurn DEF FetchContract, HistoryTyped, RunTypes, FolderTypes
  <2>2. \A c \in DOMAIN row : \/ c \in DOMAIN folders[sym][day] /\ row[c] = folders[sym][day][c]
                              \/ row[c] = Bars(c, asked)
    BY DEF With
  <2>3. folders' = [folders EXCEPT ![sym] = [folders[sym] EXCEPT ![day] = row]]
    BY <1>2
  <2> HIDE DEF row
  <2>4. /\ DOMAIN folders' = Universe
        /\ folders'[sym] = [folders[sym] EXCEPT ![day] = row]
        /\ \A s \in Universe : s # sym => folders'[s] = folders[s]
    BY <2>1, <2>3
  <2>5. DOMAIN folders'[sym] = Folders(sym)
    BY <2>4 DEF Folders
  <2>6. \A d \in Folders(sym) : folders'[sym][d] = IF d = day THEN row ELSE folders[sym][d]
    BY <2>4 DEF Folders
  <2>7. \A d \in Folders(sym) : \A c \in DOMAIN folders'[sym][d] :
           \/ c \in DOMAIN folders[sym][d] /\ folders'[sym][d][c] = folders[sym][d][c]
           \/ d = day /\ folders'[sym][d][c] = Bars(c, asked)
    BY <2>2, <2>6
  <2>8. QED BY <2>4, <2>5, <2>7 DEF Folders
<1>3. QED BY <1>1, <1>2 DEF FetchContract

LEMMA RunTypesStep == ASSUME HistoryTyped, HistoryNext PROVE RunTypes'
<1> USE DEF HistoryTyped, RunTypes
<1>1. CASE DayEnds
  <2>1. day' \in Days /\ 1 .. day \subseteq 1 .. day'
    BY <1>1, HistoryConstants DEF DayEnds, Days
  <2>2. UNCHANGED <<tornLists, runState, runs, crashes>> /\ phase = "idle"
    BY <1>1 DEF DayEnds
  <2>3. QED BY <2>1, <2>2 DEF runState
<1>2. ASSUME NEW s \in Universe, Discovered(s) PROVE RunTypes'
  <2>1. UNCHANGED <<day, tornLists, runState, runs, crashes>> /\ phase = "idle"
    BY <1>2 DEF Discovered
  <2>2. QED BY <2>1 DEF runState
<1>3. ASSUME NEW next \in {"history", "weekend"}, NEW m, Start(next, m) PROVE RunTypes'
  <2>1. runs' \in 0 .. MaxRuns
    BY <1>3, HistoryConstants DEF Start
  <2>2. QED BY <1>3, <2>1 DEF Start
<1>4. ASSUME NEW loop \in {"history", "weekend"}, Continue(loop), UNCHANGED <<day, runs, crashes>>,
             tornLists' \subseteq tornLists
      PROVE  RunTypes'
  BY <1>4 DEF Continue
<1>5. ASSUME Stop, UNCHANGED <<day, runs>>, crashes' \in 0 .. MaxCrashes,
             tornLists' \subseteq Universe \X Days
      PROVE  RunTypes'
  BY <1>5 DEF Stop
<1>6. CASE SymbolSkipped
  BY <1>4, <1>6 DEF SymbolSkipped
<1>7. CASE NothingFound
  BY <1>4, <1>7 DEF NothingFound, Saved
<1>8. ASSUME NEW found \in SUBSET Contracts, OpenFolder(found) PROVE RunTypes'
  <2>1. /\ queue # {} /\ tornLists' \subseteq tornLists /\ left' = found /\ phase' = "contracts"
        /\ UNCHANGED <<day, queue, runs, crashes>> /\ asked' = LastDays(Duration(sym))
    BY <1>8 DEF OpenFolder, Saved
  <2>2. day \in DOMAIN folders'[sym]
    BY <1>8, OpenedFolder
  <2>3. day' \in Folders(sym)'
    BY <2>1, <2>2 DEF Folders, sym
  <2>4. asked' \subseteq 1 .. day
    BY <2>1, Requested
  <2>5. QED BY <2>1, <2>3, <2>4
<1>9. ASSUME NEW answered \in BOOLEAN, FetchContract(answered) PROVE RunTypes'
  <2>1. sym \in Universe /\ \A s \in Universe : DOMAIN folders'[s] = Folders(s)
    BY <1>9, FetchedContract, SymbolInTurn DEF FetchContract
  <2>2. /\ UNCHANGED <<day, phase, queue, asked, tornLists, runs, crashes>>
        /\ left' \subseteq left
    BY <1>9 DEF FetchContract
  <2>3. day' \in Folders(sym)'
    BY <1>9, <2>1, <2>2 DEF Folders, sym, FetchContract
  <2>4. QED BY <2>2, <2>3
<1>10. CASE ContractsDone
  BY <1>4, <1>10 DEF ContractsDone
<1>11. CASE NoCache
  BY <1>4, <1>11 DEF NoCache
<1>12. CASE StageDone
  BY <1>4, <1>12 DEF StageDone
<1>13. CASE RunEnds
  BY <1>5, <1>13 DEF RunEnds
<1>14. CASE CacheRaises
  BY <1>5, <1>14 DEF CacheRaises
<1>15. CASE Killed
  <2>1. crashes' \in 0 .. MaxCrashes /\ UNCHANGED <<day, runs>> /\ Stop
    BY <1>15, HistoryConstants DEF Killed
  <2>2. tornLists' = tornLists \/ (queue # {} /\ tornLists' = tornLists \cup {<<sym, day>>})
    BY <1>15 DEF Killed
  <2>3. tornLists' \subseteq Universe \X Days
    BY <2>2, SymbolInTurn
  <2>4. QED BY <1>5, <2>1, <2>3
<1>16. ASSUME NEW picked \in SUBSET Contracts, PickContracts(picked) PROVE RunTypes'
  BY <1>16 DEF PickContracts
<1>17. ASSUME NEW answered \in BOOLEAN, NEW dies \in BOOLEAN, FetchBars(answered, dies)
       PROVE  RunTypes'
  <2>1. UNCHANGED <<day, tornLists, runs>> /\ phase = "bars"
    BY <1>17 DEF FetchBars
  <2>2. CASE dies
    <3>1. Stop /\ crashes' \in 0 .. MaxCrashes
      BY <1>17, <2>2, HistoryConstants DEF FetchBars
    <3>2. QED BY <1>5, <2>1, <3>1
  <2>3. CASE ~dies
    <3>1. UNCHANGED <<crashes, phase, queue, asked>> /\ left' \subseteq left
      BY <1>17, <2>3 DEF FetchBars
    <3>2. QED BY <2>1, <3>1
  <2>4. QED BY <2>2, <2>3
<1>18. CASE SkipContract
  <2>1. UNCHANGED <<day, tornLists, runs, crashes, phase, queue, asked>> /\ left' \subseteq left
        /\ phase = "bars"
    BY <1>18 DEF SkipContract
  <2>2. QED BY <2>1
<1>19. QED
  BY <1>1, <1>2, <1>3, <1>6, <1>7, <1>8, <1>9, <1>10, <1>11, <1>12, <1>13, <1>14, <1>15, <1>16,
     <1>17, <1>18
  DEF HistoryNext, StartHistory, StartWeekend

LEMMA ModeTypesStep == ASSUME HistoryTyped, HistoryNext PROVE ModeTypes'
<1>1. ASSUME NEW incremental \in BOOLEAN, NEW n \in FullDays, StartHistory(incremental, n)
      PROVE  ModeTypes'
  <2>1. mode' = [NoMode EXCEPT !.incremental = incremental, !.days = n]
    BY <1>1 DEF StartHistory, Start
  <2>2. "hours" \in Stages
    BY DEF Stages
  <2>3. QED BY <2>1, <2>2 DEF NoMode, ModeTypes
<1>2. ASSUME NEW stage \in Stages, NEW incremental \in BOOLEAN, NEW resume \in BOOLEAN,
             StartWeekend(stage, incremental, resume)
      PROVE  ModeTypes'
  BY <1>2 DEF StartWeekend, Start, ModeTypes
<1>3. CASE mode' = NoMode
  <2>1. "hours" \in Stages
    BY DEF Stages
  <2>2. QED BY <1>3, <2>1 DEF NoMode, ModeTypes
<1>4. CASE mode' = mode
  BY <1>4 DEF HistoryTyped, ModeTypes
<1>5. \/ mode' \in {NoMode, mode}
      \/ \E incremental \in BOOLEAN, n \in FullDays : StartHistory(incremental, n)
      \/ \E stage \in Stages, incremental, resume \in BOOLEAN : StartWeekend(stage, incremental, resume)
  <2>1. Stop => mode' = NoMode
    BY DEF Stop
  <2>2. \A loop : Continue(loop) => mode' = mode
    BY DEF Continue
  <2>3. \A answered, dies : FetchBars(answered, dies) => mode' = mode \/ Stop
    BY DEF FetchBars
  <2>4. QED
    BY <2>1, <2>2, <2>3
    DEF HistoryNext, DayEnds, Discovered, SymbolSkipped, NothingFound, OpenFolder, FetchContract,
        ContractsDone, NoCache, CacheRaises, PickContracts, SkipContract, StageDone, RunEnds,
        Killed, runState
<1>6. QED BY <1>1, <1>2, <1>3, <1>4, <1>5

LEMMA ListTypesStep == ASSUME HistoryTyped, HistoryNext PROVE ListTypes'
<1>1. ASSUME NEW s \in Universe, NEW found \in SUBSET Contracts,
             lists' = [lists EXCEPT ![s] = With(@, day, found)], day' = day
      PROVE  ListTypes'
  <2>1. DOMAIN lists = Universe /\ day \in 1 .. day
    BY DEF HistoryTyped, ListTypes, RunTypes, Days
  <2>2. /\ DOMAIN lists' = Universe /\ lists'[s] = With(lists[s], day, found)
        /\ \A t \in Universe : t # s => lists'[t] = lists[t]
    BY <1>1, <2>1
  <2>3. \A d \in DOMAIN lists'[s] : \/ d \in DOMAIN lists[s] /\ lists'[s][d] = lists[s][d]
                                    \/ d = day /\ lists'[s][d] = found
    BY <2>2 DEF With
  <2>4. QED BY <1>1, <2>1, <2>2, <2>3 DEF HistoryTyped, ListTypes
<1>2. CASE lists' = lists /\ day' = day
  BY <1>2 DEF HistoryTyped, ListTypes
<1>3. CASE DayEnds
  <2>1. 1 .. day \subseteq 1 .. day' /\ lists' = lists
    BY <1>3 DEF DayEnds, HistoryTyped, RunTypes, Days
  <2>2. QED BY <2>1 DEF HistoryTyped, ListTypes
<1>4. \A s : Listing(s) \in SUBSET Contracts
  BY DEF Listing
<1>5. CASE \E s \in Universe : Discovered(s)
  BY <1>1, <1>4, <1>5 DEF Discovered
<1>6. CASE NothingFound
  <2>1. sym \in Universe /\ day' = day /\ lists' = [lists EXCEPT ![sym] = With(@, day, {})]
    BY <1>6, SymbolInTurn DEF NothingFound, Saved, HistoryTyped
  <2>2. {} \in SUBSET Contracts
    OBVIOUS
  <2>3. QED BY <1>1, <2>1, <2>2, Zenon
<1>7. CASE \E found \in SUBSET Contracts : OpenFolder(found)
  <2>1. PICK found \in SUBSET Contracts : OpenFolder(found)
    BY <1>7
  <2>2. sym \in Universe /\ day' = day
    BY <2>1, SymbolInTurn DEF OpenFolder, HistoryTyped
  <2>3. lists' = lists \/ lists' = [lists EXCEPT ![sym] = With(@, day, found)]
    BY <2>1 DEF OpenFolder, Saved
  <2>4. QED BY <1>1, <1>2, <2>2, <2>3
<1>8. CASE Killed
  <2>1. \/ lists' = lists
        \/ queue # {} /\ lists' = [lists EXCEPT ![sym] = With(@, day, {})]
    BY <1>8 DEF Killed
  <2>2. day' = day
    BY <1>8 DEF Killed
  <2>3. QED BY <1>1, <1>2, <2>1, <2>2, SymbolInTurn DEF HistoryTyped
<1>9. \/ lists' = lists /\ day' = day
      \/ DayEnds \/ NothingFound \/ Killed \/ \E s \in Universe : Discovered(s)
      \/ \E found \in SUBSET Contracts : OpenFolder(found)
  BY DEF HistoryNext, SymbolSkipped, FetchContract, ContractsDone, NoCache, CacheRaises, PickContracts,
         FetchBars, SkipContract, StageDone, RunEnds, StartHistory, StartWeekend, Start
<1>10. QED BY <1>2, <1>3, <1>5, <1>6, <1>7, <1>8, <1>9

LEMMA FolderTypesStep == ASSUME HistoryTyped, HistoryNext PROVE FolderTypes'
<1>1. CASE UNCHANGED <<folders, tooShort, day>>
  BY <1>1 DEF HistoryTyped, FolderTypes, Folders
<1>2. CASE DayEnds
  <2>1. 1 .. day \subseteq 1 .. day' /\ UNCHANGED <<folders, tooShort>>
    BY <1>2 DEF DayEnds, HistoryTyped, RunTypes, Days
  <2>2. QED BY <2>1 DEF HistoryTyped, FolderTypes, Folders
<1>3. ASSUME NEW found \in SUBSET Contracts, OpenFolder(found) PROVE FolderTypes'
  <2>1. /\ DOMAIN folders' = Universe /\ day' = day /\ sym \in Universe
        /\ \A s \in Universe : \A d \in DOMAIN folders'[s] :
               \/ d \in Folders(s) /\ folders'[s][d] = folders[s][d]
               \/ d = day /\ DOMAIN folders'[s][d] = {}
    BY <1>3, OpenedFolder
  <2>2. day \in 1 .. day
    BY DEF HistoryTyped, RunTypes, Days
  <2>3. LeftOut(sym, LastDays(mode.days)) \subseteq Days
    <3>1. CASE {f \in Folders(sym) : f < day} = {}
      BY <3>1 DEF LeftOut
    <3>2. CASE {f \in Folders(sym) : f < day} # {}
      <4> DEFINE before == {f \in Folders(sym) : f < day}
      <4>1. before \in SUBSET (1 .. day) /\ day \in Nat /\ day <= LastDay
        BY <2>1, <2>2 DEF HistoryTyped, FolderTypes, RunTypes, Days
      <4>2. Newest(before) \in 1 .. day
        BY <3>2, <4>1, NewestOfDays
      <4>3. LeftOut(sym, LastDays(mode.days)) \subseteq Newest(before) + 1 .. day
        BY DEF LeftOut
      <4>4. Newest(before) + 1 .. day \subseteq Days
        <5>1. \A n \in Int, d \in Nat : 1 <= n /\ d <= LastDay => n + 1 .. d \subseteq 1 .. LastDay
          BY HistoryConstants
        <5>2. Newest(before) \in Int /\ 1 <= Newest(before)
          BY <4>2
        <5> HIDE DEF before
        <5>3. QED BY <4>1, <5>1, <5>2 DEF Days
      <4>5. QED BY <4>3, <4>4
    <3>3. QED BY <3>1, <3>2
  <2>4. tooShort' \in [Universe -> SUBSET Days]
    <3>1. \/ tooShort' = tooShort
          \/ tooShort' = [tooShort EXCEPT ![sym] = @ \cup LeftOut(sym, LastDays(mode.days))]
      BY <1>3 DEF OpenFolder
    <3>2. QED BY <2>1, <2>3, <3>1 DEF HistoryTyped, FolderTypes
  <2>5. QED BY <2>1, <2>2, <2>4 DEF HistoryTyped, FolderTypes, Folders
<1>4. ASSUME NEW answered \in BOOLEAN, FetchContract(answered) PROVE FolderTypes'
  <2>1. /\ DOMAIN folders' = Universe
        /\ \A s \in Universe : DOMAIN folders'[s] = Folders(s)
        /\ \A s \in Universe : \A d \in Folders(s) : \A c \in DOMAIN folders'[s][d] :
               \/ c \in DOMAIN folders[s][d] /\ folders'[s][d][c] = folders[s][d][c]
               \/ s = sym /\ d = day /\ folders'[s][d][c] = Bars(c, asked)
    BY <1>4, FetchedContract
  <2>2. \A c : Bars(c, asked) \subseteq 1 .. day
    BY DEF Bars, HistoryTyped, RunTypes
  <2>3. UNCHANGED <<day, tooShort>>
    BY <1>4 DEF FetchContract
  <2>4. QED BY <2>1, <2>2, <2>3 DEF HistoryTyped, FolderTypes, Folders
<1>5. \/ UNCHANGED <<folders, tooShort, day>> \/ DayEnds
      \/ \E found \in SUBSET Contracts : OpenFolder(found)
      \/ \E answered \in BOOLEAN : FetchContract(answered)
  BY DEF HistoryNext, Discovered, SymbolSkipped, NothingFound, ContractsDone, NoCache, CacheRaises,
         PickContracts, FetchBars, SkipContract, StageDone, RunEnds, Killed, StartHistory,
         StartWeekend, Start
<1>6. QED BY <1>1, <1>2, <1>3, <1>4, <1>5

-------------------------------------------------------------------------------
(* A day of a file is its first, follows another one, or begins a stretch *)
(* as long as a request of n days.                                        *)
Solid(F, n) == \A x \in F : \/ \A y \in F : x <= y
                            \/ x - 1 \in F
                            \/ x .. x + n - 1 \subseteq F
FilesOK == \A k \in DOMAIN files \ broken : Solid(files[k], Reach[k[2]])

(* The answer to a request for the last n days of a contract. *)
Recent(c, n) == {d \in 1 .. day : day - n < d /\ c.listed <= d}

LEMMA Answered ==
  ASSUME HistoryTyped, NEW c \in Contracts, NEW n \in Nat, c.expiry >= day
  PROVE  Bars(c, LastDays(n)) = Recent(c, n)
<1>1. day \in Nat /\ day <= LastDay /\ LastDay \in Nat /\ c.expiry \in Nat
  BY HistoryConstants DEF HistoryTyped, RunTypes, Days
<1>2. ASSUME NEW d PROVE d \in Bars(c, LastDays(n)) <=> d \in Recent(c, n)
  <2>1. d \in Bars(c, LastDays(n)) <=>
           d \in 1 .. LastDay /\ day - n < d /\ d <= day /\ c.listed <= d /\ d <= c.expiry
    BY DEF Bars, LastDays, Days
  <2>2. d \in 1 .. LastDay /\ d <= day <=> d \in 1 .. day
    BY <1>1
  <2>3. d \in 1 .. day => d <= c.expiry
    BY <1>1
  <2>4. QED BY <2>1, <2>2, <2>3 DEF Recent
<1>3. QED BY <1>2

LEMMA RecentSolid ==
  ASSUME HistoryTyped, NEW c \in Contracts, NEW n \in Nat, n >= 1
  PROVE  Solid(Recent(c, n), n)
<1>1. day \in Nat /\ c.listed \in Nat
  BY HistoryConstants DEF HistoryTyped, RunTypes, Days
<1>2. ASSUME NEW x \in Recent(c, n), x - 1 \notin Recent(c, n), NEW y \in Recent(c, n)
      PROVE  x <= y
  <2>1. /\ x \in Nat /\ 1 <= x /\ x <= day /\ day - n < x /\ c.listed <= x
        /\ y \in Nat /\ 1 <= y /\ y <= day /\ day - n < y /\ c.listed <= y
    BY <1>1 DEF Recent
  <2>2. x - 1 < 1 \/ x - 1 <= day - n \/ x - 1 < c.listed
    BY <1>1, <1>2, <2>1 DEF Recent
  <2>3. QED BY <1>1, <2>1, <2>2
<1>3. QED BY <1>2 DEF Solid

LEMMA AppendedSolid ==
  ASSUME HistoryTyped, NEW c \in Contracts, NEW n \in Nat, n >= 1,
         NEW F \in SUBSET Span(c), F # {}, Solid(F, n)
  PROVE  Solid(F \cup Newer(F, Recent(c, n)), n)
<1> DEFINE new == Newer(F, Recent(c, n))
           last == Newest(F)
<1>1. day \in Nat /\ c.listed \in Nat
  BY HistoryConstants DEF HistoryTyped, RunTypes, Days
<1>2. F \in SUBSET (1 .. day)
  BY DEF Span
<1>3. last \in F /\ \A y \in F : y <= last
  BY <1>1, <1>2, NewestOfDays
<1>4. last \in Nat /\ 1 <= last /\ c.listed <= last
  <2>1. last \in Span(c)
    BY <1>3
  <2> HIDE DEF last
  <2>2. QED BY <1>1, <2>1 DEF Span
<1>5. new = {d \in Recent(c, n) : d > last}
  BY DEF Newer
<1> HIDE DEF last, new
<1>6. ASSUME NEW x \in F
      PROVE  \/ \A y \in F \cup new : x <= y
             \/ x - 1 \in F \cup new
             \/ x .. x + n - 1 \subseteq F \cup new
  <2>1. CASE \A y \in F : x <= y
    <3>1. \A y \in new : x <= y
      <4>1. x \in Nat /\ x <= last
        BY <1>2, <1>3
      <4>2. \A y \in new : y \in Nat /\ y > last
        BY <1>1, <1>5 DEF Recent
      <4>3. QED BY <1>4, <4>1, <4>2
    <3>2. QED BY <2>1, <3>1
  <2>2. CASE x - 1 \in F \/ x .. x + n - 1 \subseteq F
    BY <2>2
  <2>3. QED BY <2>1, <2>2 DEF Solid
<1>7. ASSUME NEW x \in new
      PROVE  \/ x - 1 \in F \cup new
             \/ x .. x + n - 1 \subseteq F \cup new
  <2>1. x \in Nat /\ 1 <= x /\ x <= day /\ day - n < x /\ c.listed <= x /\ x > last
    BY <1>1, <1>5 DEF Recent
  <2>2. CASE x - 1 = last
    BY <1>3, <2>2
  <2>3. CASE x - 1 > last /\ day - n < x - 1
    <3>1. x - 1 \in Recent(c, n)
      BY <1>1, <1>4, <2>1, <2>3 DEF Recent
    <3>2. QED BY <1>5, <2>3, <3>1
  <2>4. CASE day - n >= x - 1
    <3>1. ASSUME NEW z \in x .. x + n - 1 PROVE z \in new
      <4>1. z \in Nat /\ 1 <= z /\ z <= day /\ day - n < z /\ c.listed <= z /\ z > last
        BY <1>1, <1>4, <2>1, <2>4
      <4>2. QED BY <1>5, <4>1 DEF Recent
    <3>2. QED BY <3>1
  <2>5. QED BY <1>1, <1>4, <2>1, <2>2, <2>3, <2>4
<1>8. Solid(F \cup new, n)
  BY <1>6, <1>7 DEF Solid
<1>9. QED BY <1>8 DEF new

(* What a fetch does to the files: one is left as it was, or replaced by a *)
(* file as solid as it was.                                                *)
Kept == /\ files' = files /\ broken' = broken
Replaced(k, F) ==
    /\ k \in Contracts \X Stages /\ F # {} /\ F \subseteq Span(k[1])
    /\ files' = With(files, k, F)
    /\ broken' \in {broken \cup {k}, broken \ {k}}
    /\ FilesOK => Solid(F, Reach[k[2]])

LEMMA MergedFile ==
  ASSUME HistoryTyped, NEW k \in Contracts \X Stages, k[1].expiry >= day, NEW bars,
         bars = {} \/ bars = Bars(k[1], LastDays(Reach[k[2]])),
         Merged(k, bars) # {}
  PROVE  /\ Merged(k, bars) \subseteq Span(k[1])
         /\ FilesOK => Solid(Merged(k, bars), Reach[k[2]])
<1> DEFINE c == k[1]
           n == Reach[k[2]]
<1>1. c \in Contracts /\ n \in Nat /\ n >= 1 /\ day \in Nat
  BY HistoryConstants DEF HistoryTyped, RunTypes, Days
<1>2. bars = {} \/ bars = Recent(c, n)
  BY <1>1, Answered
<1>3. Recent(c, n) \subseteq Span(c)
  BY DEF Recent, Span
<1>4. Solid(Recent(c, n), n) /\ Solid({}, n)
  BY <1>1, RecentSolid DEF Solid
<1>5. CASE mode.incremental /\ k \in DOMAIN files /\ k \notin broken
  <2>1. Merged(k, bars) = files[k] \cup Newer(files[k], bars)
    BY <1>5 DEF Merged
  <2>2. files[k] # {} /\ files[k] \in SUBSET Span(c)
    BY <1>5 DEF HistoryTyped, FileTypes
  <2>3. Newer(files[k], bars) \subseteq bars /\ (bars = {} => Newer(files[k], bars) = {})
    BY DEF Newer
  <2>4. Merged(k, bars) \subseteq Span(c)
    BY <1>2, <1>3, <2>1, <2>2, <2>3
  <2>5. ASSUME FilesOK PROVE Solid(Merged(k, bars), n)
    <3>1. Solid(files[k], n)
      BY <1>5, <2>5 DEF FilesOK
    <3>2. CASE bars = {}
      BY <2>1, <2>3, <3>1, <3>2
    <3>3. CASE bars = Recent(c, n)
      BY <1>1, <2>1, <2>2, <3>1, <3>3, AppendedSolid
    <3>4. QED BY <1>2, <3>2, <3>3
  <2>6. QED BY <2>4, <2>5
<1>6. CASE ~(mode.incremental /\ k \in DOMAIN files /\ k \notin broken)
  <2>1. Merged(k, bars) = bars
    BY <1>6 DEF Merged
  <2>2. QED BY <1>2, <1>3, <1>4, <2>1
<1>7. QED BY <1>5, <1>6

LEMMA FetchedBars ==
  ASSUME HistoryTyped, NEW answered \in BOOLEAN, NEW dies \in BOOLEAN, FetchBars(answered, dies)
  PROVE  day' = day /\ (Kept \/ \E k, F : Replaced(k, F))
<1> DEFINE k == <<contract, mode.stage>>
           bars == IF answered THEN Bars(contract, LastDays(Reach[mode.stage])) ELSE {}
           F == Merged(k, bars)
<1>1. /\ left # {} /\ contract.expiry >= day /\ day' = day
      /\ files' = IF F = {} THEN files ELSE With(files, k, F)
      /\ F = {} => broken' = broken
      /\ F # {} => broken' \in {broken \cup {k}, broken \ {k}}
  BY DEF FetchBars
<1>2. contract \in Contracts
  BY <1>1 DEF contract, HistoryTyped, RunTypes
<1>3. k \in Contracts \X Stages /\ k[1] = contract /\ k[2] = mode.stage
  BY <1>2 DEF HistoryTyped, ModeTypes
<1>4. bars = {} \/ bars = Bars(k[1], LastDays(Reach[k[2]]))
  BY <1>3
<1> HIDE DEF k, bars
<1>5. CASE F = {}
  BY <1>1, <1>5 DEF Kept
<1>6. CASE F # {}
  <2>1. F \subseteq Span(k[1]) /\ (FilesOK => Solid(F, Reach[k[2]]))
    BY <1>1, <1>3, <1>4, <1>6, MergedFile
  <2> HIDE DEF F
  <2>2. Replaced(k, F)
    BY <1>1, <1>3, <1>6, <2>1 DEF Replaced
  <2>3. QED BY <1>1, <2>2
<1>7. QED BY <1>5, <1>6

(* Every other step leaves the files alone. *)
LEMMA FileChanges ==
  ASSUME HistoryTyped, HistoryNext
  PROVE  /\ day' \in Nat /\ day <= day'
         /\ Kept \/ \E k, F : Replaced(k, F)
<1>1. day \in Nat
  BY DEF HistoryTyped, RunTypes, Days
<1>2. CASE \E answered, dies \in BOOLEAN : FetchBars(answered, dies)
  BY <1>1, <1>2, FetchedBars
<1>3. CASE DayEnds
  BY <1>1, <1>3 DEF DayEnds, Kept
<1>4. \/ \E answered, dies \in BOOLEAN : FetchBars(answered, dies)
      \/ DayEnds
      \/ day' = day /\ Kept
  BY DEF HistoryNext, Discovered, SymbolSkipped, NothingFound, OpenFolder, FetchContract,
         ContractsDone, NoCache, CacheRaises, PickContracts, SkipContract, StageDone, RunEnds,
         Killed, StartHistory, StartWeekend, Start, Kept
<1>5. QED BY <1>1, <1>2, <1>3, <1>4

LEMMA BarFilesStep ==
  ASSUME HistoryTyped, HistoryNext
  PROVE  FileTypes' /\ (FilesOK => FilesOK')
<1>1. day \in Nat /\ day' \in Nat /\ day <= day'
  BY FileChanges DEF HistoryTyped, RunTypes, Days
<1>2. \A c : Span(c) \subseteq Span(c)'
  BY <1>1 DEF Span
<1>3. CASE Kept
  BY <1>2, <1>3 DEF Kept, HistoryTyped, FileTypes, FilesOK
<1>4. ASSUME NEW k, NEW F, Replaced(k, F)
      PROVE  FileTypes' /\ (FilesOK => FilesOK')
  <2>1. DOMAIN files' = DOMAIN files \cup {k}
    BY <1>4 DEF Replaced, With
  <2>2. \A j \in DOMAIN files' : \/ j = k /\ files'[j] = F
                                 \/ j # k /\ j \in DOMAIN files /\ files'[j] = files[j]
    BY <1>4 DEF Replaced, With
  <2>3. /\ k \in Contracts \X Stages /\ F # {} /\ F \subseteq Span(k[1])
        /\ broken' \in {broken \cup {k}, broken \ {k}}
        /\ FilesOK => Solid(F, Reach[k[2]])
    BY <1>4 DEF Replaced
  <2>4. DOMAIN files' \subseteq Contracts \X Stages /\ broken' \subseteq DOMAIN files'
    BY <2>1, <2>3 DEF HistoryTyped, FileTypes
  <2>5. \A j \in DOMAIN files' : files'[j] # {} /\ files'[j] \subseteq Span(j[1])'
    BY <1>2, <2>2, <2>3 DEF HistoryTyped, FileTypes
  <2>6. ASSUME FilesOK, NEW j \in DOMAIN files' \ broken'
        PROVE  Solid(files'[j], Reach[j[2]])
    BY <2>2, <2>3, <2>6 DEF FilesOK
  <2>7. QED BY <2>4, <2>5, <2>6 DEF FileTypes, FilesOK
<1>5. QED BY <1>3, <1>4, FileChanges

LEMMA HistoryTypedStep == ASSUME HistoryTyped, [HistoryNext]_historyVars PROVE HistoryTyped'
<1>1. CASE UNCHANGED historyVars
  BY <1>1 DEF HistoryTyped, RunTypes, ModeTypes, ListTypes, FolderTypes, FileTypes, Span, Folders, sym,
              historyVars, runState
<1>2. CASE HistoryNext
  BY <1>2, RunTypesStep, ModeTypesStep, ListTypesStep, FolderTypesStep, BarFilesStep DEF HistoryTyped
<1>3. QED BY <1>1, <1>2

LEMMA HistoryStart == ASSUME HistoryInit PROVE HistoryTyped
<1>1. RunTypes
  BY HistoryConstants DEF HistoryInit, RunTypes, Days
<1>2. ModeTypes
  BY DEF HistoryInit, ModeTypes, NoMode, Stages
<1>3. ListTypes /\ FolderTypes /\ FileTypes
  <2>1. DOMAIN Nothing = {}
    BY DEF Nothing
  <2>2. QED BY <2>1 DEF HistoryInit, ListTypes, FolderTypes, FileTypes, Folders
<1>4. QED BY <1>1, <1>2, <1>3 DEF HistoryTyped

LEMMA HistoryAlwaysTyped == HistorySpec => []HistoryTyped
  BY HistoryStart, HistoryTypedStep, PTL DEF HistorySpec

(* OptionHistory keeps its types: lists and folders are no later than      *)
(* today, a folder has bars of its day or before, a request goes no        *)
(* further than today, and no file of bars is empty.                       *)
THEOREM HistoryTypeCorrect == HistorySpec => []HistoryTypeOK
<1>1. HistoryTyped => HistoryTypeOK
  <2> SUFFICES ASSUME HistoryTyped PROVE HistoryTypeOK
    OBVIOUS
  <2>1. 1 .. day \subseteq Days
    BY HistoryConstants DEF HistoryTyped, RunTypes, Days
  <2>2. \A c : Span(c) \subseteq Days
    BY <2>1 DEF Span
  <2>3. QED
    BY <2>1, <2>2
    DEF HistoryTyped, RunTypes, ModeTypes, ListTypes, FolderTypes, FileTypes, HistoryTypeOK
<1>2. QED BY <1>1, HistoryAlwaysTyped, PTL

-------------------------------------------------------------------------------
LEMMA SolidIsOld ==
  ASSUME NEW n \in Nat, NEW F \in SUBSET (1 .. n), F # {}, NEW m \in Nat, Solid(F, m),
         NEW d \in Oldest(F) .. Newest(F), d \notin F
  PROVE  LET e == Oldest({x \in F : x > d}) IN e .. e + m - 1 \subseteq F
<1> DEFINE after == {x \in F : x > d}
           e == Oldest(after)
<1>1. /\ Oldest(F) \in F /\ Newest(F) \in F /\ d \in Int /\ Oldest(F) <= d /\ d <= Newest(F)
  <2>1. Oldest(F) \in F /\ Newest(F) \in F
    BY NewestOfDays, OldestOfDays
  <2>2. QED BY <2>1
<1>2. \A x \in F : x \in Int
  OBVIOUS
<1>0. \A x, y, z \in Int : (x <= y /\ x # y => y > x) /\ (x <= y /\ z > y => ~(z <= x))
  OBVIOUS
<1>3. Newest(F) \in after /\ after \in SUBSET (1 .. n)
  <2>1. Newest(F) > d
    <3>1. Newest(F) \in Int /\ d # Newest(F)
      BY <1>1, <1>2
    <3>2. QED BY <1>0, <1>1, <3>1, ZenonT(30)
  <2>2. QED BY <1>1, <2>1
<1>4. e \in after /\ \A y \in after : e <= y
  BY <1>3, OldestOfDays
<1> HIDE DEF e
<1>5. e \in F /\ e \in Int /\ e > d
  BY <1>2, <1>4
<1>6. ~(e <= Oldest(F))
  <2>1. Oldest(F) \in Int
    BY <1>1, <1>2
  <2>2. QED BY <1>0, <1>1, <1>5, <2>1, ZenonT(30)
<1>7. e - 1 \notin F
  <2> SUFFICES ASSUME e - 1 \in F PROVE FALSE
    OBVIOUS
  <2>1. e - 1 # d
    OBVIOUS
  <2>2. e - 1 > d
    BY <1>1, <1>5, <2>1
  <2>3. e - 1 \in after
    BY <2>2
  <2>4. QED BY <1>4, <1>5, <2>3
<1>8. e .. e + m - 1 \subseteq F
  BY <1>1, <1>5, <1>6, <1>7 DEF Solid
<1>9. QED BY <1>8 DEF e

(* Appending what is newer leaves a hole only before a stretch as long as  *)
(* a whole request, whatever the days on which the runs came and failed.   *)
THEOREM HolesAreAlwaysOld == HistorySpec => []HolesAreOld
<1>1. HistoryInit => FilesOK
  BY DEF HistoryInit, FilesOK, Nothing
<1>2. HistoryTyped /\ FilesOK /\ [HistoryNext]_historyVars => FilesOK'
  <2>1. CASE UNCHANGED historyVars
    BY <2>1 DEF FilesOK, historyVars
  <2>2. QED BY <2>1, BarFilesStep
<1>3. HistoryTyped /\ FilesOK => HolesAreOld
  <2> SUFFICES ASSUME HistoryTyped, FilesOK, NEW k \in DOMAIN files \ broken,
                      NEW d \in Oldest(files[k]) .. Newest(files[k]), d \notin files[k]
               PROVE  LET e == Oldest({x \in files[k] : x > d})
                      IN  e .. e + Reach[k[2]] - 1 \subseteq files[k]
    BY DEF HolesAreOld
  <2>1. files[k] \in SUBSET (1 .. day) /\ files[k] # {} /\ day \in Nat
    BY DEF HistoryTyped, FileTypes, Span, RunTypes, Days
  <2>2. Reach[k[2]] \in Nat
    <3>1. k \in Contracts \X Stages
      BY DEF HistoryTyped, FileTypes
    <3>2. QED BY <3>1, HistoryConstants
  <2>3. Solid(files[k], Reach[k[2]])
    BY DEF FilesOK
  <2>4. QED BY <2>1, <2>2, <2>3, SolidIsOld
<1>4. QED BY <1>1, <1>2, <1>3, HistoryAlwaysTyped, PTL DEF HistorySpec

-------------------------------------------------------------------------------
(* While the contracts of a symbol are fetched, a day since the folder     *)
(* before today's is asked for, unless a full fetch was too short for it.  *)
AskedOK ==
    phase = "contracts" =>
      \A g \in Folders(sym), d \in 1 .. day :
         g < day /\ g < d /\ (\A h \in Folders(sym) : h <= g \/ day <= h) => d \in asked \cup tooShort[sym]

LEMMA OpenedAsked ==
  ASSUME HistoryTyped, NEW found \in SUBSET Contracts, OpenFolder(found),
         NEW g \in Folders(sym), NEW d \in 1 .. day, g < day, g < d,
         \A h \in Folders(sym) : h <= g \/ day <= h
  PROVE  d \in asked' \cup tooShort'[sym]
<1>1. sym \in Universe
  BY OpenedFolder
<1>2. day \in Nat /\ day <= LastDay /\ LastDay \in Nat /\ Folders(sym) \in SUBSET (1 .. day)
  BY <1>1, HistoryConstants DEF HistoryTyped, RunTypes, FolderTypes, Days
<1>3. asked' = LastDays(Duration(sym)) /\ ~UpToDate(sym)
  BY DEF OpenFolder
<1>4. CASE mode.incremental
  <2>1. Newest(Folders(sym)) \in Folders(sym) /\ \A e \in Folders(sym) : e <= Newest(Folders(sym))
    BY <1>2, NewestOfDays
  <2>2. ~(Newest(Folders(sym)) >= day)
    BY <1>3, <1>4 DEF UpToDate
  <2>3. asked' = LastDays(Gap(sym))
    BY <1>3, <1>4 DEF Duration
  <2>4. Newest(Folders(sym)) = g
    BY <1>2, <2>1, <2>2
  <2>5. asked' = LastDays(day - g)
    BY <2>3, <2>4 DEF Gap
  <2>6. g \in Nat /\ d \in Nat /\ 1 <= d /\ d <= day
    BY <1>2
  <2>7. d \in LastDays(day - g)
    BY <1>2, <2>6 DEF LastDays, Days
  <2>8. QED BY <2>5, <2>7
<1>5. CASE ~mode.incremental
  <2> DEFINE before == {f \in Folders(sym) : f < day}
  <2>1. before \in SUBSET (1 .. day) /\ g \in before
    BY <1>2
  <2>2. Newest(before) \in before
    BY <1>2, <2>1, NewestOfDays
  <2>3. asked' = LastDays(mode.days)
    BY <1>3, <1>5 DEF Duration
  <2>4. tooShort' = [tooShort EXCEPT ![sym] = @ \cup LeftOut(sym, LastDays(mode.days))]
    BY <1>5 DEF OpenFolder
  <2>5. LeftOut(sym, LastDays(mode.days)) = (Newest(before) + 1 .. day) \ LastDays(mode.days)
    BY <2>1 DEF LeftOut
  <2>6. Newest(before) \in Folders(sym) /\ Newest(before) < day
    BY <2>2
  <2> HIDE DEF before
  <2>7. d \in Newest(before) + 1 .. day
    <3>1. Newest(before) \in Nat /\ g \in Nat /\ d \in Nat /\ d <= day
      BY <1>2, <2>6
    <3>2. Newest(before) <= g
      BY <1>2, <2>6, <3>1
    <3>3. QED BY <1>2, <3>1, <3>2
  <2>8. LeftOut(sym, LastDays(mode.days)) \subseteq tooShort'[sym]
    BY <1>1, <2>4 DEF HistoryTyped, FolderTypes
  <2>9. QED BY <2>3, <2>5, <2>7, <2>8
<1>6. QED BY <1>4, <1>5

LEMMA JoinStep ==
  ASSUME HistoryTyped, AskedOK, FoldersJoin, [HistoryNext]_historyVars
  PROVE  AskedOK' /\ FoldersJoin'
<1>1. CASE UNCHANGED <<folders, tooShort>> /\ phase' # "contracts"
  BY <1>1 DEF AskedOK, FoldersJoin, Folders
<1>2. CASE UNCHANGED historyVars
  BY <1>2 DEF AskedOK, FoldersJoin, Folders, sym, historyVars, runState
<1>3. ASSUME NEW found \in SUBSET Contracts, OpenFolder(found)
      PROVE  AskedOK' /\ FoldersJoin'
  <2>1. /\ sym \in Universe /\ queue' = queue /\ day' = day
        /\ DOMAIN folders'[sym] = Folders(sym) \cup {day}
        /\ \A s \in Universe : \A d \in DOMAIN folders'[s] :
               \/ d \in Folders(s) /\ folders'[s][d] = folders[s][d]
               \/ s = sym /\ d = day /\ d \notin Folders(s) /\ DOMAIN folders'[s][d] = {}
        /\ \A s \in Universe : s # sym => folders'[s] = folders[s]
    BY <1>3, OpenedFolder
  <2>2. day \in Nat /\ \A s \in Universe : Folders(s) \in SUBSET (1 .. day)
    BY DEF HistoryTyped, FolderTypes, RunTypes, Days
  <2>3. AskedOK'
    <3>1. ASSUME NEW g \in DOMAIN folders'[sym], NEW d \in 1 .. day, g < day, g < d,
                 \A h \in DOMAIN folders'[sym] : h <= g \/ day <= h
          PROVE  d \in asked' \cup tooShort'[sym]
      <4>1. g \in Folders(sym) /\ \A h \in Folders(sym) : h <= g \/ day <= h
        BY <2>1, <2>2, <3>1
      <4>2. QED BY <1>3, <3>1, <4>1, OpenedAsked
    <3>2. QED BY <2>1, <3>1 DEF AskedOK, Folders, sym
  <2>4. \A s \in Universe : tooShort[s] \subseteq tooShort'[s]
    <3>1. \/ tooShort' = tooShort
          \/ tooShort' = [tooShort EXCEPT ![sym] = @ \cup LeftOut(sym, LastDays(mode.days))]
      BY <1>3 DEF OpenFolder
    <3>2. QED BY <2>1, <3>1 DEF HistoryTyped, FolderTypes
  <2>5. ASSUME NEW s \in Universe, NEW f \in DOMAIN folders'[s], NEW g \in DOMAIN folders'[s],
               NEW c \in DOMAIN folders'[s][f],
               g < f, \A h \in DOMAIN folders'[s] : h <= g \/ f <= h
        PROVE  Bars(c, g + 1 .. f) \subseteq folders'[s][f][c] \cup tooShort'[s]
    <3>1. f \in Folders(s) /\ folders'[s][f] = folders[s][f]
      BY <2>1, <2>5
    <3>2. Folders(s) \subseteq DOMAIN folders'[s]
      BY <2>1 DEF Folders
    <3>3. g \in Folders(s)
      <4>1. g \in Folders(s) \/ g = day
        BY <2>1
      <4>2. f <= day /\ f \in Nat
        BY <2>2, <3>1
      <4>3. QED BY <2>2, <2>5, <4>1, <4>2
    <3>4. Bars(c, g + 1 .. f) \subseteq folders[s][f][c] \cup tooShort[s]
      BY <2>5, <3>1, <3>2, <3>3 DEF FoldersJoin
    <3>5. QED BY <2>4, <3>1, <3>4
  <2>6. FoldersJoin'
    BY <2>5 DEF FoldersJoin, Folders, Bars
  <2>7. QED BY <2>3, <2>6
<1>4. ASSUME NEW answered \in BOOLEAN, FetchContract(answered)
      PROVE  AskedOK' /\ FoldersJoin'
  <2>1. /\ \A s \in Universe : DOMAIN folders'[s] = Folders(s)
        /\ \A s \in Universe : \A d \in Folders(s) : \A c \in DOMAIN folders'[s][d] :
               \/ c \in DOMAIN folders[s][d] /\ folders'[s][d][c] = folders[s][d][c]
               \/ s = sym /\ d = day /\ folders'[s][d][c] = Bars(c, asked)
    BY <1>4, FetchedContract
  <2>2. UNCHANGED <<day, phase, queue, asked, tooShort>> /\ phase = "contracts" /\ sym \in Universe
    BY <1>4, SymbolInTurn DEF FetchContract, HistoryTyped, RunTypes
  <2>3. AskedOK'
    <3>1. DOMAIN folders'[sym] = DOMAIN folders[sym]
      BY <2>1, <2>2 DEF Folders
    <3>2. QED BY <2>2, <3>1 DEF AskedOK, Folders, sym
  <2>4. ASSUME NEW s \in Universe, NEW f \in Folders(s), NEW g \in Folders(s),
               NEW c \in DOMAIN folders'[s][f],
               g < f, \A h \in Folders(s) : h <= g \/ f <= h
        PROVE  Bars(c, g + 1 .. f) \subseteq folders'[s][f][c] \cup tooShort[s]
    <3>1. CASE c \in DOMAIN folders[s][f] /\ folders'[s][f][c] = folders[s][f][c]
      BY <2>4, <3>1 DEF FoldersJoin
    <3>2. CASE s = sym /\ f = day /\ folders'[s][f][c] = Bars(c, asked)
      <4>1. day \in Nat /\ g \in Nat
        BY <2>4, <3>2 DEF HistoryTyped, FolderTypes, RunTypes, Days
      <4>2. \A d \in g + 1 .. day : d \in 1 .. day /\ g < d
        BY <4>1
      <4>3. \A d \in g + 1 .. day : d \in asked \cup tooShort[sym]
        BY <2>2, <2>4, <3>2, <4>2 DEF AskedOK
      <4>4. QED BY <3>2, <4>3 DEF Bars
    <3>3. QED BY <2>1, <3>1, <3>2
  <2>5. FoldersJoin'
    <3>1. \A s \in Universe : \A f \in DOMAIN folders'[s], g \in DOMAIN folders'[s] :
             \A c \in DOMAIN folders'[s][f] :
                (g < f /\ \A h \in DOMAIN folders'[s] : h <= g \/ f <= h) =>
                    Bars(c, g + 1 .. f) \subseteq folders'[s][f][c] \cup tooShort[s]
      BY <2>1, <2>4
    <3>2. QED BY <2>2, <3>1 DEF FoldersJoin, Folders, Bars
  <2>6. QED BY <2>3, <2>5
<1>5. \/ UNCHANGED <<folders, tooShort>> /\ phase' # "contracts"
      \/ UNCHANGED historyVars
      \/ \E found \in SUBSET Contracts : OpenFolder(found)
      \/ \E answered \in BOOLEAN : FetchContract(answered)
  <2>1. Stop => phase' # "contracts"
    BY DEF Stop
  <2>2. Continue("history") \/ Continue("weekend") => phase' # "contracts"
    BY DEF Continue
  <2>3. \A answered, dies \in BOOLEAN : FetchBars(answered, dies) =>
           UNCHANGED <<folders, tooShort>> /\ phase' # "contracts"
    <3>1. \A answered, dies \in BOOLEAN : FetchBars(answered, dies) =>
             UNCHANGED <<folders, tooShort>> /\ phase = "bars" /\ (Stop \/ phase' = phase)
      BY DEF FetchBars
    <3>2. QED BY <2>1, <3>1
  <2>4. DayEnds \/ (\E s \in Universe : Discovered(s)) => UNCHANGED <<folders, tooShort>> /\ phase' # "contracts"
    BY DEF DayEnds, Discovered, runState
  <2>5. \A next \in {"history", "weekend"} : \A m : Start(next, m) =>
           UNCHANGED <<folders, tooShort>> /\ phase' # "contracts"
    BY DEF Start
  <2>6. SymbolSkipped \/ NothingFound \/ ContractsDone \/ NoCache \/ CacheRaises \/ SkipContract \/ StageDone
        \/ RunEnds \/ Killed \/ (\E picked \in SUBSET Contracts : PickContracts(picked))
        => UNCHANGED <<folders, tooShort>> /\ phase' # "contracts"
    BY <2>1, <2>2
    DEF SymbolSkipped, NothingFound, ContractsDone, NoCache, CacheRaises, PickContracts, SkipContract,
        StageDone, RunEnds, Killed
  <2>7. QED BY <2>3, <2>4, <2>5, <2>6 DEF HistoryNext, StartHistory, StartWeekend
<1>6. QED BY <1>1, <1>2, <1>3, <1>4, <1>5

(* The dated folders of incremental runs join without a gap, whatever      *)
(* failed in between, but for days a full fetch was asked too little for.  *)
THEOREM FoldersAlwaysJoin == HistorySpec => []FoldersJoin
<1>1. HistoryInit => AskedOK /\ FoldersJoin
  BY DEF HistoryInit, AskedOK, FoldersJoin, Folders, Nothing
<1>2. HistoryTyped /\ AskedOK /\ FoldersJoin /\ [HistoryNext]_historyVars => AskedOK' /\ FoldersJoin'
  BY JoinStep
<1>3. QED BY <1>1, <1>2, HistoryAlwaysTyped, PTL DEF HistorySpec
-------------------------------------------------------------------------------
(***************************************************************************)
(* Fundamentals.                                                           *)
(***************************************************************************)
(* The constants of Fundamentals, and what a command asks for. *)
LEMMA Allowances ==
  /\ Limit \in Nat /\ Attempts \in Nat /\ Attempts >= 1 /\ MaxSpecial \in Nat /\ MaxFaults \in Nat
  /\ OldAge \in Nat /\ PeriodAges \subseteq Ages /\ Never \in Ages /\ 0 \in Ages
  /\ Back \in Nat /\ Never \notin TradeDates /\ 0 \in TradeDates
<1>1. \A x, y, z \in Nat : \E a \in {x, y, z} : \A b \in {x, y, z} : b <= a
  OBVIOUS
<1>2. MinDays \in Nat /\ InfoDays \in Nat /\ StatementDays \in Nat
  BY FundamentalsAssumption
<1>3. \E a \in {MinDays, InfoDays, StatementDays} : \A b \in {MinDays, InfoDays, StatementDays} : b <= a
  BY <1>1, <1>2
<1>0. Back \in Nat
  BY FundamentalsAssumption
<1>4. OldAge \in Nat
  <2>1. Largest({MinDays, InfoDays, StatementDays}) \in Nat
    BY <1>2, <1>3 DEF Largest
  <2>2. QED BY <1>0, <2>1 DEF OldAge
<1>5. Limit \in Nat /\ Attempts \in Nat \ {0} /\ MaxSpecial \in Nat /\ MaxFaults \in Nat /\ PeriodAges \subseteq 0 .. OldAge
  BY FundamentalsAssumption
<1> QED BY <1>0, <1>4, <1>5 DEF Ages, Never, TradeDates

LEMMA CommandParts ==
  ASSUME NEW r \in Commands
  PROVE  /\ r.symbols \in Seq(Tickers) /\ r.types \in Seq(Types) /\ r.force \in BOOLEAN
         /\ r.ago \in TradeDates
         /\ Len(r.symbols) \in Nat /\ Len(r.symbols) >= 1 /\ Len(r.types) \in Nat /\ Len(r.types) >= 1
<1>1. /\ r.symbols \in Seq(Tickers) /\ r.types \in Seq(Types)
      /\ r.symbols # <<>> /\ r.types # <<>> /\ r.force \in BOOLEAN /\ r.ago \in TradeDates
  BY FundamentalsAssumption DEF TradeDates
<1>2. ASSUME NEW S, NEW s \in Seq(S), s # <<>> PROVE Len(s) \in Nat /\ Len(s) >= 1
  BY <1>2
<1> QED BY <1>1, <1>2

(* What the types say where the run is. *)
LEMMA Place ==
  ASSUME FundamentalsTypeOK
  PROVE  /\ at[1] \in 1 .. Len(command.symbols) /\ at[2] \in 1 .. Len(command.types)
         /\ at = <<at[1], at[2]>>
         /\ type \in Types /\ this \in Reports /\ command.ago \in TradeDates
<1>1. command \in Commands /\ at \in (1 .. Len(command.symbols)) \X (1 .. Len(command.types))
  BY DEF FundamentalsTypeOK
<1>2. at[1] \in 1 .. Len(command.symbols) /\ at[2] \in 1 .. Len(command.types) /\ at = <<at[1], at[2]>>
  BY <1>1
<1>3. command.symbols \in Seq(Tickers) /\ command.types \in Seq(Types)
  BY <1>1, CommandParts
<1>4. command.symbols[at[1]] \in Tickers /\ command.types[at[2]] \in Types
  BY <1>2, <1>3
<1>5. command.ago \in TradeDates
  BY <1>1, CommandParts
<1> QED BY <1>2, <1>4, <1>5 DEF type, this, symbol, Reports

(* The requests for the types before the j-th one, in units of Attempts. *)
Infos(c, j) == {i \in 1 .. j - 1 : c.types[i] = "info"}
Requests(c, j) == j - 1 + 2 * Cardinality(Infos(c, j))

LEMMA RequestCount ==
  ASSUME NEW c \in Commands, NEW j \in 1 .. Len(c.types)
  PROVE  /\ Requests(c, 1) = 0
         /\ Requests(c, j) \in Nat /\ Requests(c, j + 1) \in Nat
         /\ Requests(c, j + 1) = Requests(c, j) + Needed(c.types[j])
         /\ Requests(c, j + 1) <= Requests(c, Len(c.types) + 1)
         /\ Requests(c, Len(c.types) + 1) \in Nat
<1>1. Len(c.types) \in Nat /\ j \in Nat
  BY CommandParts
<1>2. \A n \in Nat : IsFiniteSet(Infos(c, n)) /\ Cardinality(Infos(c, n)) \in Nat
  <2>1. ASSUME NEW n \in Nat PROVE IsFiniteSet(Infos(c, n)) /\ Cardinality(Infos(c, n)) \in Nat
    <3>1. IsFiniteSet(1 .. n - 1)
      BY FS_Interval
    <3>2. Infos(c, n) \subseteq 1 .. n - 1
      BY DEF Infos
    <3>3. QED BY <3>1, <3>2, FS_Subset, FS_CardinalityType
  <2>2. QED BY <2>1
<1>3. Infos(c, 1) = {} /\ Cardinality(Infos(c, 1)) = 0
  BY FS_EmptySet DEF Infos
<1>4. Cardinality(Infos(c, j + 1)) = Cardinality(Infos(c, j)) + (IF c.types[j] = "info" THEN 1 ELSE 0)
  <2>1. CASE c.types[j] = "info"
    <3>1. Infos(c, j + 1) = Infos(c, j) \cup {j} /\ j \notin Infos(c, j)
      BY <1>1, <2>1 DEF Infos
    <3>2. QED BY <1>1, <1>2, <2>1, <3>1, FS_AddElement
  <2>2. CASE c.types[j] # "info"
    <3>1. Infos(c, j + 1) = Infos(c, j)
      BY <1>1, <2>2 DEF Infos
    <3>2. QED BY <1>1, <1>2, <2>2, <3>1
  <2>3. QED BY <2>1, <2>2
<1>5. Cardinality(Infos(c, j + 1)) <= Cardinality(Infos(c, Len(c.types) + 1))
  <2>1. Infos(c, j + 1) \subseteq Infos(c, Len(c.types) + 1)
    BY <1>1 DEF Infos
  <2>2. Len(c.types) + 1 \in Nat
    BY <1>1
  <2>3. QED BY <1>2, <2>1, <2>2, FS_Subset
<1>6. Requests(c, 1) = 0
  BY <1>3 DEF Requests
<1>7. j + 1 \in Nat /\ Len(c.types) + 1 \in Nat /\ j >= 1 /\ j <= Len(c.types)
  BY <1>1
<1>8. \A n \in Nat : n >= 1 => Requests(c, n) = n - 1 + 2 * Cardinality(Infos(c, n)) /\ Requests(c, n) \in Nat
  <2>1. ASSUME NEW n \in Nat, n >= 1
        PROVE  Requests(c, n) = n - 1 + 2 * Cardinality(Infos(c, n)) /\ Requests(c, n) \in Nat
    <3>1. Cardinality(Infos(c, n)) \in Nat
      BY <1>2
    <3>2. \A m \in Nat : n - 1 + 2 * m \in Nat
      BY <2>1
    <3>3. QED BY <3>1, <3>2 DEF Requests
  <2>2. QED BY <2>1
<1>9. Requests(c, j) \in Nat /\ Requests(c, j + 1) \in Nat /\ Requests(c, Len(c.types) + 1) \in Nat
  BY <1>1, <1>7, <1>8
<1>10. Requests(c, j + 1) = Requests(c, j) + Needed(c.types[j])
  <2>1. Cardinality(Infos(c, j)) \in Nat /\ Cardinality(Infos(c, j + 1)) \in Nat
    BY <1>1, <1>2, <1>7
  <2>2. CASE c.types[j] = "info"
    BY <1>1, <1>4, <1>7, <1>8, <2>1, <2>2 DEF Needed
  <2>3. CASE c.types[j] # "info"
    BY <1>1, <1>4, <1>7, <1>8, <2>1, <2>3 DEF Needed
  <2>4. QED BY <2>2, <2>3
<1>11. Requests(c, j + 1) <= Requests(c, Len(c.types) + 1)
  <2>1. Cardinality(Infos(c, Len(c.types) + 1)) \in Nat /\ Cardinality(Infos(c, j + 1)) \in Nat
    BY <1>1, <1>2, <1>7
  <2>2. \A m, n, e \in Nat : j <= m /\ n <= e => j + 2 * n <= m + 2 * e
    BY <1>1
  <2>3. /\ Requests(c, j + 1) = j + 1 - 1 + 2 * Cardinality(Infos(c, j + 1))
        /\ Requests(c, Len(c.types) + 1)
              = Len(c.types) + 1 - 1 + 2 * Cardinality(Infos(c, Len(c.types) + 1))
    BY <1>1, <1>7, <1>8
  <2>4. j + 1 - 1 = j /\ Len(c.types) + 1 - 1 = Len(c.types)
    BY <1>1
  <2>5. QED BY <1>1, <1>5, <1>7, <2>1, <2>2, <2>3, <2>4
<1>12. QED BY <1>6, <1>9, <1>10, <1>11

LEMMA SymbolCallsType ==
  ASSUME command \in Commands
  PROVE  /\ SymbolCalls \in Nat
         /\ LET most == Attempts * Requests(command, Len(command.types) + 1)
            IN  SymbolCalls = IF most < Limit THEN most ELSE Limit
<1>1. 1 \in 1 .. Len(command.types) /\ Len(command.types) \in Nat
  BY CommandParts
<1>2. Requests(command, Len(command.types) + 1) \in Nat
  BY <1>1, RequestCount
<1>3. {i \in DOMAIN command.types : command.types[i] = "info"} = Infos(command, Len(command.types) + 1)
  BY <1>1, CommandParts DEF Infos
<1>4. Requests(command, Len(command.types) + 1) = Len(command.types) + 2 * Cardinality(Infos(command, Len(command.types) + 1))
  <2>1. Cardinality(Infos(command, Len(command.types) + 1)) \in Nat
    <3>1. IsFiniteSet(1 .. Len(command.types) + 1 - 1)
      BY <1>1, FS_Interval
    <3>2. Infos(command, Len(command.types) + 1) \subseteq 1 .. Len(command.types) + 1 - 1
      BY DEF Infos
    <3>3. QED BY <3>1, <3>2, FS_Subset, FS_CardinalityType
  <2>2. QED BY <1>1, <2>1 DEF Requests
<1>5. Attempts * Requests(command, Len(command.types) + 1) \in Nat
  BY <1>2, Allowances
<1>6. QED BY <1>3, <1>4, <1>5, Allowances DEF SymbolCalls

LEMMA OlderAge ==
  /\ \A a \in Ages : Older(a) \in Ages
  /\ \A f \in [TradeDates -> Ages] : OlderFiles(f) \in [TradeDates -> Ages]
  /\ \A k \in TradeDates \cup {Never} : Earlier(k) \in TradeDates \cup {Never}
<1>1. \A a \in Ages : Older(a) \in Ages
  BY Allowances DEF Ages, Older, Never
<1>2. ASSUME NEW f \in [TradeDates -> Ages] PROVE OlderFiles(f) \in [TradeDates -> Ages]
  <2>1. \A k \in TradeDates : k # 0 => k - 1 \in TradeDates
    BY Allowances DEF TradeDates
  <2>2. QED BY <1>1, <2>1, Allowances DEF OlderFiles
<1>3. \A k \in TradeDates \cup {Never} : Earlier(k) \in TradeDates \cup {Never}
  BY Allowances DEF Earlier, TradeDates
<1> QED BY <1>1, <1>2, <1>3

(* A state file that was lost is taken for a first run. *)
LEMMA StateTypes ==
  /\ DefaultState \in States
  /\ \A st \in States, k \in TradeDates : /\ Reset(st, k) \in States /\ Reset(st, k).ran = k
                                     /\ Reset(st, k).calls = (IF st.ran = k THEN st.calls ELSE 0)
<1>1. DefaultState \in States
  BY Allowances DEF DefaultState, States, Unknown, Known
<1>2. ASSUME NEW st \in States, NEW k \in TradeDates
      PROVE  /\ Reset(st, k) \in States /\ Reset(st, k).ran = k
             /\ Reset(st, k).calls = (IF st.ran = k THEN st.calls ELSE 0)
  <2>1. st.calls \in 0 .. Limit /\ 0 \in 0 .. Limit /\ st.reports \in [Reports -> Known]
    BY Allowances DEF States
  <2>2. Reset(st, k) = [ran |-> k, calls |-> IF st.ran = k THEN st.calls ELSE 0, reports |-> st.reports]
    <3>1. st = [ran |-> st.ran, calls |-> st.calls, reports |-> st.reports]
      BY DEF States
    <3>2. Reset(st, k) = [st EXCEPT !.ran = k, !.calls = IF st.ran = k THEN st.calls ELSE 0]
      BY <3>1 DEF Reset
    <3>3. QED BY <3>1, <3>2
  <2>3. QED BY <2>1, <2>2 DEF States
<1> QED BY <1>1, <1>2

(* A report is noted, a call is counted. *)
LEMMA NoteTypes ==
  ASSUME FundamentalsTypeOK, NEW age \in Ages, NEW period \in PeriodAges \cup {Never}
  PROVE  /\ Note(age, period) \in States /\ Note(age, period).calls = mem.calls
         /\ Note(age, period).ran = mem.ran
         /\ Remaining > 0 => [Note(age, period) EXCEPT !.calls = mem.calls + 1] \in States
<1>1. mem \in States /\ this \in Reports /\ [fetched |-> age, period |-> period] \in Known
  BY Allowances, Place DEF FundamentalsTypeOK, Known
<1>2. /\ Note(age, period) \in States /\ Note(age, period).calls = mem.calls
      /\ Note(age, period).ran = mem.ran
  BY <1>1 DEF Note, States
<1>3. Remaining > 0 => mem.calls + 1 \in 0 .. Limit
  BY <1>1, Allowances DEF Remaining, States
<1> QED BY <1>2, <1>3 DEF States

LEMMA CountTypes ==
  ASSUME FundamentalsTypeOK, Remaining > 0
  PROVE  [mem EXCEPT !.calls = @ + 1] \in States
<1>1. mem \in States
  BY DEF FundamentalsTypeOK
<1>2. mem.calls + 1 \in 0 .. Limit
  BY <1>1, Allowances DEF Remaining, States
<1> QED BY <1>1, <1>2 DEF States

-------------------------------------------------------------------------------
LEMMA FundamentalsTypeStep ==
  ASSUME FundamentalsTypeOK, [FundamentalsNext]_fundamentalsVars PROVE FundamentalsTypeOK'
<1> USE DEF FundamentalsTypeOK, disk, request, history, bounds
<1>0. /\ 1 \in 1 .. Len(command.symbols) /\ 1 \in 1 .. Len(command.types)
      /\ command.symbols \in Seq(Tickers) /\ command.types \in Seq(Types)
  BY CommandParts
<1>a. ASSUME NextType, doing # "idle"
      PROVE  /\ at' \in (1 .. Len(command.symbols)) \X (1 .. Len(command.types))
             /\ doing' \in {"report", "save"}
             /\ replies' = <<>> /\ try' = 0
  <2>1. at[2] < Len(command.types) => at[2] + 1 \in 1 .. Len(command.types)
    BY <1>0, Place
  <2>2. QED BY <1>a, <2>1 DEF NextType
<1>b. <<>> \in Seq(Replies) /\ Len(<<>>) = 0 /\ 0 \in 0 .. Attempts - 1
  BY Allowances
<1>c. ASSUME StopEarly
      PROVE  /\ stopped' = TRUE /\ doing' = "save" /\ replies' = <<>> /\ try' = 0
             /\ UNCHANGED <<command, at, mem, disk, history, bounds>>
  BY <1>c DEF StopEarly
<1>d. ASSUME NextSymbol PROVE /\ at' \in (1 .. Len(command.symbols)) \X (1 .. Len(command.types))
                              /\ doing' \in {"idle", "report"} /\ mem' \in States
                              /\ stopped' \in BOOLEAN
  <2>1. at[1] < Len(command.symbols) => at[1] + 1 \in 1 .. Len(command.symbols)
    BY <1>0, Place
  <2>2. CASE ~stopped /\ at[1] < Len(command.symbols)
    BY <1>0, <1>d, <2>1, <2>2 DEF NextSymbol
  <2>3. CASE ~(~stopped /\ at[1] < Len(command.symbols))
    <3>1. Down
      BY <1>d, <2>3 DEF NextSymbol
    <3>2. QED BY <1>0, <3>1, StateTypes DEF Down
  <2>4. QED BY <2>2, <2>3
<1>e. ASSUME Down PROVE /\ at' \in (1 .. Len(command.symbols)) \X (1 .. Len(command.types))
                        /\ doing' = "idle" /\ mem' \in States /\ stopped' = FALSE
  BY <1>0, <1>e, StateTypes DEF Down
<1>f. ASSUME NEW q \in BOOLEAN, Trouble(q)
      PROVE  today' \in DayRecords
  BY <1>f DEF Trouble, DayRecords
<1>1. CASE NewDay
  <2>1. saved' \in States
    <3>1. OlderReports(saved.reports) \in [Reports -> Known]
      BY OlderAge DEF OlderReports, States, Known
    <3>2. Earlier(saved.ran) \in TradeDates \cup {Never} /\ saved.calls \in 0 .. Limit
      BY OlderAge DEF States
    <3>3. QED BY <1>1, <3>1, <3>2 DEF NewDay, States
  <2>2. cache' \in [Reports -> [TradeDates -> Ages]]
    BY <1>1, OlderAge DEF NewDay
  <2>3. today' \in DayRecords
    <3>1. (today.date = Never) \in BOOLEAN
      OBVIOUS
    <3>2. QED BY <1>1, <3>1, Allowances DEF NewDay, Today, DayRecords
  <2>4. fetched' \in [Reports -> [TradeDates -> Nat]] /\ spent' \in Nat
    BY <1>1 DEF NewDay, Unfetched
  <2>5. UNCHANGED <<doing, command, at, stopped, mem, garbled, request, bounds>>
    BY <1>1 DEF NewDay
  <2>6. QED BY <2>1, <2>2, <2>3, <2>4, <2>5
<1>2. ASSUME NEW r \in Commands, StartRun(r) PROVE FundamentalsTypeOK'
  <2>1. mem' \in States
    <3>1. r.ago \in TradeDates /\ Loaded \in States
      BY CommandParts, StateTypes DEF Loaded
    <3>2. QED BY <1>2, <3>1, StateTypes DEF StartRun
  <2>2. at' \in (1 .. Len(r.symbols)) \X (1 .. Len(r.types))
    BY <1>2, CommandParts DEF StartRun
  <2>3. today' \in DayRecords
    <3>1. r.force \in BOOLEAN /\ r.ago \in TradeDates
      BY CommandParts
    <3>2. /\ (today.forced \/ r.force) \in BOOLEAN
          /\ (today.irregular \/ today.date # Never \/ r.ago # 0) \in BOOLEAN
          /\ (IF Redated(r) THEN today.anew + 1 ELSE today.anew) \in Nat
      BY <3>1 DEF DayRecords
    <3>3. today' = [today EXCEPT !.date = r.ago, !.forced = @ \/ r.force,
                                 !.irregular = @ \/ today.date # Never \/ r.ago # 0,
                                 !.anew = IF Redated(r) THEN @ + 1 ELSE @]
      BY <1>2 DEF StartRun
    <3>4. QED BY <3>1, <3>2, <3>3 DEF DayRecords
  <2>4. special' \in 0 .. MaxSpecial
    <3> DEFINE odd == r.force \/ Redated(r)
    <3>1. (odd => special < MaxSpecial) /\ special' = special + (IF odd THEN 1 ELSE 0)
      BY <1>2 DEF StartRun
    <3> HIDE DEF odd
    <3>2. QED BY <3>1, Allowances
  <2>5. command' = r /\ doing' = "report" /\ stopped' = FALSE
        /\ UNCHANGED <<disk, request, spent, fetched, faults>>
    BY <1>2 DEF StartRun
  <2>6. QED BY <2>1, <2>2, <2>3, <2>4, <2>5
<1>3. CASE NotDue
  BY <1>3, <1>a, <1>b DEF NotDue
<1>4. CASE Unaffordable
  BY <1>4, <1>b, <1>c DEF Unaffordable
<1>5. CASE Ask
  BY <1>5 DEF Ask
<1>6. CASE Exhausted
  BY <1>6, <1>b, <1>c DEF Exhausted
<1>7. CASE Fails
  <2>1. mem' \in States /\ spent' \in Nat
    BY <1>7, CountTypes DEF Fails, Sent
  <2>2. try' \in 0 .. Attempts - 1
    BY <1>7, Allowances DEF Fails
  <2>3. QED BY <1>7, <1>f, <2>1, <2>2 DEF Fails, Sent
<1>8. ASSUME NEW period \in PeriodAges \cup {Never}, CacheHit(period) PROVE FundamentalsTypeOK'
  <2>1. mem' \in States
    <3>1. File \in Ages
      BY Place DEF File
    <3>2. QED BY <1>8, <3>1, NoteTypes DEF CacheHit
  <2>2. NextType /\ doing # "idle" /\ UNCHANGED <<command, stopped, saved, garbled, cache, history, bounds>>
    BY <1>8 DEF CacheHit, Affordable
  <2>3. QED BY <1>a, <1>b, <2>1, <2>2
<1>9. ASSUME NEW a \in Replies, Answer(a) PROVE FundamentalsTypeOK'
  <2>1. mem' \in States /\ spent' \in Nat
    BY <1>9, CountTypes DEF Answer, Sent
  <2>2. replies' \in Seq(Replies) /\ Len(replies') <= 2
    <3>1. replies' = Append(replies, a) /\ Len(replies) < Needed(type) - 1 /\ Needed(type) \in {1, 3}
      BY <1>9 DEF Answer, Needed
    <3>2. QED BY <3>1
  <2>3. try' = 0 /\ Trouble(a # "rows") /\ UNCHANGED <<doing, at, command, stopped, disk, fetched, bounds>>
    BY <1>9 DEF Answer, Sent
  <2>4. (a # "rows") \in BOOLEAN
    OBVIOUS
  <2>5. today' \in DayRecords
    BY <1>f, <2>3, <2>4
  <2>6. QED BY <1>b, <2>1, <2>2, <2>3, <2>5
<1>10. ASSUME NEW a \in Replies, NEW period \in PeriodAges \cup {Never}, LastAnswer(a, period)
       PROVE  FundamentalsTypeOK'
  <2>0. Remaining > 0 /\ spent' = spent + 1
    BY <1>10 DEF LastAnswer
  <2>1. mem' \in States
    <3>1. \/ mem' = [Note(0, period) EXCEPT !.calls = mem.calls + 1]
          \/ mem' = [mem EXCEPT !.calls = @ + 1]
      BY <1>10 DEF LastAnswer
    <3>2. 0 \in Ages
      BY Allowances
    <3>3. [Note(0, period) EXCEPT !.calls = mem.calls + 1] \in States
      BY <2>0, <3>2, NoteTypes
    <3>4. QED BY <2>0, <3>1, <3>3, CountTypes
  <2>2. cache' \in [Reports -> [TradeDates -> Ages]] /\ fetched' \in [Reports -> [TradeDates -> Nat]]
    <3>1. CachePayload \in [Reports -> [TradeDates -> Ages]]
      BY Allowances, Place DEF CachePayload
    <3>2. [fetched EXCEPT ![this][command.ago] = @ + 1] \in [Reports -> [TradeDates -> Nat]]
      BY Place
    <3>3. \/ cache' = CachePayload /\ fetched' = [fetched EXCEPT ![this][command.ago] = @ + 1]
          \/ UNCHANGED <<cache, fetched>>
      BY <1>10 DEF LastAnswer
    <3>4. QED BY <3>1, <3>2, <3>3
  <2>3. (a # "rows") \in BOOLEAN
    OBVIOUS
  <2>4. today' \in DayRecords
    BY <1>10, <1>f, <2>3 DEF LastAnswer
  <2>5. NextType /\ doing # "idle" /\ UNCHANGED <<command, stopped, saved, garbled, bounds>>
    BY <1>10 DEF LastAnswer
  <2>6. QED BY <1>a, <1>b, <2>0, <2>1, <2>2, <2>4, <2>5
<1>11. CASE Save
  BY <1>11, <1>d DEF Save
<1>g. ASSUME today' = [today EXCEPT !.anew = @ + 1] \/ today' = [today EXCEPT !.forgot = @ + SymbolCalls],
             faults < MaxFaults, faults' = faults + 1
      PROVE  /\ today' \in DayRecords
             /\ faults' \in 0 .. MaxFaults
  <2>1. SymbolCalls \in Nat
    BY SymbolCallsType
  <2>0. faults' \in 0 .. MaxFaults
    <3>1. \A m, n, k \in Nat : n < m /\ k = n + 1 => k \in 0 .. m
      OBVIOUS
    <3>2. faults \in Nat /\ MaxFaults \in Nat /\ faults + 1 \in Nat
      BY Allowances
    <3>3. QED BY <1>g, <3>1, <3>2, Zenon
  <2>2. CASE today' = [today EXCEPT !.anew = @ + 1]
    <3>1. today.anew + 1 \in Nat
      BY DEF DayRecords
    <3>2. QED BY <2>0, <2>2, <3>1 DEF DayRecords
  <2>3. CASE today' = [today EXCEPT !.forgot = @ + SymbolCalls]
    <3>1. today.forgot + SymbolCalls \in Nat
      BY <2>1 DEF DayRecords
    <3>2. QED BY <2>0, <2>3, <3>1 DEF DayRecords
  <2>4. QED BY <1>g, <2>2, <2>3
<1>h. ASSUME Unread, garbled' \in BOOLEAN PROVE saved' \in States
  BY <1>h, StateTypes DEF Unread
<1>12. CASE SaveFails
  <2>1. garbled' \in BOOLEAN
    BY <1>12 DEF SaveFails
  <2>2. /\ NextSymbol /\ Unread /\ today' = [today EXCEPT !.anew = @ + 1]
        /\ faults < MaxFaults /\ faults' = faults + 1
        /\ UNCHANGED <<command, cache, request, spent, fetched, special>>
    BY <1>12 DEF SaveFails
  <2>3. QED BY <1>d, <1>g, <1>h, <2>1, <2>2
<1>13. CASE Crash
  <2>1. /\ Down /\ replies' = <<>> /\ try' = 0
        /\ today' = [today EXCEPT !.forgot = @ + SymbolCalls]
        /\ faults < MaxFaults /\ faults' = faults + 1
        /\ UNCHANGED <<command, saved, garbled, cache, spent, fetched, special>>
    BY <1>13 DEF Crash
  <2>2. /\ today' \in DayRecords
        /\ faults' \in 0 .. MaxFaults
    BY <1>g, <2>1
  <2>3. /\ at' \in (1 .. Len(command.symbols)) \X (1 .. Len(command.types))
        /\ doing' = "idle" /\ mem' \in States /\ stopped' = FALSE
    BY <1>e, <2>1
  <2>4. replies' \in Seq(Replies) /\ Len(replies') <= 2 /\ try' \in 0 .. Attempts - 1
    BY <1>b, <2>1
  <2>5. UNCHANGED <<command, saved, garbled, cache, spent, fetched, special>>
    BY <2>1
  <2>6. QED BY <2>2, <2>3, <2>4, <2>5
<1>14. CASE CrashInSave
  <2>1. /\ Down /\ Unread /\ garbled' = TRUE /\ today' = [today EXCEPT !.anew = @ + 1]
        /\ faults < MaxFaults /\ faults' = faults + 1
        /\ UNCHANGED <<command, cache, request, spent, fetched, special>>
    BY <1>14 DEF CrashInSave
  <2>2. QED BY <1>e, <1>g, <1>h, <2>1
<1>15. CASE CrashInCache
  <2>1. /\ Down /\ replies' = <<>> /\ try' = 0
        /\ today' = [today EXCEPT !.forgot = @ + SymbolCalls]
        /\ faults < MaxFaults /\ faults' = faults + 1
        /\ cache' = [cache EXCEPT ![this][command.ago] = Never]
        /\ UNCHANGED <<command, saved, garbled, spent, fetched, special>>
    BY <1>15 DEF CrashInCache
  <2>2. cache' \in [Reports -> [TradeDates -> Ages]]
    BY <2>1, Allowances, Place
  <2>3. /\ today' \in DayRecords
        /\ faults' \in 0 .. MaxFaults
    BY <1>g, <2>1
  <2>4. /\ at' \in (1 .. Len(command.symbols)) \X (1 .. Len(command.types))
        /\ doing' = "idle" /\ mem' \in States /\ stopped' = FALSE
    BY <1>e, <2>1
  <2>5. replies' \in Seq(Replies) /\ Len(replies') <= 2 /\ try' \in 0 .. Attempts - 1
    BY <1>b, <2>1
  <2>6. UNCHANGED <<command, saved, garbled, spent, fetched, special>>
    BY <2>1
  <2>7. QED BY <2>2, <2>3, <2>4, <2>5, <2>6
<1>16. CASE UNCHANGED fundamentalsVars
  BY <1>16 DEF fundamentalsVars
<1>17. QED
  BY <1>1, <1>2, <1>3, <1>4, <1>5, <1>6, <1>7, <1>8, <1>9, <1>10, <1>11, <1>12, <1>13, <1>14, <1>15, <1>16
  DEF FundamentalsNext, Running
(* The calls that the state file counts for the day's present trade date, and what   *)
(* crashes, lost saves and other trade dates may have made it forget.               *)
SavedCalls == IF garbled \/ saved.ran # today.date THEN 0 ELSE saved.calls
Credit     == today.forgot + today.anew * Limit

(* What the symbol can have cost so far, and at the most. *)
Used == Attempts * (Requests(command, at[2]) + Len(replies)) + try
Most == Attempts * Requests(command, Len(command.types) + 1)

(* The budget between two saves. *)
BudgetInv ==
    /\ doing # "call" => replies = <<>> /\ try = 0
    /\ doing = "call" => Len(replies) < Needed(type)
    /\ today.date = Never => doing = "idle" /\ spent = 0
    /\ doing # "idle" => mem.ran = today.date /\ spent <= Credit + mem.calls
    /\ doing = "idle" => spent <= Credit + SavedCalls
    /\ doing \in {"report", "call"} => spent <= Credit + SavedCalls + Used
    /\ doing = "save" => spent <= Credit + SavedCalls + Most

LEMMA Products ==
  /\ \A a, n, z \in Nat : \A q \in 0 .. a - 1 : n + 1 <= z =>
        a * n + q \in Nat /\ a * z \in Nat /\ a * n + q + 1 <= a * (n + 1) /\ a * (n + 1) <= a * z
  /\ \A a, n \in Nat : (n + 1) * a = n * a + a /\ n * a \in Nat /\ a * n \in Nat
  /\ \A a, m, n \in Nat : m <= n => a * m <= a * n
<1>1. \A a, n \in Nat : (n + 1) * a = n * a + a /\ n * a \in Nat /\ a * n \in Nat /\ a * (n + 1) = a * n + a
  OBVIOUS
<1>2. ASSUME NEW a \in Nat, NEW m \in Nat, NEW n \in Nat, m <= n PROVE a * m <= a * n
  <2>1. PICK k \in Nat : n = m + k
    <3>1. n - m \in Nat /\ n = m + (n - m)
      BY <1>2
    <3>2. QED BY <3>1
  <2>2. a * n = a * m + a * k /\ a * k \in Nat /\ a * m \in Nat
    BY <2>1
  <2>3. QED BY <2>2
<1>3. ASSUME NEW a \in Nat, NEW n \in Nat, NEW z \in Nat, NEW q \in 0 .. a - 1, n + 1 <= z
      PROVE  a * n + q \in Nat /\ a * z \in Nat /\ a * n + q + 1 <= a * (n + 1) /\ a * (n + 1) <= a * z
  <2>1. a * n \in Nat /\ a * (n + 1) = a * n + a /\ a * z \in Nat
    BY <1>1
  <2>2. n + 1 \in Nat
    OBVIOUS
  <2>3. a * (n + 1) <= a * z
    BY <1>2, <1>3, <2>2
  <2>4. a * n + q \in Nat /\ a * n + q + 1 <= a * n + a
    BY <2>1
  <2>5. QED BY <2>1, <2>3, <2>4
<1>4. QED BY <1>1, <1>2, <1>3

(* The numbers that BudgetInv is about. *)
LEMMA Amounts ==
  ASSUME FundamentalsTypeOK
  PROVE  /\ Credit \in Nat /\ SavedCalls \in 0 .. Limit /\ mem.calls \in 0 .. Limit /\ spent \in Nat
         /\ Most \in Nat /\ SymbolCalls = (IF Most < Limit THEN Most ELSE Limit)
<1>1. saved \in States /\ mem \in States /\ garbled \in BOOLEAN /\ spent \in Nat
  BY DEF FundamentalsTypeOK
<1>2. SavedCalls \in 0 .. Limit /\ mem.calls \in 0 .. Limit
  BY <1>1, Allowances DEF SavedCalls, States
<1>3. today.forgot \in Nat /\ today.anew \in Nat
  BY DEF FundamentalsTypeOK, DayRecords
<1>4. Credit \in Nat
  BY <1>3, Allowances, Products DEF Credit
<1>5. 1 \in 1 .. Len(command.types) /\ command \in Commands
  BY CommandParts DEF FundamentalsTypeOK
<1>6. Requests(command, Len(command.types) + 1) \in Nat
  BY <1>5, RequestCount
<1>7. Most \in Nat
  BY <1>6, Allowances, Products DEF Most
<1>8. SymbolCalls = (IF Most < Limit THEN Most ELSE Limit)
  BY <1>5, SymbolCallsType DEF Most
<1>9. QED BY <1>1, <1>2, <1>4, <1>7, <1>8

(* The place of a run in its symbol bounds what the symbol can have cost. *)
LEMMA UsedBound ==
  ASSUME FundamentalsTypeOK, BudgetInv, doing \in {"report", "call"}
  PROVE  LET n == Requests(command, at[2]) + Len(replies)
         IN  /\ Used \in Nat /\ Used <= Most /\ n \in Nat
             /\ Used + 1 <= Attempts * (n + 1)
             /\ Attempts * (n + 1) <= Attempts * Requests(command, at[2] + 1)
             /\ Attempts * Requests(command, at[2] + 1) <= Most
             /\ Attempts * Requests(command, at[2] + 1) \in Nat
             /\ Used + 1 <= Attempts * Requests(command, at[2] + 1)
             /\ Used <= Attempts * Requests(command, at[2] + 1)
<1> DEFINE n == Requests(command, at[2]) + Len(replies)
           z == Requests(command, at[2] + 1)
           w == Requests(command, Len(command.types) + 1)
<1>1. command \in Commands /\ at[2] \in 1 .. Len(command.types) /\ Len(replies) \in Nat
  BY Place DEF FundamentalsTypeOK
<1>2. Len(replies) < Needed(type) /\ Needed(type) \in Nat
  <2>1. doing = "report" => Len(replies) = 0
    BY DEF BudgetInv
  <2>2. QED BY <2>1 DEF BudgetInv, Needed
<1>3. n \in Nat /\ z \in Nat /\ w \in Nat /\ n + 1 <= z /\ z <= w
  <2>1. /\ Requests(command, at[2]) \in Nat /\ z \in Nat /\ w \in Nat /\ z <= w
        /\ z = Requests(command, at[2]) + Needed(command.types[at[2]])
    BY <1>1, RequestCount
  <2>2. QED BY <1>1, <1>2, <2>1 DEF type
<1>4. Attempts \in Nat /\ try \in 0 .. Attempts - 1
  BY Allowances DEF FundamentalsTypeOK
<1>5. Used = Attempts * n + try /\ Most = Attempts * w
  BY DEF Used, Most
<1> HIDE DEF n, z, w
<1>6. /\ Attempts * n + try \in Nat /\ Attempts * z \in Nat /\ Attempts * n + try + 1 <= Attempts * (n + 1)
      /\ Attempts * (n + 1) <= Attempts * z
  BY <1>3, <1>4, Products
<1>7. Attempts * z <= Attempts * w /\ Attempts * w \in Nat /\ Attempts * (n + 1) \in Nat
  BY <1>3, <1>4, Products
<1>8. Used \in Nat /\ Used <= Most
  BY <1>5, <1>6, <1>7
<1>9. Used + 1 <= Attempts * z /\ Used <= Attempts * z
  BY <1>5, <1>6, <1>7, <1>8
<1>10. QED BY <1>3, <1>5, <1>6, <1>7, <1>8, <1>9 DEF n, z
LEMMA BudgetStep ==
  ASSUME FundamentalsTypeOK, FundamentalsTypeOK', BudgetInv, [FundamentalsNext]_fundamentalsVars
  PROVE  BudgetInv'
<1> USE DEF disk, request, history, bounds
<1>0. /\ Credit \in Nat /\ SavedCalls \in 0 .. Limit /\ mem.calls \in 0 .. Limit /\ spent \in Nat
      /\ Most \in Nat /\ SymbolCalls = (IF Most < Limit THEN Most ELSE Limit) /\ Limit \in Nat
  BY Allowances, Amounts
<1>p. SavedCalls' \in 0 .. Limit /\ mem'.calls \in 0 .. Limit
  <2>1. saved' \in States /\ mem' \in States
    BY DEF FundamentalsTypeOK
  <2>2. QED BY <2>1, Allowances DEF SavedCalls, States
<1>q. command \in Commands /\ at[2] \in 1 .. Len(command.types) /\ spent' \in Nat
  <2>1. at[2] \in 1 .. Len(command.types)
    BY Place
  <2>2. QED BY <2>1 DEF FundamentalsTypeOK
(* What a type costs is counted when the run leaves it. *)
<1>n. ASSUME NextType, doing \in {"report", "call"}, UNCHANGED <<command, saved, garbled>>,
             Credit' = Credit, today'.date = today.date,
             mem'.calls - mem.calls = spent' - spent, mem'.ran = mem.ran,
             spent' - spent \in {0, 1},
             spent' - spent + Used <= Attempts * Requests(command, at[2] + 1)
      PROVE  BudgetInv'
  <2> DEFINE next == Attempts * Requests(command, at[2] + 1)
  <2>1. next \in Nat /\ next <= Most /\ Used \in Nat
    BY <1>n, UsedBound
  <2>2. SavedCalls' = SavedCalls /\ replies' = <<>> /\ try' = 0
    BY <1>n DEF SavedCalls, NextType
  <2>3. spent <= Credit + SavedCalls + Used /\ mem.ran = today.date /\ spent <= Credit + mem.calls
    BY <1>n DEF BudgetInv
  <2>4. spent' \in Nat /\ mem'.calls \in Int
    BY <1>p, <1>q
  <2>t. mem'.ran = today'.date /\ today'.date # Never
    BY <1>n, <2>3 DEF BudgetInv
  <2>5. spent' <= Credit + mem'.calls /\ spent' <= Credit + SavedCalls + next
    <3> HIDE DEF next
    <3>1. spent' - spent + Used <= next
      BY <1>n DEF next
    <3>2. \A s, b, m, s1 \in Nat : \A m1 \in Int : s <= b + m /\ m1 - m = s1 - s => s1 <= b + m1
      OBVIOUS
    <3>3. \A s, b, u, s1, n \in Nat : s <= b + u /\ s1 - s + u <= n => s1 <= b + n
      OBVIOUS
    <3>4. /\ spent \in Nat /\ Credit \in Nat /\ Used \in Nat /\ SavedCalls \in Nat /\ mem.calls \in Nat
          /\ Credit + SavedCalls \in Nat
      BY <1>0, <2>1
    <3>5. spent' <= Credit + mem'.calls
      <4>1. spent <= Credit + mem.calls /\ mem'.calls - mem.calls = spent' - spent
        BY <1>n, <2>3, Zenon
      <4>2. QED BY <2>4, <3>2, <3>4, <4>1, Zenon
    <3>6. spent' <= Credit + SavedCalls + next
      <4>1. spent <= Credit + SavedCalls + Used /\ next \in Nat
        BY <2>1, <2>3, Zenon
      <4>2. QED BY <2>4, <3>1, <3>3, <3>4, <4>1, Zenon
    <3>7. QED BY <3>5, <3>6
  <2>6. CASE at[2] < Len(command.types)
    <3>1. doing' = "report" /\ at'[2] = at[2] + 1
      BY <1>n, <2>6, Place DEF NextType
    <3>2. Requests(command, at[2] + 1) \in Nat /\ Len(<<>>) = 0
      BY <1>q, RequestCount
    <3>3. Used' = Attempts * (Requests(command, at[2] + 1) + 0) + 0
      BY <1>n, <2>2, <3>1, <3>2 DEF Used
    <3>4. Used' = next
      BY <2>1, <3>2, <3>3
    <3>5. QED BY <1>n, <2>2, <2>t, <2>5, <3>1, <3>4 DEF BudgetInv
  <2>7. CASE ~(at[2] < Len(command.types))
    <3>1. doing' = "save" /\ Most' = Most
      BY <1>n, <2>7 DEF NextType, Most
    <3>2. spent' <= Credit + SavedCalls + Most
      <4> HIDE DEF next
      <4>1. QED BY <1>0, <2>1, <2>4, <2>5
    <3>3. QED BY <1>n, <2>2, <2>t, <2>5, <3>1, <3>2 DEF BudgetInv
  <2>8. QED BY <2>6, <2>7
<1>s. ASSUME StopEarly, doing \in {"report", "call"} PROVE BudgetInv'
  <2>1. /\ doing' = "save" /\ replies' = <<>> /\ try' = 0
        /\ UNCHANGED <<command, at, mem, saved, garbled, spent, today>>
    BY <1>s DEF StopEarly
  <2>2. Used \in Nat /\ Used <= Most
    BY <1>s, UsedBound
  <2>3. SavedCalls' = SavedCalls /\ Credit' = Credit /\ Most' = Most
    BY <2>1 DEF SavedCalls, Credit, Most
  <2>4. spent <= Credit + SavedCalls + Used /\ mem.ran = today.date /\ spent <= Credit + mem.calls
    BY <1>s DEF BudgetInv
  <2>5. spent <= Credit + SavedCalls + Most
    BY <1>0, <2>2, <2>4
  <2>6. QED BY <1>s, <2>1, <2>3, <2>4, <2>5 DEF BudgetInv
(* The next symbol has cost nothing yet. *)
<1>f. ASSUME doing' = "report", at'[2] = 1, replies' = <<>>, try' = 0,
             mem'.ran = today'.date, today'.date # Never, spent' <= Credit' + mem'.calls,
             spent' <= Credit' + SavedCalls', Credit' \in Nat, spent' \in Nat
      PROVE  BudgetInv'
  <2>1. command' \in Commands /\ 1 \in 1 .. Len(command'.types)
    <3>1. command' \in Commands
      BY DEF FundamentalsTypeOK
    <3>2. QED BY <3>1, CommandParts
  <2>2. Requests(command', 1) = 0 /\ Len(<<>>) = 0
    BY <2>1, RequestCount
  <2>3. Used' = Attempts * (0 + 0) + 0
    BY <1>f, <2>2 DEF Used
  <2>4. Used' = 0
    BY <2>3, Allowances
  <2>5. spent' <= Credit' + SavedCalls' + Used'
    <3>1. Credit' \in Nat /\ spent' <= Credit' + SavedCalls' /\ SavedCalls' \in Int
      <4>1. SavedCalls' \in Int
        BY <1>p
      <4>2. QED BY <1>f, <4>1, Zenon
    <3>2. \A m \in Int : m + 0 = m
      OBVIOUS
    <3>3. Credit' + SavedCalls' + Used' = Credit' + SavedCalls'
      BY <2>4, <3>1, <3>2
    <3>4. QED BY <3>1, <3>3
  <2>6. QED BY <1>f, <2>5 DEF BudgetInv
<1>d. ASSUME doing' = "idle", replies' = <<>>, try' = 0, spent' <= Credit' + SavedCalls',
             today'.date = Never => spent' = 0
      PROVE  BudgetInv'
  BY <1>d DEF BudgetInv
<1>t. \A q \in BOOLEAN : Trouble(q) => Credit' = Credit /\ today'.date = today.date
  <2>1. ASSUME NEW q \in BOOLEAN, Trouble(q) PROVE today'.forgot = today.forgot /\ today'.anew = today.anew /\ today'.date = today.date
    BY <2>1 DEF Trouble, FundamentalsTypeOK, DayRecords
  <2>2. QED BY <2>1 DEF Credit
<1>1. CASE NewDay
  <2>1. spent' = 0 /\ doing' = "idle" /\ UNCHANGED <<request>> /\ today'.forgot = 0 /\ today'.anew = 0 /\ doing = "idle"
    BY <1>1 DEF NewDay, Today
  <2>2. Credit' = 0 + 0 * Limit
    BY <2>1 DEF Credit
  <2>3. Credit' = 0
    BY <2>2, <1>0
  <2>4. spent' <= Credit' + SavedCalls'
    <3>1. \A m \in 0 .. Limit : 0 <= 0 + m
      BY <1>0
    <3>2. QED BY <1>p, <2>1, <2>3, <3>1
  <2>5. replies' = <<>> /\ try' = 0
    BY <2>1 DEF BudgetInv
  <2>6. QED BY <1>d, <2>1, <2>4, <2>5
<1>2. ASSUME NEW r \in Commands, StartRun(r) PROVE BudgetInv'
  <2>1. /\ doing = "idle" /\ doing' = "report" /\ at' = <<1, 1>> /\ UNCHANGED <<disk, request, spent>>
        /\ mem' = Reset(Loaded, r.ago) /\ today'.forgot = today.forgot /\ today'.date = r.ago
        /\ today'.anew = (IF Redated(r) THEN today.anew + 1 ELSE today.anew)
    BY <1>2 DEF StartRun, FundamentalsTypeOK, DayRecords
  <2>2. r.ago \in TradeDates /\ r.ago # Never /\ saved \in States
    BY Allowances, CommandParts DEF FundamentalsTypeOK
  <2>3. mem'.ran = today'.date /\ mem'.calls = SavedCalls'
    <3>1. CASE garbled
      BY <2>1, <2>2, <3>1, StateTypes DEF Loaded, SavedCalls, DefaultState
    <3>2. CASE ~garbled
      BY <2>1, <2>2, <3>2, StateTypes DEF Loaded, SavedCalls
    <3>3. QED BY <3>1, <3>2
  <2>4. spent <= Credit + SavedCalls /\ replies = <<>> /\ try = 0 /\ (today.date = Never => spent = 0)
    BY <2>1 DEF BudgetInv
  <2>5. Credit' \in Nat /\ spent <= Credit' + SavedCalls'
    <3>1. CASE Redated(r)
      <4>1. today'.anew = today.anew + 1 /\ today.anew \in Nat /\ today.forgot \in Nat
        BY <2>1, <3>1 DEF FundamentalsTypeOK, DayRecords
      <4>2. (today.anew + 1) * Limit = today.anew * Limit + Limit /\ today.anew * Limit \in Nat
        BY <1>0, <4>1, Products
      <4>3. Credit' = Credit + Limit
        BY <1>0, <2>1, <4>1, <4>2 DEF Credit
      <4>4. \A b, l, m, n, s \in Nat : s <= b + m /\ m <= l => s <= (b + l) + n /\ b + l \in Nat
        OBVIOUS
      <4>5. SavedCalls \in Nat /\ SavedCalls <= Limit /\ SavedCalls' \in Nat /\ spent <= Credit + SavedCalls
        BY <1>0, <1>p, <2>4
      <4>6. QED BY <1>0, <4>3, <4>4, <4>5
    <3>2. CASE ~Redated(r)
      <4>1. Credit' = Credit
        BY <2>1, <3>2 DEF Credit
      <4>2. CASE today.date = Never
        <5>1. spent = 0 /\ SavedCalls' \in Nat
          BY <1>0, <1>p, <2>4, <4>2
        <5>2. Credit \in Nat
          BY <1>0
        <5>3. \A b, n \in Nat : 0 <= b + n
          OBVIOUS
        <5>4. QED BY <4>1, <5>1, <5>2, <5>3, Zenon
      <4>3. CASE today.date = r.ago
        <5>1. SavedCalls' = SavedCalls
          BY <2>1, <4>3 DEF SavedCalls
        <5>2. QED BY <1>0, <2>4, <4>1, <5>1
      <4>4. QED BY <3>2, <4>2, <4>3 DEF Redated
    <3>3. QED BY <3>1, <3>2
  <2>6. QED BY <1>f, <1>0, <2>1, <2>2, <2>3, <2>4, <2>5
<1>3. CASE NotDue
  <2>1. NextType /\ doing = "report" /\ UNCHANGED <<command, mem, saved, garbled, today, spent>>
    BY <1>3 DEF NotDue
  <2>2. Credit' = Credit
    BY <2>1 DEF Credit
  <2>3. Used \in Nat /\ Used <= Attempts * Requests(command, at[2] + 1)
    BY <2>1, UsedBound
  <2>4. QED BY <1>n, <1>0, <2>1, <2>2, <2>3
<1>4. CASE Unaffordable
  BY <1>4, <1>s DEF Unaffordable
<1>5. CASE Ask
  <2>1. doing = "report" /\ doing' = "call" /\ UNCHANGED <<command, at, mem, saved, garbled, replies, try, today, spent>>
    BY <1>5 DEF Ask, Affordable
  <2>2. Credit' = Credit /\ SavedCalls' = SavedCalls /\ Used' = Used /\ type' = type
    BY <2>1 DEF Credit, SavedCalls, Used, type
  <2>3. Len(replies) < Needed(type)
    BY <2>1 DEF BudgetInv, Needed
  <2>4. QED BY <2>1, <2>2, <2>3 DEF BudgetInv
<1>6. CASE Exhausted
  BY <1>6, <1>s DEF Exhausted
(* A request is counted before it is sent. *)
<1>c. ASSUME Sent, Credit' = Credit, today'.date = today.date, doing' = "call", at' = at, Used' >= Used + 1, Used' \in Nat,
             Len(replies') < Needed(type)
      PROVE  BudgetInv'
  <2>1. /\ spent' = spent + 1 /\ mem' = [mem EXCEPT !.calls = @ + 1] /\ doing = "call"
        /\ UNCHANGED <<command, saved, garbled>>
    BY <1>c DEF Sent
  <2>2. mem'.calls = mem.calls + 1 /\ mem'.ran = mem.ran
    BY <2>1 DEF FundamentalsTypeOK, States
  <2>3. SavedCalls' = SavedCalls /\ type' = type
    BY <1>c, <2>1 DEF SavedCalls, type
  <2>4. /\ spent <= Credit + SavedCalls + Used /\ mem.ran = today.date /\ spent <= Credit + mem.calls
        /\ today.date # Never
    BY <2>1 DEF BudgetInv
  <2>5. Used \in Nat
    BY <2>1, UsedBound
  <2>6. spent' <= Credit + SavedCalls + Used' /\ spent' <= Credit + mem'.calls
    <3>1. \A a, b, c, d, u, v \in Nat :
             /\ a <= b + c + u /\ v >= u + 1 => a + 1 <= b + c + v
             /\ a <= b + d => a + 1 <= b + (d + 1)
      OBVIOUS
    <3>2. spent \in Nat /\ Credit \in Nat /\ SavedCalls \in Nat /\ mem.calls \in Nat
      BY <1>0
    <3>3. Used' \in Nat /\ Used' >= Used + 1
      BY <1>c
    <3>4. spent' <= Credit + SavedCalls + Used'
      BY <2>1, <2>4, <2>5, <3>1, <3>2, <3>3, Zenon
    <3>5. spent' <= Credit + mem'.calls
      BY <2>1, <2>2, <2>4, <2>5, <3>1, <3>2, Zenon
    <3>6. QED BY <3>4, <3>5
  <2>7. QED BY <1>c, <2>2, <2>3, <2>4, <2>6 DEF BudgetInv
<1>7. CASE Fails
  <2>1. Sent /\ try' = try + 1 /\ Trouble(TRUE) /\ UNCHANGED <<doing, at, replies, command>> /\ doing = "call"
    BY <1>7 DEF Fails, Sent
  <2>2. LET n == Requests(command, at[2]) + Len(replies) IN n \in Nat /\ Attempts * n \in Nat
    BY <2>1, UsedBound, Allowances, Products
  <2>3. Used' = Used + 1
    <3>1. try \in Nat
      BY DEF FundamentalsTypeOK
    <3>2. QED BY <2>1, <2>2, <3>1 DEF Used
  <2>4. Used \in Nat
    BY <2>1, UsedBound
  <2>5. Used' \in Nat /\ Used' >= Used + 1 /\ TRUE \in BOOLEAN
    BY <2>3, <2>4
  <2>6. Credit' = Credit /\ today'.date = today.date
    BY <1>t, <2>1, <2>5
  <2>7. Len(replies') < Needed(type)
    BY <2>1 DEF BudgetInv
  <2>8. doing' = "call" /\ at' = at
    BY <2>1
  <2>9. QED BY <1>c, <2>1, <2>5, <2>6, <2>7, <2>8
<1>8. ASSUME NEW period \in PeriodAges \cup {Never}, CacheHit(period) PROVE BudgetInv'
  <2>1. NextType /\ doing = "report" /\ UNCHANGED <<command, saved, garbled, today, spent>> /\ mem' = Note(File, period)
    BY <1>8 DEF CacheHit, Affordable
  <2>2. Credit' = Credit
    BY <2>1 DEF Credit
  <2>3. Used \in Nat /\ Used <= Attempts * Requests(command, at[2] + 1)
    BY <2>1, UsedBound
  <2>4. mem'.calls = mem.calls /\ mem'.ran = mem.ran
    <3>1. File \in Ages
      BY Place DEF File, FundamentalsTypeOK
    <3>2. QED BY <2>1, <3>1, NoteTypes
  <2>5. QED BY <1>n, <1>0, <2>1, <2>2, <2>3, <2>4
<1>9. ASSUME NEW a \in Replies, Answer(a) PROVE BudgetInv'
  <2>1. /\ Sent /\ Len(replies) < Needed(type) - 1 /\ replies' = Append(replies, a) /\ try' = 0
        /\ Trouble(a # "rows") /\ UNCHANGED <<doing, at, command>> /\ doing = "call"
    BY <1>9 DEF Answer, Sent
  <2>2. Len(replies') = Len(replies) + 1 /\ Len(replies) \in Nat
    BY <2>1 DEF FundamentalsTypeOK
  <2>3. Len(replies') < Needed(type)
    <3>1. Needed(type) \in Nat
      BY DEF Needed
    <3>2. QED BY <2>1, <2>2, <3>1
  <2>4. Requests(command, at[2]) \in Nat
    BY <1>q, RequestCount
  <2>5. Used' = Attempts * (Requests(command, at[2]) + Len(replies) + 1)
    <3>1. Used' = Attempts * (Requests(command, at[2]) + (Len(replies) + 1)) + 0
      BY <2>1, <2>2 DEF Used
    <3>2. Requests(command, at[2]) + (Len(replies) + 1) = Requests(command, at[2]) + Len(replies) + 1
      BY <2>2, <2>4
    <3>3. Attempts * (Requests(command, at[2]) + Len(replies) + 1) \in Nat
      BY <2>2, <2>4, Allowances, Products
    <3>4. QED BY <3>1, <3>2, <3>3
  <2>6. Used + 1 <= Used' /\ Used \in Nat /\ Used' \in Nat
    <3>1. Used' \in Nat
      BY <2>2, <2>4, <2>5, Allowances, Products
    <3>2. QED BY <2>1, <2>5, <3>1, UsedBound
  <2>7. (a # "rows") \in BOOLEAN
    OBVIOUS
  <2>8. Credit' = Credit /\ today'.date = today.date
    BY <1>t, <2>1, <2>7
  <2>9. Used' >= Used + 1
    BY <2>6
  <2>10. doing' = "call" /\ at' = at
    BY <2>1
  <2>11. QED BY <1>c, <2>1, <2>3, <2>6, <2>8, <2>9, <2>10
<1>10. ASSUME NEW a \in Replies, NEW period \in PeriodAges \cup {Never}, LastAnswer(a, period)
       PROVE  BudgetInv'
  <2>1. /\ NextType /\ doing = "call" /\ Remaining > 0 /\ Len(replies) = Needed(type) - 1
        /\ Trouble(a # "rows") /\ UNCHANGED <<command, saved, garbled>> /\ spent' = spent + 1
    BY <1>10 DEF LastAnswer
  <2>2. (a # "rows") \in BOOLEAN
    OBVIOUS
  <2>3. Credit' = Credit /\ today'.date = today.date
    BY <1>t, <2>1, <2>2
  <2>4. mem'.calls = mem.calls + 1 /\ mem'.ran = mem.ran
    <3>1. \/ mem' = [Note(0, period) EXCEPT !.calls = mem.calls + 1]
          \/ mem' = [mem EXCEPT !.calls = @ + 1]
      BY <1>10 DEF LastAnswer
    <3>2. CASE mem' = [Note(0, period) EXCEPT !.calls = mem.calls + 1]
      <4>1. Note(0, period) \in States /\ Note(0, period).ran = mem.ran
        BY Allowances, NoteTypes
      <4>2. QED BY <3>2, <4>1 DEF States
    <3>3. CASE mem' = [mem EXCEPT !.calls = @ + 1]
      BY <3>3 DEF FundamentalsTypeOK, States
    <3>4. QED BY <3>1, <3>2, <3>3
  <2>5. Used \in Nat /\ Used + 1 <= Attempts * Requests(command, at[2] + 1)
    <3> DEFINE n == Requests(command, at[2]) + Len(replies)
    <3>1. /\ Used \in Nat /\ Used + 1 <= Attempts * (n + 1)
          /\ Attempts * (n + 1) <= Attempts * Requests(command, at[2] + 1)
          /\ Attempts * Requests(command, at[2] + 1) \in Nat /\ n \in Nat
      BY <2>1, UsedBound
    <3>2. Attempts * (n + 1) \in Nat
      BY <3>1, Allowances, Products
    <3> HIDE DEF n
    <3>3. QED BY <3>1, <3>2
  <2>6. spent' - spent = 1 /\ mem'.calls - mem.calls = 1
    BY <1>0, <2>1, <2>4
  <2>7. Attempts * Requests(command, at[2] + 1) \in Nat
    BY <2>1, UsedBound
  <2>8. spent' - spent + Used <= Attempts * Requests(command, at[2] + 1)
    BY <2>5, <2>6, <2>7
  <2>9. QED BY <1>n, <2>1, <2>3, <2>4, <2>6, <2>8
(* After a save, or one that failed, the run goes on or is over. *)
<1>m. ASSUME NextSymbol, doing = "save", UNCHANGED <<command, request, spent>>, Credit' \in Nat, today'.date = today.date,
             spent <= Credit' + mem.calls, spent <= Credit' + SavedCalls'
      PROVE  BudgetInv'
  <2>1. replies' = <<>> /\ try' = 0 /\ mem.ran = today.date /\ today.date # Never /\ spent' \in Nat
    BY <1>m, <1>0 DEF BudgetInv
  <2>2. CASE ~stopped /\ at[1] < Len(command.symbols)
    <3>1. doing' = "report" /\ at' = <<at[1] + 1, 1>> /\ mem' = mem
      BY <1>m, <2>2 DEF NextSymbol
    <3>2. QED BY <1>f, <1>m, <2>1, <3>1
  <2>3. CASE ~(~stopped /\ at[1] < Len(command.symbols))
    <3>1. doing' = "idle"
      BY <1>m, <2>3 DEF NextSymbol, Down
    <3>2. QED BY <1>d, <1>m, <2>1, <3>1
  <2>4. QED BY <2>2, <2>3
<1>l. ASSUME today' = [today EXCEPT !.anew = @ + 1] PROVE Credit' = Credit + Limit /\ today'.date = today.date
  <2>1. /\ today'.anew = today.anew + 1 /\ today'.forgot = today.forgot /\ today.anew \in Nat /\ today.forgot \in Nat
        /\ today'.date = today.date
    BY <1>l DEF FundamentalsTypeOK, DayRecords
  <2>2. (today.anew + 1) * Limit = today.anew * Limit + Limit /\ today.anew * Limit \in Nat
    BY <1>0, <2>1, Products
  <2>3. QED BY <1>0, <2>1, <2>2 DEF Credit
<1>11. CASE Save
  <2>1. /\ NextSymbol /\ doing = "save" /\ UNCHANGED <<command, request, spent, today>>
        /\ saved' = mem /\ garbled' = FALSE
    BY <1>11 DEF Save
  <2>2. mem.ran = today.date /\ spent <= Credit + mem.calls
    BY <2>1 DEF BudgetInv
  <2>3. SavedCalls' = mem.calls /\ Credit' = Credit /\ today'.date = today.date
    BY <2>1, <2>2 DEF SavedCalls, Credit
  <2>4. QED BY <1>0, <1>m, <2>1, <2>2, <2>3
<1>12. CASE SaveFails
  <2>1. /\ NextSymbol /\ doing = "save" /\ UNCHANGED <<command, request, spent>>
        /\ today' = [today EXCEPT !.anew = @ + 1]
    BY <1>12 DEF SaveFails
  <2>2. spent <= Credit + mem.calls
    BY <2>1 DEF BudgetInv
  <2>3. Credit' = Credit + Limit /\ today'.date = today.date
    BY <1>l, <2>1
  <2>4. Credit' \in Nat /\ spent <= Credit' + mem.calls /\ spent <= Credit' + SavedCalls'
    <3>1. \A b, l, m, n, s \in Nat : s <= b + m /\ m <= l => s <= b + l + m /\ s <= b + l + n /\ b + l \in Nat
      OBVIOUS
    <3>2. mem.calls \in Nat /\ mem.calls <= Limit /\ SavedCalls' \in Nat
      BY <1>0, <1>p
    <3>3. QED BY <1>0, <2>2, <2>3, <3>1, <3>2
  <2>5. QED BY <1>m, <2>1, <2>3, <2>4
<1>x. ASSUME doing # "idle" PROVE spent <= Credit + SavedCalls + SymbolCalls /\ spent <= Credit + Limit
  <2>1. spent <= Credit + mem.calls
    BY <1>x DEF BudgetInv
  <2>2. spent <= Credit + SavedCalls + Most
    <3>1. CASE doing = "save"
      BY <3>1 DEF BudgetInv
    <3>2. CASE doing \in {"report", "call"}
      <4>1. Used \in Nat /\ Used <= Most /\ spent <= Credit + SavedCalls + Used
        BY <3>2, UsedBound DEF BudgetInv
      <4>2. QED BY <1>0, <4>1
    <3>3. QED BY <1>x, <3>1, <3>2 DEF FundamentalsTypeOK
  <2>3. QED BY <1>0, <2>1, <2>2
(* What a run that dies has not saved. *)
<1>k. ASSUME doing # "idle", today' = [today EXCEPT !.forgot = @ + SymbolCalls], Down, replies' = <<>>, try' = 0,
             UNCHANGED <<saved, garbled, spent>>
      PROVE  BudgetInv'
  <2>1. /\ today'.anew = today.anew /\ today'.forgot = today.forgot + SymbolCalls /\ today.forgot \in Nat
        /\ today.anew \in Nat /\ today'.date = today.date
    BY <1>k DEF FundamentalsTypeOK, DayRecords
  <2>2. Credit' = Credit + SymbolCalls
    <3>1. today.anew * Limit \in Nat /\ SymbolCalls \in Nat
      BY <1>0, <2>1, Products
    <3>2. QED BY <2>1, <3>1 DEF Credit
  <2>3. SavedCalls' = SavedCalls /\ doing' = "idle"
    BY <1>k, <2>1 DEF SavedCalls, Down
  <2>4. spent' <= Credit' + SavedCalls'
    BY <1>0, <1>k, <1>x, <2>2, <2>3
  <2>5. today'.date # Never
    BY <1>k, <2>1 DEF BudgetInv
  <2>6. QED BY <1>d, <1>k, <2>3, <2>4, <2>5
<1>13. CASE Crash
  BY <1>13, <1>k DEF Crash
<1>14. CASE CrashInSave
  <2>1. /\ doing = "save" /\ doing' = "idle" /\ today' = [today EXCEPT !.anew = @ + 1]
        /\ UNCHANGED <<request, spent>>
    BY <1>14 DEF CrashInSave, Down
  <2>2. spent' <= Credit' + SavedCalls'
    BY <1>0, <1>l, <1>p, <1>x, <2>1
  <2>3. today'.date # Never
    BY <1>l, <2>1 DEF BudgetInv
  <2>4. QED BY <1>d, <2>1, <2>2, <2>3 DEF BudgetInv
<1>15. CASE CrashInCache
  BY <1>15, <1>k DEF CrashInCache
<1>16. CASE UNCHANGED fundamentalsVars
  <2>1. UNCHANGED <<doing, command, at, mem, saved, garbled, replies, try, today, spent>>
    BY <1>16 DEF fundamentalsVars
  <2>2. /\ SavedCalls' = SavedCalls /\ Credit' = Credit /\ Used' = Used /\ Most' = Most /\ type' = type
    BY <2>1 DEF SavedCalls, Credit, Used, Most, type
  <2>3. QED BY <2>1, <2>2 DEF BudgetInv
<1>17. QED
  BY <1>1, <1>2, <1>3, <1>4, <1>5, <1>6, <1>7, <1>8, <1>9, <1>10, <1>11, <1>12, <1>13, <1>14, <1>15, <1>16
  DEF FundamentalsNext, Running
(* A report is fetched again only when it is forced or its cache file is gone. *)
OnceInv ==
    /\ doing # "idle" /\ command.force => today.forced
    /\ ~today.forced => \A r \in Reports, k \in TradeDates :
                            fetched[r][k] <= 1 /\ (fetched[r][k] = 1 => cache[r][k] = 0)
    /\ ~today.forced /\ doing = "call" => File = Never

LEMMA OnceStep ==
  ASSUME FundamentalsTypeOK, FundamentalsTypeOK', OnceInv, [FundamentalsNext]_fundamentalsVars
  PROVE  OnceInv'
<1> USE DEF disk, request, history, bounds
<1>t. \A q \in BOOLEAN : Trouble(q) => today'.forced = today.forced
  BY DEF Trouble, FundamentalsTypeOK, DayRecords
<1>u. ASSUME doing # "idle", doing' # "call", UNCHANGED <<command, cache, fetched>>, today'.forced = today.forced
      PROVE  OnceInv'
  BY <1>u DEF OnceInv
<1>v. ASSUME doing' = "idle", UNCHANGED <<cache, fetched>>, today'.forced = today.forced PROVE OnceInv'
  BY <1>v DEF OnceInv
<1>n. NextType => doing' # "call"
  BY DEF NextType
<1>1. CASE NewDay
  <2>1. doing' = "idle" /\ fetched' = Unfetched
    BY <1>1 DEF NewDay
  <2>2. QED BY <2>1 DEF OnceInv, Unfetched
<1>2. ASSUME NEW r \in Commands, StartRun(r) PROVE OnceInv'
  <2>1. doing' = "report" /\ command' = r /\ UNCHANGED <<cache, fetched>>
    BY <1>2 DEF StartRun
  <2>2. today'.forced = (today.forced \/ r.force)
    BY <1>2 DEF StartRun, FundamentalsTypeOK, DayRecords
  <2>3. QED BY <2>1, <2>2 DEF OnceInv
<1>3. CASE NotDue
  BY <1>3, <1>n, <1>u DEF NotDue
<1>4. CASE Unaffordable
  BY <1>4, <1>u DEF Unaffordable, StopEarly
<1>5. CASE Ask
  <2>1. doing = "report" /\ doing' = "call" /\ ~CachedToday /\ UNCHANGED <<command, at, cache, fetched, today>>
    BY <1>5 DEF Ask, Affordable
  <2>2. this' = this
    BY <2>1 DEF this, symbol, type
  <2>3. command.force \/ File = Never
    BY <2>1 DEF CachedToday
  <2>4. QED BY <2>1, <2>2, <2>3 DEF OnceInv, File
<1>6. CASE Exhausted
  BY <1>6, <1>u DEF Exhausted, StopEarly
<1>c. ASSUME doing = "call", doing' = "call", UNCHANGED <<command, at, cache, fetched>>, today'.forced = today.forced
      PROVE  OnceInv'
  <2>1. this' = this
    BY <1>c DEF this, symbol, type
  <2>2. QED BY <1>c, <2>1 DEF OnceInv, File
<1>7. CASE Fails
  <2>1. TRUE \in BOOLEAN /\ Trouble(TRUE) /\ doing = "call" /\ doing' = "call" /\ UNCHANGED <<command, at, cache, fetched>>
    BY <1>7 DEF Fails, Sent
  <2>2. QED BY <1>c, <1>t, <2>1
<1>8. ASSUME NEW period \in PeriodAges \cup {Never}, CacheHit(period) PROVE OnceInv'
  BY <1>8, <1>n, <1>u DEF CacheHit, Affordable
<1>9. ASSUME NEW a \in Replies, Answer(a) PROVE OnceInv'
  <2>1. (a # "rows") \in BOOLEAN
    OBVIOUS
  <2>2. Trouble(a # "rows") /\ doing = "call" /\ doing' = "call" /\ UNCHANGED <<command, at, cache, fetched>>
    BY <1>9 DEF Answer, Sent
  <2>3. QED BY <1>c, <1>t, <2>1, <2>2
<1>10. ASSUME NEW a \in Replies, NEW period \in PeriodAges \cup {Never}, LastAnswer(a, period)
       PROVE  OnceInv'
  <2>1. (a # "rows") \in BOOLEAN
    OBVIOUS
  <2>2. Trouble(a # "rows") /\ doing = "call" /\ doing' # "call" /\ command' = command
    BY <1>10, <1>n DEF LastAnswer
  <2>3. today'.forced = today.forced
    BY <1>t, <2>1, <2>2
  <2>4. CASE UNCHANGED <<cache, fetched>>
    BY <1>u, <2>2, <2>3, <2>4
  <2>5. CASE cache' = CachePayload /\ fetched' = [fetched EXCEPT ![this][command.ago] = @ + 1]
    <3>1. this \in Reports /\ command.ago \in TradeDates
      BY Place
    <3>2. ASSUME ~today.forced, NEW r \in Reports, NEW k \in TradeDates
          PROVE  fetched'[r][k] <= 1 /\ (fetched'[r][k] = 1 => cache'[r][k] = 0)
      <4>1. fetched \in [Reports -> [TradeDates -> Nat]] /\ cache \in [Reports -> [TradeDates -> Ages]]
        BY DEF FundamentalsTypeOK
      <4>2. fetched[r][k] <= 1 /\ (fetched[r][k] = 1 => cache[r][k] = 0)
        BY <3>2 DEF OnceInv
      <4>3. CASE r = this /\ k = command.ago
        <5>1. fetched[this][command.ago] # 1
          BY <2>2, <3>2, <4>2, <4>3 DEF OnceInv, File, Never
        <5>2. fetched[this][command.ago] = 0
          <6>1. fetched[this][command.ago] \in Nat
            BY <3>1, <4>1
          <6>2. QED BY <4>2, <4>3, <5>1, <6>1
        <5>3. /\ fetched'[this][command.ago] = fetched[this][command.ago] + 1
              /\ cache'[this][command.ago] = 0
          BY <2>5, <3>1, <4>1 DEF CachePayload
        <5>4. QED BY <4>3, <5>2, <5>3
      <4>4. CASE ~(r = this /\ k = command.ago)
        <5>1. fetched'[r][k] = fetched[r][k] /\ cache'[r][k] = cache[r][k]
          BY <2>5, <3>1, <4>1, <4>4 DEF CachePayload
        <5>2. QED BY <4>2, <5>1
      <4>5. QED BY <4>3, <4>4
    <3>3. QED BY <2>2, <2>3, <3>2 DEF OnceInv
  <2>6. QED BY <1>10, <2>4, <2>5 DEF LastAnswer
<1>s. NextSymbol => doing' \in {"report", "idle"}
  BY DEF NextSymbol, Down
<1>11. CASE Save
  BY <1>11, <1>s, <1>u DEF Save
<1>12. CASE SaveFails
  <2>1. today'.forced = today.forced
    BY <1>12 DEF SaveFails, FundamentalsTypeOK, DayRecords
  <2>2. QED BY <1>12, <1>s, <1>u, <2>1 DEF SaveFails
<1>13. CASE Crash
  <2>1. today'.forced = today.forced
    BY <1>13 DEF Crash, FundamentalsTypeOK, DayRecords
  <2>2. QED BY <1>13, <1>v, <2>1 DEF Crash, Down
<1>14. CASE CrashInSave
  <2>1. today'.forced = today.forced
    BY <1>14 DEF CrashInSave, FundamentalsTypeOK, DayRecords
  <2>2. QED BY <1>14, <1>v, <2>1 DEF CrashInSave, Down
<1>15. CASE CrashInCache
  <2>1. today'.forced = today.forced /\ doing' = "idle" /\ doing = "call" /\ File # Never
    BY <1>15 DEF CrashInCache, Down, FundamentalsTypeOK, DayRecords
  <2>2. today.forced
    BY <2>1 DEF OnceInv
  <2>3. QED BY <2>1, <2>2 DEF OnceInv
<1>16. CASE UNCHANGED fundamentalsVars
  BY <1>16 DEF fundamentalsVars, OnceInv, File, this, symbol, type
<1>17. QED
  BY <1>1, <1>2, <1>3, <1>4, <1>5, <1>6, <1>7, <1>8, <1>9, <1>10, <1>11, <1>12, <1>13, <1>14, <1>15, <1>16
  DEF FundamentalsNext, Running

LEMMA FundamentalsStart == FundamentalsInit => FundamentalsTypeOK /\ BudgetInv /\ OnceInv
<1> SUFFICES ASSUME FundamentalsInit PROVE FundamentalsTypeOK /\ BudgetInv /\ OnceInv
  OBVIOUS
<1> USE DEF FundamentalsInit
<1>1. command \in Commands /\ 1 \in 1 .. Len(command.symbols) /\ 1 \in 1 .. Len(command.types)
  BY CommandParts
<1>2. FundamentalsTypeOK
  <2>1. <<>> \in Seq(Replies) /\ Len(<<>>) = 0 /\ 0 \in 0 .. Attempts - 1
    BY Allowances
  <2>2. cache \in [Reports -> [TradeDates -> Ages]] /\ fetched \in [Reports -> [TradeDates -> Nat]]
    BY Allowances DEF Unfetched
  <2>3. at \in (1 .. Len(command.symbols)) \X (1 .. Len(command.types))
    BY <1>1
  <2>4. today \in DayRecords
    BY DEF Today, DayRecords
  <2>5. special \in 0 .. MaxSpecial /\ faults \in 0 .. MaxFaults /\ spent \in Nat
    BY Allowances
  <2>6. mem \in States /\ saved \in States /\ {stopped, garbled} \subseteq BOOLEAN
    BY StateTypes
  <2>7. Len(replies) <= 2 /\ replies \in Seq(Replies) /\ try \in 0 .. Attempts - 1
    BY <2>1
  <2>8. doing \in {"idle", "report", "call", "save"}
    OBVIOUS
  <2>9. QED BY <1>1, <2>2, <2>3, <2>4, <2>5, <2>6, <2>7, <2>8 DEF FundamentalsTypeOK
<1>3. BudgetInv
  <2>1. SavedCalls = 0 /\ Credit = 0 + 0 * Limit
    BY DEF SavedCalls, Credit, DefaultState, Today
  <2>2. Credit = 0
    BY <2>1, Allowances
  <2>3. QED BY <2>1, <2>2 DEF BudgetInv
<1>4. OnceInv
  BY DEF OnceInv, Today, Unfetched
<1>5. QED BY <1>2, <1>3, <1>4

LEMMA FundamentalsInductive == FundamentalsSpec => [](FundamentalsTypeOK /\ BudgetInv /\ OnceInv)
<1>1. ASSUME FundamentalsTypeOK, BudgetInv, OnceInv, [FundamentalsNext]_fundamentalsVars
      PROVE  FundamentalsTypeOK' /\ BudgetInv' /\ OnceInv'
  <2>1. FundamentalsTypeOK'
    BY <1>1, FundamentalsTypeStep
  <2>2. BudgetInv'
    BY <1>1, <2>1, BudgetStep
  <2>3. OnceInv'
    BY <1>1, <2>1, OnceStep
  <2>4. QED BY <2>1, <2>2, <2>3
<1>2. QED BY <1>1, FundamentalsStart, PTL DEF FundamentalsSpec

THEOREM FundamentalsTypeCorrect == FundamentalsSpec => []FundamentalsTypeOK
  BY FundamentalsInductive, PTL

(* However often the command is repeated, killed or unable to save, the    *)
(* calls of a day stay within the limit, what crashes forgot, and one more *)
(* limit for each lost save and each run for another trade date than the   *)
(* last one's: _reset_daily_state counts by trade date, not by day.        *)
THEOREM BudgetHolds == FundamentalsSpec => []BudgetKept
<1>1. FundamentalsTypeOK /\ BudgetInv => BudgetKept
  <2> SUFFICES ASSUME FundamentalsTypeOK, BudgetInv PROVE BudgetKept
    OBVIOUS
  <2>1. /\ Credit \in Nat /\ SavedCalls \in 0 .. Limit /\ mem.calls \in 0 .. Limit /\ spent \in Nat /\ Limit \in Nat
    BY Amounts, Allowances
  <2>2. spent <= Credit + SavedCalls \/ spent <= Credit + mem.calls
    BY DEF BudgetInv
  <2>3. spent <= Credit + Limit
    BY <2>1, <2>2
  <2>4. today.forgot \in Nat /\ today.anew * Limit \in Nat
    BY <2>1, Products DEF FundamentalsTypeOK, DayRecords
  <2>5. QED BY <2>1, <2>3, <2>4 DEF BudgetKept, Credit
<1>2. QED BY <1>1, FundamentalsInductive, PTL

(* A report is fetched once a day for a trade date, whatever crashes in     *)
(* between leave of the cache and of the state file, and in whatever order  *)
(* the trade dates come.                                                    *)
THEOREM FetchedOnce == FundamentalsSpec => []OncePerDay
<1>1. OnceInv => OncePerDay
  BY DEF OnceInv, OncePerDay
<1>2. QED BY <1>1, FundamentalsInductive, PTL
===============================================================================
