--------------------------- MODULE SnapshotCollect ---------------------------
(***************************************************************************)
(* One capture of a symbol: SnapshotRunner._capture_snapshot_rows, the     *)
(* fetchers of ib/snapshot.py it calls exchange by exchange, and the token *)
(* bucket they share.                                                      *)
(*                                                                         *)
(* The tasks of a fetch run on one event loop, at most Concurrency behind  *)
(* the semaphore.  acquire_token sleeps on that loop: while a task waits   *)
(* for its token no other task runs and no market data is handled, but     *)
(* time passes and so do the timeouts.  What a ticker has is abstracted to *)
(* nothing, a price, or a price and greeks.                                *)
(***************************************************************************)
EXTENDS Integers, Sequences, FiniteSets

CONSTANTS Listed,        \* the contracts of the symbol, in their order
          ExchangeOf,    \* contract -> exchange
          DistanceOf,    \* contract -> distance of its strike from the reference price
          Preferences,   \* _preferred_exchanges(), without the closing "ANY"
          StrikesPerSide,
          Modes,         \* fetch modes a run may be configured with
          Concurrency, BatchSize,
          Timeout,       \* subscription_timeout, in units of time
          Capacity,      \* tokens the bucket holds
          Refill         \* units of time it takes to refill one token

Contracts == {Listed[i] : i \in DOMAIN Listed}
Nobody    == "nobody"

ASSUME CollectAssumption ==
    /\ \A i, j \in DOMAIN Listed : Listed[i] = Listed[j] => i = j
    /\ Nobody \notin Contracts
    /\ Preferences \in Seq(STRING)
    /\ Modes \subseteq {"streaming", "snapshot", "reqtickers"}
    /\ DistanceOf \in [Contracts -> Nat]
    /\ {StrikesPerSide, Timeout} \subseteq Nat
    /\ {Concurrency, BatchSize, Capacity, Refill} \subseteq Nat \ {0}

VARIABLES mode, requireGreeks,
          known,    \* contracts the gateway can qualify (mode reqtickers asks)
          phase, rank,
          asked,    \* contracts of the present fetch
          todo,     \* those no task or batch has begun
          holder,   \* the contract whose task is inside acquire_token
          waiting,  \* contracts whose data is waited for
          waited,   \* contract -> units of time waited, up to Timeout
          level,    \* contract -> what its ticker has
          done,     \* contracts whose done event is set (mode snapshot)
          lines,    \* open market-data lines
          stuck,    \* history: lines whose cancelMktData raised
          rows,     \* contract -> rows of the result
          tokens,   \* level of the bucket at last_ts, in units of time
          elapsed,  \* time since last_ts, as far as it matters
          load      \* history: a leaky bucket of the requests made

config == <<mode, requireGreeks, known>>
fetch  == <<phase, rank, asked, todo>>
bucket == <<tokens, elapsed, load>>
market == <<waiting, waited, level, done, lines, stuck>>
vars   == <<config, fetch, holder, market, rows, bucket>>

Levels == {"none", "price", "full"}
Full   == Capacity * Refill
Least(a, b) == IF a <= b THEN a ELSE b

Ready(l) == l = "full" \/ (l = "price" /\ ~requireGreeks)

(* _build_row, which calls a ticker that is not complete a timeout whatever *)
(* time has passed, and _build_error_row.                                   *)
DataRow(l)  == [error |-> IF Ready(l) THEN "" ELSE "timeout", had |-> l]
ErrorRow(e) == [error |-> e, had |-> "none"]
Errors      == {"subscription_failed", "timeout", "unexpected_error", "batch_error"}

TypeOK ==
    /\ mode \in Modes /\ requireGreeks \in BOOLEAN /\ known \subseteq Contracts
    /\ phase \in {"pick", "qualify", "collect", "done", "raised"}
    /\ rank \in 1 .. Len(Preferences) + 2
    /\ asked \subseteq Contracts
    /\ todo \subseteq asked
    /\ holder \in asked \cup {Nobody}
    /\ waiting \subseteq asked /\ done \subseteq waiting
    /\ mode # "reqtickers" => waiting \subseteq lines
    /\ lines \subseteq asked /\ stuck \subseteq lines
    /\ waited \in [Contracts -> 0 .. Timeout]
    /\ level \in [Contracts -> Levels]
    /\ \A c \in Contracts : \A i \in DOMAIN rows[c] :
          rows[c][i] \in {ErrorRow(e) : e \in Errors} \cup {DataRow(l) : l \in Levels}
    /\ tokens \in 0 .. Full /\ elapsed \in 0 .. Full /\ load \in Nat

(* The bucket outlives the capture, so it may have been used before. *)
Init ==
    /\ mode \in Modes /\ requireGreeks \in BOOLEAN
    /\ known \in IF mode = "reqtickers" THEN SUBSET Contracts ELSE {Contracts}
    /\ phase = "pick" /\ rank = 1 /\ asked = {} /\ todo = {}
    /\ holder = Nobody /\ waiting = {} /\ done = {} /\ lines = {} /\ stuck = {}
    /\ waited = [c \in Contracts |-> 0]
    /\ level = [c \in Contracts |-> "none"]
    /\ rows = [c \in Contracts |-> <<>>]
    /\ tokens \in {0, Full} /\ elapsed = 0 /\ load = Full - tokens
-------------------------------------------------------------------------------
(* _filter_by_exchange: the last preference is "ANY". *)
OnExchange(r) == {c \in Contracts : r > Len(Preferences) \/ ExchangeOf[c] = Preferences[r]}

(* _limit_contracts: every contract of the nearest StrikesPerSide strikes   *)
(* (no two strikes lie equally far); 0 means no limit.                      *)
Limited(S) ==
    {c \in S : StrikesPerSide = 0
               \/ Cardinality({DistanceOf[d] : d \in {d \in S : DistanceOf[d] < DistanceOf[c]}})
                  < StrikesPerSide}

(* The first n of a set in the order of the list. *)
Before(c, d)  == \E i, j \in DOMAIN Listed : i < j /\ Listed[i] = c /\ Listed[j] = d
Leading(n, S) == {c \in S : Cardinality({d \in S : Before(d, c)}) < n}

(* The loop over the preferences: an exchange without contracts is skipped, *)
(* after the last one the result is empty.                                  *)
Pick ==
    /\ phase = "pick" /\ rank <= Len(Preferences) + 1
    /\ LET S == Limited(OnExchange(rank))
       IN  IF S = {}
           THEN rank' = rank + 1 /\ UNCHANGED <<phase, asked, todo>>
           ELSE /\ asked' = S /\ todo' = S
                /\ phase' = IF mode = "reqtickers" THEN "qualify" ELSE "collect"
                /\ UNCHANGED rank
    /\ UNCHANGED <<config, holder, market, rows, bucket>>

NothingFound ==
    /\ phase = "pick" /\ rank > Len(Preferences) + 1
    /\ phase' = "done"
    /\ UNCHANGED <<config, rank, asked, todo, holder, market, rows, bucket>>

(* qualifyContractsAsync leaves out what the gateway does not know. *)
Qualify ==
    /\ phase = "qualify" /\ phase' = "collect"
    /\ todo' = asked \cap known
    /\ UNCHANGED <<config, rank, asked, holder, market, rows, bucket>>

Gathered == phase = "collect" /\ todo = {} /\ holder = Nobody /\ waiting = {}

(* Variant with a seeded bug: a fetch without a single good row is followed *)
(* by one on the next exchange.                                             *)
ReturnGoodRows ==
    /\ Gathered
    /\ IF \E c \in asked : rows[c] # <<>> /\ rows[c][1].error = ""
       THEN phase' = "done" /\ UNCHANGED rank
       ELSE phase' = "pick" /\ rank' = rank + 1
    /\ UNCHANGED <<config, asked, todo, holder, market, rows, bucket>>

(* The fetcher returns: any row ends the capture, also an error row. *)
Return ==
    /\ Gathered
    /\ IF \E c \in asked : rows[c] # <<>>
       THEN phase' = "done" /\ UNCHANGED rank
       ELSE phase' = "pick" /\ rank' = rank + 1
    /\ UNCHANGED <<config, asked, todo, holder, market, rows, bucket>>
-------------------------------------------------------------------------------
(* TokenBucket._refill. *)
Refilled == Least(Full, tokens + elapsed)

(* Variant with a seeded bug: the time since the last refill is kept when   *)
(* a token is taken, so that it is credited again.                          *)
TakeTokenTwice ==
    /\ Refilled >= Refill
    /\ tokens' = Refilled - Refill
    /\ UNCHANGED elapsed

(* try_acquire of one token, when it succeeds. *)
TakeToken ==
    /\ Refilled >= Refill
    /\ tokens' = Refilled - Refill /\ elapsed' = 0

(* try_acquire that fails; acquire sleeps and tries again. *)
NoToken ==
    /\ holder # Nobody /\ Refilled < Refill /\ elapsed > 0
    /\ tokens' = Refilled /\ elapsed' = 0
    /\ UNCHANGED <<config, fetch, holder, market, rows, load>>

(* Time passes for the waiting tasks, whether the loop is blocked or not. *)
Tick ==
    /\ phase = "collect" /\ (holder # Nobody \/ waiting # {})
    /\ waited' = [c \in Contracts |-> IF c \in waiting THEN Least(Timeout, waited[c] + 1)
                                                       ELSE waited[c]]
    /\ elapsed' = Least(Full, elapsed + 1)
    /\ load' = IF load = 0 THEN 0 ELSE load - 1
    /\ UNCHANGED <<config, fetch, holder, waiting, level, done, lines, stuck, rows, tokens>>
-------------------------------------------------------------------------------
(* Variant with a seeded bug: nothing counts the tasks under way. *)
BeginAll ==
    /\ phase = "collect" /\ mode # "reqtickers"
    /\ holder = Nobody
    /\ \E c \in Leading(1, todo) : holder' = c /\ todo' = todo \ {c}
    /\ UNCHANGED <<config, phase, rank, asked, market, rows, bucket>>

(* The semaphore lets the next task through, first come first served. *)
Begin ==
    /\ phase = "collect" /\ mode # "reqtickers"
    /\ holder = Nobody /\ Cardinality(waiting) < Concurrency
    /\ \E c \in Leading(1, todo) : holder' = c /\ todo' = todo \ {c}
    /\ UNCHANGED <<config, phase, rank, asked, market, rows, bucket>>

(* With the token: reqMktData, with the wait for data begun in the same     *)
(* turn of the loop, or an error row when it raises.                        *)
Request ==
    /\ holder # Nobody /\ mode # "reqtickers" /\ TakeToken
    /\ load' = load + Refill
    /\ \/ /\ lines' = lines \cup {holder} /\ waiting' = waiting \cup {holder}
          /\ waited' = [waited EXCEPT ![holder] = 0]
          /\ UNCHANGED rows
       \/ /\ rows' = [rows EXCEPT ![holder] = Append(@, ErrorRow("subscription_failed"))]
          /\ UNCHANGED <<lines, waiting, waited>>
    /\ holder' = Nobody
    /\ UNCHANGED <<config, fetch, level, done, stuck>>

(* An update of a ticker; in mode snapshot on_update may set the event.     *)
(* A computation without greeks replaces one that had them.                 *)
Deliver(c, l) ==
    /\ holder = Nobody /\ c \in waiting /\ mode # "reqtickers"
    /\ level' = [level EXCEPT ![c] = l]
    /\ done' = IF mode = "snapshot" /\ Ready(l) THEN done \cup {c} ELSE done
    /\ UNCHANGED <<config, fetch, holder, waiting, waited, lines, stuck, rows, bucket>>

(* The task of c is over with the given row; cancelMktData worked or not. *)
Leaves(c, row, cancelled) ==
    /\ rows' = [rows EXCEPT ![c] = Append(@, row)]
    /\ waiting' = waiting \ {c} /\ done' = done \ {c}
    /\ IF cancelled THEN lines' = lines \ {c} /\ UNCHANGED stuck
                    ELSE stuck' = stuck \cup {c} /\ UNCHANGED lines
    /\ UNCHANGED <<config, fetch, holder, waited, level, bucket>>

(* Variant with a seeded bug: only data ends the wait. *)
PollForever(c) ==
    /\ mode = "streaming" /\ holder = Nobody /\ c \in waiting /\ Ready(level[c])
    /\ \E cancelled \in BOOLEAN : Leaves(c, DataRow(level[c]), cancelled)

(* A poll that ends the wait of streaming mode: the data is there, or the   *)
(* time is over and a last look decides.  Whatever cancelMktData raises is  *)
(* swallowed.                                                               *)
Poll(c) ==
    /\ mode = "streaming" /\ holder = Nobody /\ c \in waiting
    /\ Ready(level[c]) \/ waited[c] = Timeout
    /\ \E cancelled \in BOOLEAN : Leaves(c, DataRow(level[c]), cancelled)

(* Mode snapshot: cancelMktData stands in a finally, and what it raises     *)
(* replaces the row.                                                        *)
CancelThen(c, row) ==
    \/ Leaves(c, row, TRUE)
    \/ Leaves(c, ErrorRow("unexpected_error"), FALSE)

(* wait_for returns; the event stays set when the ticker loses its greeks. *)
Woken(c) ==
    /\ mode = "snapshot" /\ holder = Nobody /\ c \in done
    /\ CancelThen(c, DataRow(level[c]))

(* wait_for times out, perhaps together with the event. *)
TimedOut(c) ==
    /\ mode = "snapshot" /\ holder = Nobody /\ c \in waiting /\ waited[c] = Timeout
    /\ CancelThen(c, ErrorRow("timeout"))
-------------------------------------------------------------------------------
(* Mode reqtickers: one batch after the other, one token each. *)
BeginBatch ==
    /\ phase = "collect" /\ mode = "reqtickers"
    /\ holder = Nobody /\ waiting = {}
    /\ holder' \in Leading(1, todo)
    /\ UNCHANGED <<config, fetch, market, rows, bucket>>

(* Variant with a seeded bug: a last batch that is not full is left out. *)
RequestFullBatch ==
    /\ holder # Nobody /\ mode = "reqtickers" /\ TakeToken
    /\ load' = load + Refill
    /\ waiting' = IF Cardinality(todo) < BatchSize THEN {} ELSE Leading(BatchSize, todo)
    /\ todo' = todo \ Leading(BatchSize, todo)
    /\ holder' = Nobody
    /\ UNCHANGED <<config, phase, rank, asked, waited, level, done, lines, stuck, rows>>

RequestBatch ==
    /\ holder # Nobody /\ mode = "reqtickers" /\ TakeToken
    /\ load' = load + Refill
    /\ waiting' = Leading(BatchSize, todo) /\ todo' = todo \ waiting'
    /\ holder' = Nobody
    /\ UNCHANGED <<config, phase, rank, asked, waited, level, done, lines, stuck, rows>>

(* reqTickersAsync returns a ticker for every contract, complete or not, or *)
(* raises for the batch.                                                    *)
BatchEnds ==
    /\ mode = "reqtickers" /\ holder = Nobody /\ waiting # {}
    /\ \E had \in [waiting -> Levels], ok \in BOOLEAN :
          /\ level' = [c \in Contracts |-> IF c \in waiting /\ ok THEN had[c] ELSE level[c]]
          /\ rows' = [c \in Contracts |->
                        IF c \notin waiting THEN rows[c]
                        ELSE Append(rows[c], IF ok THEN DataRow(had[c]) ELSE ErrorRow("batch_error"))]
    /\ waiting' = {}
    /\ UNCHANGED <<config, fetch, holder, waited, done, lines, stuck, bucket>>

(* ib.run fails as a whole: the tasks are cancelled, each tries to cancel   *)
(* its line, and the caller gets a RuntimeError in place of the rows.       *)
Collapse ==
    /\ phase \in {"qualify", "collect"} /\ holder = Nobody
    /\ phase' = "raised" /\ waiting' = {} /\ done' = {}
    /\ \E S \in SUBSET (waiting \cap lines) :
          stuck' = stuck \cup S /\ lines' = lines \ (waiting \ S)
    /\ rows' = [c \in Contracts |-> <<>>] /\ level' = [c \in Contracts |-> "none"]
    /\ waited' = [c \in Contracts |-> 0] /\ todo' = {}
    /\ UNCHANGED <<config, rank, asked, holder, bucket>>
-------------------------------------------------------------------------------
Answer(c) == Poll(c) \/ Woken(c) \/ TimedOut(c)

Next == \/ Pick \/ NothingFound \/ Qualify \/ Return
        \/ NoToken \/ Tick \/ Begin \/ Request
        \/ \E c \in Contracts : Answer(c) \/ \E l \in Levels : Deliver(c, l)
        \/ BeginBatch \/ RequestBatch \/ BatchEnds \/ Collapse

Spec == Init /\ [][Next]_vars

(* Time passes, the loop gets to every task that can go on, and the calls   *)
(* that are awaited return.                                                 *)
FairSpec == /\ Spec
            /\ WF_vars(Tick) /\ WF_vars(Pick \/ NothingFound \/ Qualify \/ Return)
            /\ WF_vars(Begin \/ Request \/ BeginBatch \/ RequestBatch) /\ WF_vars(BatchEnds)
            /\ \A c \in Contracts : WF_vars(Answer(c))
-------------------------------------------------------------------------------
(* Every contract a fetch was asked for has one row in its result, whatever *)
(* failed or timed out; mode reqtickers leaves out those the gateway does   *)
(* not know.                                                                *)
AnsweredOnce ==
    phase = "done" =>
        \A c \in Contracts :
            Len(rows[c]) = IF c \in asked /\ (mode = "reqtickers" => c \in known) THEN 1 ELSE 0

(* At most Concurrency lines are open besides those whose cancelMktData     *)
(* raised, and when the capture is over, in whatever way, none is.          *)
LinesReturned ==
    /\ Cardinality(lines \ stuck) <= Concurrency
    /\ phase \in {"done", "raised"} => lines = stuck

(* The rows are those of one exchange, the first of the preferences on      *)
(* which the gateway knows a contract within the limit of strikes, and they *)
(* are all of its contracts.  Contracts that fail or time out do not send   *)
(* the capture on to the next exchange, and it comes back empty only when   *)
(* every exchange and the closing "ANY" were tried.                         *)
Usable(r) == {c \in Limited(OnExchange(r)) : mode = "reqtickers" => c \in known}
FirstUsableExchange ==
    phase = "done" =>
        \A c \in Contracts :
            rows[c] # <<>> <=>
                \E r \in 1 .. Len(Preferences) + 1 :
                    c \in Usable(r) /\ \A q \in 1 .. r - 1 : Usable(q) = {}

(* Over any span of time there are no more requests than Capacity and what  *)
(* is refilled in the span, although the bucket is only brought up to date  *)
(* when someone asks for a token.                                           *)
Pacing == load <= Full

(* The capture ends, with rows, without, or with an exception. *)
CollectEnds == <>(phase \in {"done", "raised"})
===============================================================================
