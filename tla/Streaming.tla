------------------------------ MODULE Streaming ------------------------------
(***************************************************************************)
(* StreamingRunner.run (streaming/runner.py) for one underlying.  It keeps *)
(* market-data lines open for a window of strikes around the spot, moves   *)
(* the window when the spot has moved far enough, and buffers the rows the *)
(* event handlers produce until a flush writes them.                       *)
(*                                                                         *)
(* One thread does all of it: the handlers run inside the calls that turn  *)
(* the event loop, ib.sleep and ib.qualifyContracts.  A line is abstracted *)
(* to its strike (every expiry and right repeats it), a row to its number  *)
(* in the order of arrival, and the timers to "due or not due".            *)
(***************************************************************************)
EXTENDS Integers, Sequences, FiniteSets

CONSTANTS Strikes,    \* the strikes of the chain (secdef parameters)
          Unlistings, \* sets of strikes the gateway may fail to qualify
          Spots,      \* prices of the underlying
          PerSide,    \* streaming.strikes_per_side
          Threshold,  \* streaming.rebalance_threshold_steps
          MaxBuffer,  \* max_buffer_rows
          MaxRows     \* bound: rows of each kind, and with them moves of the spot

ASSUME StreamingAssumption ==
    /\ Strikes \subseteq Nat \ {0} /\ IsFiniteSet(Strikes) /\ Cardinality(Strikes) > 1
    /\ Unlistings \subseteq SUBSET Strikes
    /\ Spots \subseteq Nat \ {0}
    /\ PerSide \in Nat /\ Threshold \in Nat \ {0}
    /\ MaxBuffer \in Nat \ {0} /\ MaxRows \in Nat

VARIABLES pc,
          perKind,  \* some *_flush_interval_sec or *_max_buffer_rows is set
          unlisted, \* strikes of the chain that qualifyContracts leaves out
          spot,     \* _spot_prices
          last,     \* _last_rebalance_spot
          strikes,  \* _option_strikes
          tickers,  \* _option_tickers: strike of the key |-> strike of the contract
          lines,    \* strikes with an open market-data line at the gateway
          window,   \* the window a rebalance is moving to
          buf,      \* _buffers
          drained,  \* rows a flush has taken out of the buffers and not yet written
          stored,   \* rows in the files, in the order they were written
          counted,  \* _option_rows, _spot_rows
          received, \* rows appended so far
          lost      \* history: kinds that lost rows to a failed or interrupted write

config == <<perKind, unlisted>>
subs == <<config, spot, last, strikes, tickers, lines, window>>
rows == <<buf, drained, stored, counted, received, lost>>
vars == <<pc, subs, rows>>

Kinds   == {"options", "spot"}      \* bars are handled like spot
Running == {"loop", "qualify", "flush", "write", "sleep"}
Steps   == {"start", "seeded", "final", "finalWrite", "unsubscribe", "exit", "ended"} \cup Running
NoRows  == [k \in Kinds |-> <<>>]

TypeOK ==
    /\ pc \in Steps
    /\ perKind \in BOOLEAN /\ unlisted \in Unlistings
    /\ spot \in Spots /\ last \in Spots
    /\ strikes \subseteq Strikes /\ lines \subseteq Strikes /\ window \subseteq Strikes
    /\ DOMAIN tickers \subseteq Strikes /\ \A l \in DOMAIN tickers : tickers[l] \in Strikes
    /\ \A k \in Kinds : /\ received[k] \in 0 .. MaxRows
                        /\ counted[k] \in 0 .. received[k]
                        /\ Len(buf[k]) + Len(drained[k]) + Len(stored[k]) <= received[k]
    /\ drained # NoRows => pc \in {"write", "finalWrite"}
    /\ lost \subseteq Kinds

Init ==
    /\ pc = "start"
    /\ perKind \in BOOLEAN /\ unlisted \in Unlistings
    /\ spot \in Spots /\ last = spot
    /\ strikes = {} /\ tickers = <<>> /\ lines = {} /\ window = {}
    /\ buf = NoRows /\ drained = NoRows /\ stored = NoRows
    /\ counted = [k \in Kinds |-> 0] /\ received = counted
    /\ lost = {}
-------------------------------------------------------------------------------
Abs(n) == IF n < 0 THEN -n ELSE n

(* The strike nearest to a price; the lower one of two.  (selection.py)     *)
Atm(v) == CHOOSE s \in Strikes : \A t \in Strikes :
             \/ Abs(s - v) < Abs(t - v)
             \/ Abs(s - v) = Abs(t - v) /\ s <= t

(* select_strikes_around_spot: PerSide strikes below and above, not at, it. *)
Window(v) ==
    {s \in Strikes : \/ s < Atm(v) /\ Cardinality({t \in Strikes : s < t /\ t < Atm(v)}) < PerSide
                     \/ s > Atm(v) /\ Cardinality({t \in Strikes : Atm(v) < t /\ t < s}) < PerSide}

(* strike_step: the distance from there to the nearest other strike. *)
StrikeStep(v) == LET gaps == {Abs(s - Atm(v)) : s \in Strikes \ {Atm(v)}}
                 IN CHOOSE g \in gaps : \A h \in gaps : g <= h

ShouldRebalance(from, v) == Abs(v - from) >= StrikeStep(v) * Threshold

(* zip(qualified, metas): the contracts that could be qualified are paired  *)
(* with the first so many of the descriptions.                              *)
Rank(s, set) == Cardinality({t \in set : t < s})
Zip(set) ==
    LET ok == set \ unlisted
    IN [l \in {l \in set : Rank(l, set) < Cardinality(ok)} |->
           CHOOSE c \in ok : Rank(c, ok) = Rank(l, set)]

Join(f, g)  == [x \in DOMAIN f \cup DOMAIN g |-> IF x \in DOMAIN g THEN g[x] ELSE f[x]]
Contracts(t) == {t[l] : l \in DOMAIN t}

(* _subscribe_options, after the spot and bar subscriptions: the window is  *)
(* fixed before qualifyContracts turns the event loop ...                   *)
Seed ==
    /\ pc = "start" /\ pc' = "seeded"
    /\ strikes' = Window(spot) /\ last' = spot
    /\ UNCHANGED <<config, spot, tickers, lines, window, rows>>

(* ... and its lines are opened after.                                      *)
Subscribe ==
    /\ pc = "seeded" /\ pc' = "loop"
    /\ tickers' = Zip(strikes)
    /\ lines' = Contracts(Zip(strikes))
    /\ UNCHANGED <<config, spot, last, strikes, window, rows>>

(* No secdef parameters, or a request failed.  The try block has not begun: *)
(* nothing is flushed, and the lines opened so far go with the session.     *)
SubscribeFails ==
    /\ pc \in {"start", "seeded"} /\ pc' = "exit"
    /\ UNCHANGED <<subs, rows>>

(* Variant with a seeded bug: the old lines are not cancelled. *)
DropKept(dropped) ==
    /\ tickers' = [l \in DOMAIN tickers \ dropped |-> tickers[l]]
    /\ UNCHANGED lines

(* The first half of _update_option_subscriptions. *)
Drop(dropped) ==
    /\ tickers' = [l \in DOMAIN tickers \ dropped |-> tickers[l]]
    /\ lines' = lines \ {tickers[l] : l \in dropped \cap DOMAIN tickers}

(* Variant with a seeded bug: the reference price follows every tick. *)
MaybeRebalanceCreeping ==
    /\ pc = "loop"
    /\ LET new == Window(spot)
       IN IF ShouldRebalance(last, spot) /\ new # strikes
          THEN /\ Drop(strikes \ new)
               /\ IF new \subseteq strikes
                  THEN pc' = "flush" /\ strikes' = new /\ UNCHANGED window
                  ELSE pc' = "qualify" /\ window' = new /\ UNCHANGED strikes
          ELSE pc' = "flush" /\ UNCHANGED <<strikes, tickers, lines, window>>
    /\ last' = spot
    /\ UNCHANGED <<config, spot, rows>>

(* _maybe_rebalance.  The window and the reference price change only when   *)
(* a strike comes or goes; with a strike to add, qualifyContracts is next.  *)
MaybeRebalance ==
    /\ pc = "loop"
    /\ LET new == Window(spot)
       IN IF ShouldRebalance(last, spot) /\ new # strikes
          THEN /\ Drop(strikes \ new)
               /\ last' = spot
               /\ IF new \subseteq strikes
                  THEN pc' = "flush" /\ strikes' = new /\ UNCHANGED window
                  ELSE pc' = "qualify" /\ window' = new /\ UNCHANGED strikes
          ELSE pc' = "flush" /\ UNCHANGED <<last, strikes, tickers, lines, window>>
    /\ UNCHANGED <<config, spot, rows>>

RebalanceNotDue ==
    /\ pc = "loop" /\ pc' = "flush"
    /\ UNCHANGED <<subs, rows>>

(* qualifyContracts returned: the second half.  (_last_rebalance_spot gets  *)
(* the price the rebalance started from, whatever has ticked since.)        *)
Qualified ==
    /\ pc = "qualify" /\ pc' = "flush"
    /\ tickers' = Join(tickers, Zip(window \ strikes))
    /\ lines' = lines \cup Contracts(Zip(window \ strikes))
    /\ strikes' = window /\ window' = {}
    /\ UNCHANGED <<config, spot, last, rows>>

(* The request fails: the exception leaves the loop. *)
QualifyFails ==
    /\ pc = "qualify" /\ pc' = "final"
    /\ UNCHANGED <<subs, rows>>
-------------------------------------------------------------------------------
Append1(k) ==
    /\ received[k] < MaxRows
    /\ received' = [received EXCEPT ![k] = @ + 1]
    /\ buf' = [buf EXCEPT ![k] = Append(@, received[k] + 1)]
    /\ UNCHANGED <<drained, stored, counted, lost>>

(* The handlers, called while the event loop turns. *)
OptionUpdate ==
    /\ pc \in {"qualify", "sleep"} /\ Contracts(tickers) \cap lines # {}
    /\ Append1("options")
    /\ UNCHANGED <<pc, subs>>

SpotUpdate(v) ==
    /\ pc \in {"start", "seeded", "qualify", "sleep"}
    /\ spot' = v
    /\ Append1("spot")
    /\ UNCHANGED <<pc, config, last, strikes, tickers, lines, window>>

Large == IF perKind THEN {k \in Kinds : Len(buf[k]) >= MaxBuffer}
         ELSE IF Len(buf["options"]) + Len(buf["spot"]) >= MaxBuffer THEN Kinds ELSE {}

(* Variant with a seeded bug: the buffer is handed over and not replaced. *)
DrainCopy(kinds, step) ==
    /\ drained' = [k \in Kinds |-> IF k \in kinds THEN buf[k] ELSE <<>>]
    /\ \E k \in kinds : buf[k] # <<>>
    /\ pc' = step
    /\ UNCHANGED buf

(* The part of _flush_buffers under the lock. *)
Drain(kinds, step) ==
    /\ \E k \in kinds : buf[k] # <<>>
    /\ drained' = [k \in Kinds |-> IF k \in kinds THEN buf[k] ELSE <<>>]
    /\ buf' = [k \in Kinds |-> IF k \in kinds THEN <<>> ELSE buf[k]]
    /\ pc' = step

(* A flush of one kind or of all, because its time has come or because      *)
(* there are too many rows.                                                 *)
Flush ==
    /\ pc = "flush"
    /\ IF perKind THEN \E kinds \in {{k} : k \in Kinds} \cup {Large} : Drain(kinds, "write")
                  ELSE Drain(Kinds, "write")
    /\ UNCHANGED <<subs, stored, counted, received, lost>>

FlushDone ==
    /\ pc = "flush" /\ Large = {} /\ pc' = "sleep"
    /\ UNCHANGED <<subs, rows>>

(* The kinds are written in the order of the buffers. *)
Writing == IF drained["options"] # <<>> THEN "options" ELSE "spot"

(* Variant with a seeded bug: the drained rows are kept after the write. *)
WriteTwice ==
    /\ pc \in {"write", "finalWrite"}
    /\ stored' = [stored EXCEPT ![Writing] = @ \o drained[Writing]]
    /\ counted' = [counted EXCEPT ![Writing] = @ + Len(drained[Writing])]
    /\ buf' = [buf EXCEPT ![Writing] = drained[Writing] \o @]
    /\ drained' = NoRows /\ pc' = IF pc = "write" THEN "flush" ELSE "unsubscribe"
    /\ UNCHANGED <<subs, received, lost>>

(* write_records of one kind. *)
Write ==
    /\ pc \in {"write", "finalWrite"}
    /\ stored' = [stored EXCEPT ![Writing] = @ \o drained[Writing]]
    /\ counted' = [counted EXCEPT ![Writing] = @ + Len(drained[Writing])]
    /\ drained' = [drained EXCEPT ![Writing] = <<>>]
    /\ pc' = IF \E k \in Kinds \ {Writing} : drained[k] # <<>> THEN pc
             ELSE IF pc = "write" THEN "flush" ELSE "unsubscribe"
    /\ UNCHANGED <<subs, buf, received, lost>>

(* write_records raises, after some of its partitions: what was drained and *)
(* not written is gone, of this kind and of the kinds after it.  In the     *)
(* loop the finally clause is next; in the finally clause, __exit__ is, and *)
(* _unsubscribe_all is skipped.  Ctrl+C in the middle of a write has the    *)
(* same effect.                                                             *)
WriteFails ==
    /\ pc \in {"write", "finalWrite"}
    /\ \E n \in 0 .. Len(drained[Writing]) - 1 :
          stored' = [stored EXCEPT ![Writing] = @ \o SubSeq(drained[Writing], 1, n)]
    /\ lost' = lost \cup {k \in Kinds : drained[k] # <<>>}
    /\ drained' = NoRows
    /\ pc' = IF pc = "write" THEN "final" ELSE "exit"
    /\ UNCHANGED <<subs, buf, counted, received>>

Sleep ==
    /\ pc = "sleep" /\ pc' = "loop"
    /\ UNCHANGED <<subs, rows>>

(* The duration is over, or Ctrl+C (and not in the middle of a write). *)
Stop ==
    /\ pc \in {"loop", "qualify", "flush", "sleep"} /\ pc' = "final"
    /\ UNCHANGED <<subs, rows>>

FinalFlush ==
    /\ pc = "final"
    /\ \/ /\ Drain(Kinds, "finalWrite")
          /\ UNCHANGED <<subs, stored, counted, received, lost>>
       \/ /\ \A k \in Kinds : buf[k] = <<>>
          /\ pc' = "unsubscribe"
          /\ UNCHANGED <<subs, rows>>

(* Variant with a seeded bug: only the current window is unsubscribed. *)
UnsubscribeWindow ==
    /\ pc = "unsubscribe" /\ pc' = "exit"
    /\ lines' = lines \ strikes
    /\ UNCHANGED <<config, spot, last, strikes, tickers, window, rows>>

(* _unsubscribe_all. *)
Unsubscribe ==
    /\ pc = "unsubscribe" /\ pc' = "exit"
    /\ lines' = lines \ Contracts(tickers)
    /\ UNCHANGED <<config, spot, last, strikes, tickers, window, rows>>

(* __exit__ of the session closes the connection. *)
Exit ==
    /\ pc = "exit" /\ pc' = "ended"
    /\ lines' = {}
    /\ UNCHANGED <<config, spot, last, strikes, tickers, window, rows>>

Next == \/ Seed \/ Subscribe \/ SubscribeFails \/ MaybeRebalance \/ RebalanceNotDue
        \/ Qualified \/ QualifyFails
        \/ OptionUpdate \/ \E v \in Spots : SpotUpdate(v)
        \/ Flush \/ FlushDone \/ Write \/ WriteFails \/ Sleep \/ Stop
        \/ FinalFlush \/ Unsubscribe \/ Exit

Spec == Init /\ [][Next]_vars

(* The loop keeps turning (ib.sleep and the requests return), and a check   *)
(* of the window comes due once a second, every other turn.                 *)
FairSpec == /\ Spec
            /\ WF_vars(Seed \/ Subscribe \/ RebalanceNotDue \/ Qualified \/ FlushDone \/ Write \/ Sleep)
            /\ WF_vars(Flush) /\ SF_vars(MaybeRebalance)
-------------------------------------------------------------------------------
(* Every open line is in _option_tickers, under whatever key, so that a     *)
(* later rebalance or _unsubscribe_all closes it: none leaks.               *)
NoLeakedLine ==
    /\ lines \subseteq Contracts(tickers)
    /\ pc = "exit" /\ lost = {} /\ tickers # <<>> => lines = {}

(* When the gateway knows every contract, the lines are those of the        *)
(* window, under their own strikes, after any number of moves.              *)
LinesMatchWindow ==
    unlisted = {} /\ pc \in {"loop", "flush", "write", "sleep"} =>
        /\ lines = strikes
        /\ tickers = [s \in strikes |-> s]

(* A row is never dropped, repeated or overtaken by a later one of its kind *)
(* unless a write of the kind failed: what is stored, drained and buffered  *)
(* are the rows received, in order (_append_buffer, _flush_buffers).        *)
RowsInOrder ==
    \A k \in Kinds : k \notin lost =>
        /\ stored[k] \o drained[k] \o buf[k] = [i \in 1 .. received[k] |-> i]
        /\ counted[k] = Len(stored[k])

(* Once the price rests, the window follows it, however slowly the price    *)
(* came there: the lines are those around a price less than the threshold   *)
(* away (_maybe_rebalance keeps the price of the last move, not of the last *)
(* check).                                                                  *)
WindowFollows ==
    <>[](pc \in {"loop", "flush", "write", "sleep"} =>
            \E v \in Spots : strikes = Window(v) /\ ~ShouldRebalance(v, spot))
===============================================================================
