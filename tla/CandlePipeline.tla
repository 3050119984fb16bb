----------------------------- MODULE CandlePipeline -----------------------------
(***************************************************************************)
(* One symbol from the exchange's ticks to its trading signals:            *)
(* CandleService.process_tick, the boundary loop and the loading of        *)
(* history (services/candle_service.py), StrategyService.process_candle    *)
(* and seed (services/strategy_service.py), as main.handle_tick, the       *)
(* lifespan and the routes add_symbol and remove_symbol wire them.         *)
(*                                                                         *)
(* Neither service keeps its lock over an await and no candle handler      *)
(* yields, so processing a tick, a boundary, or an answered history        *)
(* request followed by the seed is one step each.                          *)
(***************************************************************************)
EXTENDS Crossover, SequencesExt

CONSTANTS Prices,
          History,     \* candle_history_size
          Limit,       \* candle_history_bootstrap_limit
          MaxMinute,   \* bound on time
          MaxWire,     \* bound on ticks under way
          MaxAdds,     \* bound on calls of add_symbol
          MaxLosses,   \* bound on lost connections
          Loads        \* history requests that may be under way at once

ASSUME PipelineAssumption ==
    /\ Prices \subseteq Nat \ {0} /\ Prices # {}
    /\ History \in Nat \ {0} /\ Limit \in Nat \ {0} /\ MaxMinute \in Nat /\ Limit <= MaxMinute
    /\ MaxWire \in Nat /\ MaxAdds \in Nat /\ MaxLosses \in Nat /\ Loads # {}

VARIABLES now,        \* the minute the clock is in
          wire,       \* ticks sent and not yet received
          streaming,  \* the exchange sends ticks
          active,     \* the symbol is in BinanceStreamClient._symbols
          booting,    \* the lifespan is still loading history
          load,       \* load[l]: a bootstrap_history call
          hist,       \* _history
          cur,        \* _current
          strat,      \* StrategyService's state
          fed,        \* candles the strategy took since its seed
          told,       \* the last signal since the seed, 0 if there was none
          found,      \* the first comparison since the seed, 0 if there was none
          crossed,    \* what the candles were that gave a signal in the last step
          straddled,  \* the last load met a minute it could not place
          adds, losses

feed == <<now, wire, streaming, active, booting, adds, losses>>
candles == <<hist, cur, strat, fed, told, found, crossed, straddled>>
vars == <<feed, load, candles>>

Minutes == 0 .. MaxMinute
Tick == [min : Minutes, price : Prices]
Kinds == {"ticks", "kline", "filler", "partial"}
Candle == [min : Minutes, close : Prices, kind : Kinds]
NoCandle == [min |-> -1, close |-> 0, kind |-> "ticks"]
Idle == [pc |-> "idle", at |-> 0]

TypeOK ==
    /\ now \in Minutes /\ wire \in Seq(Tick) /\ Len(wire) <= MaxWire
    /\ streaming \in BOOLEAN /\ active \in BOOLEAN /\ booting \in BOOLEAN
    /\ load \in [Loads -> [pc : {"idle", "asked", "answered"}, at : Minutes]]
    /\ hist \in Seq(Candle) /\ Len(hist) <= History
    /\ cur \in Candle \cup {NoCandle}
    /\ strat.rel \in Relation /\ strat.den > 0 /\ Len(strat.closes) <= Fast
    /\ fed \in Seq(Candle) /\ told \in {-1, 0, 1} /\ found \in {-1, 0, 1} /\ crossed \subseteq Kinds
    /\ straddled \in BOOLEAN /\ adds \in 0 .. MaxAdds /\ losses \in 0 .. MaxLosses

-------------------------------------------------------------------------------
(* Handing finished candles on                                                *)

Closes(cs) == [i \in 1 .. Len(cs) |-> cs[i].close]

\* Mutation: room for one candle more than history_size.
KeepOneMore(cs) == SubSeq(cs, IF Len(cs) > History THEN Len(cs) - History ELSE 1, Len(cs))

\* The deque of the last History candles.
Keep(cs) == SubSeq(cs, IF Len(cs) > History THEN Len(cs) - History + 1 ELSE 1, Len(cs))

\* What a comparison says to who asks for it: relation(), None being 0.
Known(rel) == IF rel = NoRelation THEN 0 ELSE rel

\* process_candle for one candle; the first comparison is no transition and
\* gives no signal.
Evaluate(acc, c) ==
    LET next == Calculate(acc.strat, c.close)
        action == Crossing(acc.strat.rel, next.rel)
    IN [strat |-> next,
        told |-> IF action # 0 THEN action ELSE acc.told,
        found |-> IF acc.strat.rel = NoRelation THEN Known(next.rel) ELSE acc.found,
        crossed |-> acc.crossed \cup (IF action = 0 THEN {} ELSE {c.kind})]

\* The candles closed in this step reach handle_candle in their order.
Deliver(closed) ==
    LET start == [strat |-> strat, told |-> told, found |-> found, crossed |-> {}]
        after == Along(Evaluate, start, closed)
    IN /\ strat' = after.strat /\ told' = after.told /\ found' = after.found
       /\ crossed' = after.crossed
       /\ fed' = fed \o closed

\* seed: state anew from these candles, without signals.
Seed(cs) ==
    /\ strat' = Along(Calculate, Fresh, Closes(cs))
    /\ told' = 0 /\ found' = Known(strat'.rel)
    /\ fed' = cs /\ crossed' = {}

\* Mutation: one filler too many, for the minute that is being built.
GapFillersInclusive(last, target) ==
    LET count == IF target - last.min > History THEN History ELSE target - last.min
    IN [i \in 1 .. count |-> [min |-> last.min + i, close |-> last.close, kind |-> "filler"]]

\* Minutes without ticks between the last candle and this minute, at most
\* History of them, carry its close forward.
GapFillers(last, target) ==
    LET count == IF target - last.min - 1 > History THEN History ELSE target - last.min - 1
    IN [i \in 1 .. count |-> [min |-> last.min + i, close |-> last.close, kind |-> "filler"]]

-------------------------------------------------------------------------------
(* Ticks and minute boundaries                                                *)

Trade(p) ==
    /\ streaming /\ Len(wire) < MaxWire
    /\ wire' = Append(wire, [min |-> now, price |-> p])
    /\ UNCHANGED <<now, streaming, active, booting, adds, losses, load, candles>>

\* A tick of a minute that is already in the history is dropped.
Late(tick) == hist # <<>> /\ tick.min <= Last(hist).min

\* process_tick: close an older candle, fill the gap, update the current one.
Receive ==
    /\ wire # <<>>
    /\ wire' = Tail(wire)
    /\ LET tick == Head(wire)
           closed == IF cur # NoCandle /\ tick.min > cur.min THEN <<cur>> ELSE <<>>
           known == hist \o closed
           gap == IF known = <<>> THEN <<>> ELSE GapFillers(Last(known), tick.min)
           min == IF cur = NoCandle \/ closed # <<>> THEN tick.min ELSE cur.min
       IN IF Late(tick) THEN UNCHANGED candles
          ELSE /\ hist' = Keep(known \o gap)
               /\ cur' = [min |-> min, close |-> tick.price, kind |-> "ticks"]
               /\ Deliver(closed \o gap)
               /\ UNCHANGED straddled
    /\ UNCHANGED <<now, streaming, active, booting, adds, losses, load>>

\* _finalize_due, whenever the boundary loop gets to run.
Boundary ==
    /\ cur # NoCandle /\ cur.min < now
    /\ hist' = Keep(Append(hist, cur)) /\ cur' = NoCandle
    /\ Deliver(<<cur>>)
    /\ UNCHANGED <<feed, load, straddled>>

Minute ==
    /\ now < MaxMinute /\ now' = now + 1
    /\ UNCHANGED <<wire, streaming, active, booting, adds, losses, load, candles>>

\* The connection drops with what is under way; the next one subscribes anew.
Lose ==
    /\ ~booting /\ losses < MaxLosses /\ losses' = losses + 1
    /\ wire' = <<>> /\ streaming' = active
    /\ UNCHANGED <<now, active, booting, adds, load, candles>>

-------------------------------------------------------------------------------
(* History: the lifespan loads it before the stream starts, add_symbol after  *)

AddSymbol(l) ==
    /\ ~booting /\ ~active /\ load[l] = Idle /\ adds < MaxAdds
    /\ active' = TRUE /\ streaming' = TRUE /\ adds' = adds + 1
    /\ load' = [load EXCEPT ![l] = [pc |-> "asked", at |-> now]]
    /\ UNCHANGED <<now, wire, booting, losses, candles>>

\* The exchange answers with its klines up to the minute in progress.
Answer(l) ==
    /\ load[l].pc = "asked"
    /\ load' = [load EXCEPT ![l] = [pc |-> "answered", at |-> now]]
    /\ UNCHANGED <<feed, candles>>

\* The lifespan starts the stream once its load is over.
Finish(l) ==
    /\ load' = [load EXCEPT ![l] = Idle]
    /\ booting' = FALSE
    /\ active' = (active \/ booting) /\ streaming' = (streaming \/ booting)
    /\ UNCHANGED <<now, wire, adds, losses>>

\* The limit + 1 klines answered in minute `at`, those closed by now, the last
\* Limit of them; the one that was in progress then has only part of its ticks.
Closed(at, close) ==
    LET last == IF at < now THEN at ELSE at - 1
        first == IF at < now THEN at - Limit + 1 ELSE at - Limit
    IN [i \in 1 .. last - first + 1 |->
          [min |-> first + i - 1, close |-> close[i],
           kind |-> IF first + i - 1 = at THEN "partial" ELSE "kline"]]

\* Mutation: the strategy goes on with the state it had.
LoadUnseeded(l) ==
    /\ load[l].pc = "answered"
    /\ \E close \in [1 .. Limit -> Prices] : hist' = Keep(Closed(load[l].at, close))
    /\ straddled' = (load[l].at < now \/ (cur # NoCandle /\ cur.min < now))
    /\ Finish(l) /\ UNCHANGED <<cur, strat, fed, told, found, crossed>>

\* bootstrap_history replaces the history and the caller seeds the strategy.
Load(l) ==
    /\ load[l].pc = "answered"
    /\ \E close \in [1 .. Limit -> Prices] :
         hist' = Keep(Closed(load[l].at, close))
    /\ Seed(SubSeq(hist', IF Len(hist') > Limit THEN Len(hist') - Limit + 1 ELSE 1, Len(hist')))
    /\ straddled' = (load[l].at < now \/ (cur # NoCandle /\ cur.min < now))
    /\ Finish(l) /\ UNCHANGED cur

\* The request fails: logged, and the strategy is seeded with what there is.
LoadFails(l) ==
    /\ load[l].pc # "idle"
    /\ Seed(SubSeq(hist, IF Len(hist) > Limit THEN Len(hist) - Limit + 1 ELSE 1, Len(hist)))
    /\ Finish(l) /\ UNCHANGED <<hist, cur, straddled>>

\* remove_symbol: unsubscribed, then both services forget the symbol.  Ticks
\* under way, and a load, still arrive.
RemoveSymbol ==
    /\ ~booting /\ active /\ active' = FALSE
    /\ hist' = <<>> /\ cur' = NoCandle
    /\ strat' = Fresh /\ fed' = <<>> /\ told' = 0 /\ found' = 0 /\ crossed' = {}
    /\ straddled' = FALSE
    /\ UNCHANGED <<now, wire, streaming, booting, adds, losses, load>>

Unsubscribed ==
    /\ ~active /\ streaming /\ streaming' = FALSE
    /\ UNCHANGED <<now, wire, active, booting, adds, losses, load, candles>>

-------------------------------------------------------------------------------

Init ==
    /\ now = Limit /\ wire = <<>> /\ streaming = FALSE /\ active = FALSE /\ booting = TRUE
    /\ \E l \in Loads :
         load = [k \in Loads |-> IF k = l THEN [pc |-> "asked", at |-> now] ELSE Idle]
    /\ hist = <<>> /\ cur = NoCandle /\ strat = Fresh /\ fed = <<>>
    /\ told = 0 /\ found = 0 /\ crossed = {} /\ straddled = FALSE
    /\ adds = 0 /\ losses = 0

Next ==
    \/ \E p \in Prices : Trade(p)
    \/ Receive \/ Boundary \/ Minute \/ Lose
    \/ \E l \in Loads : AddSymbol(l) \/ Answer(l) \/ Load(l) \/ LoadFails(l)
    \/ RemoveSymbol \/ Unsubscribed

Spec == Init /\ [][Next]_vars

-------------------------------------------------------------------------------
(* Properties *)

\* The indicators are those of the candles on show: what the strategy took
\* since its seed ends with the whole history, whatever loads, failed loads,
\* removals and ticks of a removed symbol came in between.
FollowsHistory == IsSuffix(hist, fed)

\* The rolling sum, count and average decide as the definitions of SMA and EMA
\* over all the closes since the seed would.
RollingExact == strat.rel = RelationOf(Closes(fed))

\* No turn of the trend is missed and none is told twice: from a seed on, the
\* standing side is that of the last signal, whatever touches of zero, gaps or
\* candles closed at once came in between; as long as there was no signal it is
\* that of the first comparison.  A seed and the first comparison give no signal,
\* so only relation() tells the side they found, and after a seed a follower of
\* the signals of before may be on the wrong side.
TrendTold ==
    /\ strat.rel \in {-1, 1} => strat.rel = IF told # 0 THEN told ELSE found
    /\ strat.rel = NoRelation => told = 0 /\ found = 0

\* Candles are contiguous and in order, each minute once and none half loaded; a
\* hole only follows History fillers, or all there are since the seed.  A load
\* that was answered in an earlier minute, or meets a candle the boundary has not
\* closed yet, may break this.
OrderedUnlessStraddled ==
    straddled \/
    /\ \A i \in 1 .. Len(fed) : fed[i].kind # "partial"
    /\ \A i \in 1 .. Len(fed) - 1 :
         /\ fed[i].min < fed[i + 1].min
         /\ fed[i].min + 1 < fed[i + 1].min =>
              \A j \in 1 .. i : j > i - History => fed[j].kind = "filler"

\* The docstring of _append_gap_fillers: fillers carry the previous close forward
\* and therefore cannot create a crossover on their own.
FillersNeverCross == "filler" \notin crossed
===============================================================================
