--------------------------- MODULE PositionLifecycle ---------------------------
(***************************************************************************)
(* Strategy positions of one account: OrderService.process_signal,         *)
(* process_tick, square_off and _reconcile_strategy_positions, the entry   *)
(* and exit they run (_enter, _exit, _resolve_protectives), the orders     *)
(* these leave at the exchange, and the rows a restart reads back          *)
(* (services/order_service.py).                                            *)
(*                                                                         *)
(* A worker is one asyncio task running one of those operations; a step    *)
(* goes from one await to the next.  OrderService._lock is never held over *)
(* an await, so what it guards is one step.  One worker is the             *)
(* reconciliation loop.                                                    *)
(***************************************************************************)
EXTENDS Integers, FiniteSets

CONSTANTS Keys,         \* (symbol, variant) pairs of the account
          Workers,      \* tasks that may be running at once
          Loop,         \* the worker that is the reconciliation loop
          MaxOpen,      \* max_open_positions_per_user
          Lot,          \* quantity an entry executes
          Spare,        \* base asset the account owns besides the lots
          MaxEntries,   \* bound on entries per key
          MaxFlips,     \* bound on changes of the SMA/EMA relation
          MaxLogouts,   \* bound on logouts
          MaxCrashes,   \* bound on process crashes
          FaultKinds,   \* what may go wrong
          MaxFaults,    \* bound on how often
          NoKey

ASSUME BoundAssumption ==
    /\ MaxOpen \in Nat /\ Lot \in Nat \ {0} /\ Spare \in Nat /\ MaxEntries \in Nat
    /\ MaxFlips \in Nat /\ MaxLogouts \in Nat /\ MaxCrashes \in Nat /\ MaxFaults \in Nat
    /\ NoKey \notin Keys /\ Loop \in Workers

ASSUME FiniteAssumption == IsFiniteSet(Keys)

VARIABLES pos,         \* _positions
          saved,       \* user_positions table
          inflight,    \* _inflight
          pending,     \* _pending_entries
          reconciled,  \* _reconciled_positions
          worker,      \* worker[w]: what the task is doing
          candidates,  \* keys the reconciliation loop still has to look at
          flat,        \* the key it found flat and is about to check again
          looping,     \* the loop runs: no exception has ended it
          signals,     \* process_signal_for_user tasks not yet started
          session,     \* verified and enabled in-memory session present
          automated,   \* unexpired automation window
          trend,       \* trend[k]: the strategy's relation is positive
          held,        \* held[k]: what the strategy bought and has not sold
          prot,        \* prot[k][g][s]: protective s of entry g at the exchange
          gen,         \* gen[k]: entries executed so far
          astray,      \* astray[k]: what became of the key that no later step repairs
          flips, logouts, crashes, faults

vars == <<pos, saved, inflight, pending, reconciled, worker, candidates, flat, looping,
          signals, session, automated, trend, held, prot, gen, astray,
          flips, logouts, crashes, faults>>

claims == <<inflight, pending, reconciled>>
loop == <<candidates, flat, looping>>
exchange == <<held, prot, gen>>
account == <<session, automated, signals, trend>>
bounds == <<flips, logouts, crashes>>

-------------------------------------------------------------------------------
(* Types and derived state *)

Entries == 0 .. MaxEntries
Sides == {"SL", "TP"}
NoPosition == [open |-> FALSE, qty |-> 0, stop |-> FALSE, take |-> FALSE, entry |-> 0]
Position == [open : BOOLEAN, qty : 0 .. Lot, stop : BOOLEAN, take : BOOLEAN, entry : Entries]

EntryPc == {"buy", "stop", "unwind", "take", "open", "saveEntry"}
ExitPc == {"start", "query", "cancel", "sell", "book", "saveExit"}
Task(k, label, signal) ==
    [pc |-> label, key |-> k, signal |-> signal, side |-> "SL", found |-> "none",
     executed |-> 0, take |-> FALSE, seen |-> NoPosition]
Idle == Task(NoKey, "idle", FALSE)

\* signal: the task runs process_signal; seen: the position its exit read.
Worker == [pc : EntryPc \cup ExitPc \cup {"finish", "idle"}, key : Keys \cup {NoKey},
           signal : BOOLEAN, side : Sides, found : Sides \cup {"none"},
           executed : 0 .. Lot, take : BOOLEAN, seen : Position]

\* What the code leaves undone, and no later step of it makes good.
Reasons == {"robbed",       \* the reconciliation loop discarded another task's claim
            "crashed",      \* a restart lost the work under way on the key
            "lost",         \* an order is at the exchange without a position knowing it
            "unsold",       \* some of an entry's lot was left, without a position
            "uncancelled",  \* an exit left a protective resting
            "twice"}        \* two orders sold the same lot

TypeOK ==
    /\ pos \in [Keys -> Position] /\ saved \in [Keys -> Position]
    /\ inflight \subseteq Keys /\ pending \subseteq Keys /\ reconciled \subseteq Keys
    /\ worker \in [Workers -> Worker]
    /\ candidates \subseteq Keys /\ flat \in Keys \cup {NoKey} /\ looping \in BOOLEAN
    /\ signals \subseteq Keys \X {"BUY", "EXIT"}
    /\ session \in BOOLEAN /\ automated \in BOOLEAN
    /\ trend \in [Keys -> BOOLEAN]
    /\ held \in [Keys -> Int]
    /\ prot \in [Keys -> [Entries -> [Sides -> {"none", "NEW", "FILLED", "CANCELED"}]]]
    /\ gen \in [Keys -> Entries]
    /\ astray \in [Keys -> SUBSET Reasons]
    /\ flips \in 0 .. MaxFlips /\ logouts \in 0 .. MaxLogouts
    /\ crashes \in 0 .. MaxCrashes /\ faults \in 0 .. MaxFaults

OpenKeys == {k \in Keys : pos[k].open}
AtPc(w, label) == worker[w].pc = label
Key(w) == worker[w].key
Step(w, label) == worker' = [worker EXCEPT ![w].pc = label]
Busy(w) == ~AtPc(w, "idle")

\* A fault of this kind happens now; a step without one leaves the count alone.
Fault(kind) == kind \in FaultKinds /\ faults < MaxFaults /\ faults' = faults + 1
NoFault == UNCHANGED faults

Strays(k, why) == astray' = [astray EXCEPT ![k] = @ \cup why]

\* Only BinanceOrderError is caught: another exception ends the task, and the
\* loop for good.
Dies(w) == IF w = Loop THEN looping' = FALSE /\ candidates' = {} /\ UNCHANGED flat
                       ELSE UNCHANGED loop

Smaller(a, b) == IF a < b THEN a ELSE b

LiveSells(k) == {e \in Entries \X Sides : prot[k][e[1]][e[2]] = "NEW"}

\* A resting sell locks its lot at the exchange, and its acknowledged
\* reservation is subtracted once more by the risk engine.
Free(k) == Spare + held[k] - Lot * Cardinality(LiveSells(k))
Unreserved(k) == Free(k) - Lot * Cardinality(LiveSells(k))

\* Mutation: the balance found is sold, not the quantity asked for.
SellableQuantityUncapped(k, requested) == Free(k)

\* _sellable_quantity, and whether place_order then admits the sell.
SellableQuantity(k, requested) == Smaller(requested, Free(k))
CanSell(k, requested) ==
    /\ session
    /\ SellableQuantity(k, requested) > 0
    /\ SellableQuantity(k, requested) <= Unreserved(k)

Init ==
    /\ pos = [k \in Keys |-> NoPosition] /\ saved = pos
    /\ inflight = {} /\ pending = {} /\ reconciled = {}
    /\ worker = [w \in Workers |-> Idle]
    /\ candidates = {} /\ flat = NoKey /\ looping = TRUE
    /\ signals = {} /\ session = TRUE /\ automated = TRUE
    /\ trend = [k \in Keys |-> FALSE]
    /\ held = [k \in Keys |-> 0]
    /\ prot = [k \in Keys |-> [g \in Entries |-> [s \in Sides |-> "none"]]]
    /\ gen = [k \in Keys |-> 0]
    /\ astray = [k \in Keys |-> {}]
    /\ flips = 0 /\ logouts = 0 /\ crashes = 0 /\ faults = 0

-------------------------------------------------------------------------------
(* The strategy and the account *)

\* A relation change emits a signal; a task is spawned per active automation.
Flip(k) ==
    /\ flips < MaxFlips
    /\ flips' = flips + 1
    /\ trend' = [trend EXCEPT ![k] = ~@]
    /\ signals' = IF session /\ automated
                    THEN signals \cup {<<k, IF trend[k] THEN "EXIT" ELSE "BUY">>}
                    ELSE signals
    /\ UNCHANGED <<pos, saved, claims, worker, loop, session, automated, exchange, astray,
                   logouts, crashes, faults>>

SetAutomation ==
    /\ MaxLogouts > 0
    /\ automated' = ~automated
    /\ UNCHANGED <<pos, saved, claims, worker, loop, session, signals, trend, exchange, astray,
                   bounds, faults>>

\* deactivate_user_session keeps the keys for automation and open positions.
Logout ==
    /\ session /\ logouts < MaxLogouts
    /\ ~automated /\ OpenKeys = {}
    /\ logouts' = logouts + 1
    /\ session' = FALSE
    /\ UNCHANGED <<pos, saved, claims, worker, loop, automated, signals, trend, exchange, astray,
                   flips, crashes, faults>>

Login ==
    /\ ~session
    /\ session' = TRUE
    /\ UNCHANGED <<pos, saved, claims, worker, loop, automated, signals, trend, exchange, astray,
                   bounds, faults>>

-------------------------------------------------------------------------------
(* Claiming a key *)

Assign(w, k, label, signal) == worker' = [worker EXCEPT ![w] = Task(k, label, signal)]

\* Mutation: entries under way are not counted.
CanBuyCountingOpenOnly(k) ==
    /\ session /\ k \notin inflight /\ ~pos[k].open
    /\ Cardinality(OpenKeys) < MaxOpen

CanBuy(k) ==
    /\ session /\ k \notin inflight /\ ~pos[k].open
    /\ Cardinality(OpenKeys) + Cardinality(pending) < MaxOpen

\* Mutation: a key somebody works on can be claimed.
CanExitUnclaimed(k) == session /\ pos[k].open

CanExit(k) == session /\ k \notin inflight /\ pos[k].open

SignalBuy(w, k) ==
    /\ w # Loop /\ AtPc(w, "idle") /\ <<k, "BUY">> \in signals /\ CanBuy(k)
    /\ signals' = signals \ {<<k, "BUY">>}
    /\ pending' = pending \cup {k} /\ inflight' = inflight \cup {k}
    /\ Assign(w, k, "buy", TRUE)
    /\ UNCHANGED <<pos, saved, reconciled, loop, session, automated, trend, exchange, astray,
                   bounds, faults>>

SignalExit(w, k) ==
    /\ w # Loop /\ AtPc(w, "idle") /\ <<k, "EXIT">> \in signals /\ CanExit(k)
    /\ signals' = signals \ {<<k, "EXIT">>}
    /\ inflight' = inflight \cup {k}
    /\ Assign(w, k, "start", TRUE)
    /\ UNCHANGED <<pos, saved, pending, reconciled, loop, session, automated, trend, exchange,
                   astray, bounds, faults>>

\* process_signal returns early.
SignalDropped(k) ==
    /\ \/ <<k, "BUY">> \in signals /\ ~CanBuy(k) /\ signals' = signals \ {<<k, "BUY">>}
       \/ <<k, "EXIT">> \in signals /\ ~CanExit(k) /\ signals' = signals \ {<<k, "EXIT">>}
    /\ UNCHANGED <<pos, saved, claims, worker, loop, session, automated, trend, exchange, astray,
                   bounds, faults>>

\* A streamed price reaches the stop or the take profit, or the user squares
\* the position off.
TickExit(w, k) ==
    /\ w # Loop /\ AtPc(w, "idle") /\ CanExit(k)
    /\ inflight' = inflight \cup {k}
    /\ Assign(w, k, "start", FALSE)
    /\ UNCHANGED <<pos, saved, pending, reconciled, loop, account, exchange, astray, bounds,
                   faults>>

\* process_signal gives both claims back; the other operations only theirs.
Unpended(w) == IF worker[w].signal THEN pending \ {Key(w)} ELSE pending

\* Mutation: the finally block forgets the claim.
FinishKeepingClaim(w) ==
    /\ AtPc(w, "finish")
    /\ pending' = Unpended(w)
    /\ worker' = [worker EXCEPT ![w] = Idle]
    /\ UNCHANGED <<pos, saved, inflight, reconciled, loop, account, exchange, astray, bounds,
                   faults>>

\* The finally block.
Finish(w) ==
    /\ AtPc(w, "finish")
    /\ inflight' = inflight \ {Key(w)} /\ pending' = Unpended(w)
    /\ worker' = [worker EXCEPT ![w] = Idle]
    /\ UNCHANGED <<pos, saved, reconciled, loop, account, exchange, astray, bounds, faults>>

-------------------------------------------------------------------------------
(* The reconciliation loop: the keys are chosen under one lock, and each is     *)
(* looked at and checked again after the exits of those before it.             *)

Waiting == looping /\ AtPc(Loop, "idle") /\ flat = NoKey

ReconcileBegin ==
    /\ Waiting /\ candidates = {} /\ session
    /\ candidates' = (OpenKeys \ inflight) \ reconciled
    /\ UNCHANGED <<pos, saved, claims, worker, flat, looping, account, exchange, astray, bounds,
                   faults>>

\* The strategy is asked for its relation; an uptrend is passed over.
ReconcileLook(k) ==
    /\ Waiting /\ k \in candidates
    /\ candidates' = candidates \ {k}
    /\ flat' = IF trend[k] THEN NoKey ELSE k
    /\ UNCHANGED <<pos, saved, claims, worker, looping, account, exchange, astray, bounds, faults>>

StillExits(k) == pos[k].open /\ k \notin inflight

ReconcileExit(k) ==
    /\ looping /\ AtPc(Loop, "idle") /\ flat = k /\ StillExits(k)
    /\ flat' = NoKey
    /\ inflight' = inflight \cup {k} /\ reconciled' = reconciled \cup {k}
    /\ Assign(Loop, k, "start", FALSE)
    /\ UNCHANGED <<pos, saved, pending, candidates, looping, account, exchange, astray, bounds,
                   faults>>

\* The second check fails inside the try, so the finally block discards a claim
\* the loop never made: the one another task holds.
ReconcileSkip(k) ==
    /\ looping /\ AtPc(Loop, "idle") /\ flat = k /\ ~StillExits(k)
    /\ flat' = NoKey
    /\ inflight' = inflight \ {k}
    /\ Strays(k, IF k \in inflight THEN {"robbed"} ELSE {})
    /\ UNCHANGED <<pos, saved, pending, reconciled, worker, candidates, looping, account, exchange,
                   bounds, faults>>

-------------------------------------------------------------------------------
(* _enter *)

Place(k, s) == prot' = [prot EXCEPT ![k][gen[k]][s] = "NEW"]

\* The market BUY executes; the answer arrives, or stays unknown, or is lost to
\* an exception on the way to the position.
Buy(w) ==
    /\ AtPc(w, "buy") /\ session /\ gen[Key(w)] < MaxEntries
    /\ gen' = [gen EXCEPT ![Key(w)] = @ + 1]
    /\ held' = [held EXCEPT ![Key(w)] = @ + Lot]
    /\ \/ NoFault /\ Step(w, "stop") /\ UNCHANGED astray
       \/ Fault("buyLost") /\ Step(w, "finish") /\ Strays(Key(w), {"lost"})
    /\ UNCHANGED <<pos, saved, claims, loop, account, prot, bounds>>

\* Refused by a guard or the exchange, or nothing executed.
BuyRefused(w) ==
    /\ AtPc(w, "buy")
    /\ Step(w, "finish")
    /\ UNCHANGED <<pos, saved, claims, loop, account, exchange, astray, bounds, faults>>

\* A lost answer unwinds the entry with the stop at the exchange; any other
\* exception leaves it at once.
PlaceStop(w) ==
    /\ AtPc(w, "stop") /\ session /\ Lot <= Unreserved(Key(w))
    /\ Place(Key(w), "SL")
    /\ \/ NoFault /\ Step(w, "take") /\ UNCHANGED astray
       \/ Fault("stopLost") /\ Step(w, "unwind") /\ Strays(Key(w), {"lost"})
       \/ Fault("breaks") /\ Step(w, "finish") /\ Strays(Key(w), {"lost"})
    /\ UNCHANGED <<pos, saved, claims, loop, account, held, gen, bounds>>

StopRefused(w) ==
    /\ AtPc(w, "stop")
    /\ \/ /\ ~(session /\ Lot <= Unreserved(Key(w))) /\ NoFault
          /\ Step(w, "unwind") /\ UNCHANGED astray
       \/ Fault("stopRefused") /\ Step(w, "unwind") /\ UNCHANGED astray
       \/ Fault("breaks") /\ Step(w, "finish") /\ Strays(Key(w), {"unsold"})
    /\ UNCHANGED <<pos, saved, claims, loop, account, exchange, bounds>>

\* The emergency sell, in full or in part: nobody looks at the answer, and
\* whatever it is the entry raises.
Unwind(w) ==
    /\ AtPc(w, "unwind") /\ CanSell(Key(w), Lot)
    /\ \E n \in 1 .. SellableQuantity(Key(w), Lot) :
         /\ held' = [held EXCEPT ![Key(w)] = @ - n]
         /\ Strays(Key(w), IF n < Lot THEN {"unsold"} ELSE {})
    /\ Step(w, "finish")
    /\ UNCHANGED <<pos, saved, claims, loop, account, prot, gen, bounds, faults>>

UnwindRefused(w) ==
    /\ AtPc(w, "unwind")
    /\ \/ ~CanSell(Key(w), Lot) /\ NoFault
       \/ Fault("unwindRefused")
    /\ Step(w, "finish")
    /\ Strays(Key(w), {"unsold"})
    /\ UNCHANGED <<pos, saved, claims, loop, account, exchange, bounds>>

\* _place_protective_take_profit: without an order id the entry goes on, unless
\* an exception other than BinanceOrderError leaves it.
PlaceTake(w) ==
    /\ AtPc(w, "take") /\ session /\ Lot <= Unreserved(Key(w))
    /\ Place(Key(w), "TP")
    /\ \/ /\ NoFault /\ UNCHANGED astray
          /\ worker' = [worker EXCEPT ![w].pc = "open", ![w].take = TRUE]
       \/ Fault("takeLost") /\ Step(w, "open") /\ Strays(Key(w), {"lost"})
       \/ Fault("breaks") /\ Step(w, "finish") /\ Strays(Key(w), {"lost"})
    /\ UNCHANGED <<pos, saved, claims, loop, account, held, gen, bounds>>

TakeRefused(w) ==
    /\ AtPc(w, "take")
    /\ \/ /\ ~(session /\ Lot <= Unreserved(Key(w))) /\ NoFault
          /\ Step(w, "open") /\ UNCHANGED astray
       \/ Fault("takeRefused") /\ Step(w, "open") /\ UNCHANGED astray
       \/ Fault("breaks") /\ Step(w, "finish") /\ Strays(Key(w), {"lost"})
    /\ UNCHANGED <<pos, saved, claims, loop, account, exchange, bounds>>

OpenPosition(w) ==
    /\ AtPc(w, "open")
    /\ pos' = [pos EXCEPT ![Key(w)] =
                 [open |-> TRUE, qty |-> Lot, stop |-> TRUE, take |-> worker[w].take,
                  entry |-> gen[Key(w)]]]
    /\ reconciled' = reconciled \ {Key(w)}
    /\ Step(w, "saveEntry")
    /\ UNCHANGED <<saved, inflight, pending, loop, account, exchange, astray, bounds, faults>>

\* save_user_position, after an entry or an exit.
SavePosition(w) ==
    /\ AtPc(w, "saveEntry") \/ AtPc(w, "saveExit")
    /\ \/ NoFault /\ saved' = [saved EXCEPT ![Key(w)] = pos[Key(w)]] /\ UNCHANGED loop
       \/ Fault("saveFails") /\ UNCHANGED saved /\ Dies(w)
    /\ Step(w, "finish")
    /\ UNCHANGED <<pos, claims, account, exchange, astray, bounds>>

-------------------------------------------------------------------------------
(* _exit and _resolve_protectives *)

\* The protectives of the position the exit read, one await or more ago.
Seen(w) == worker[w].seen
HasId(p, s) == IF s = "SL" THEN p.stop ELSE p.take
OrderState(k, p, s) == prot[k][p.entry][s]

ExitStart(w) ==
    /\ AtPc(w, "start")
    /\ IF pos[Key(w)].open
         THEN worker' = [worker EXCEPT ![w].pc = "query", ![w].seen = pos[Key(w)]]
         ELSE Step(w, "finish")
    /\ UNCHANGED <<pos, saved, claims, loop, account, exchange, astray, bounds, faults>>

\* Both protectives are queried, the stop first; a failed query counts as open.
QueryProtective(w) ==
    LET s == worker[w].side
        Found(f) == worker' = [worker EXCEPT ![w].found = f,
                          ![w].side = IF s = "SL" THEN "TP" ELSE "SL",
                          ![w].pc = IF s = "SL" THEN "query" ELSE "cancel"]
        isFilled == /\ HasId(Seen(w), s) /\ OrderState(Key(w), Seen(w), s) = "FILLED"
                    /\ worker[w].found = "none"
    IN /\ AtPc(w, "query")
       /\ \/ session /\ NoFault /\ Found(IF isFilled THEN s ELSE worker[w].found)
          \/ ~session /\ NoFault /\ Found(worker[w].found)
          \/ HasId(Seen(w), s) /\ Fault("queryFails") /\ Found(worker[w].found)
       /\ UNCHANGED <<pos, saved, claims, loop, account, exchange, astray, bounds>>

\* Mutation: protectives are cancelled only after one of them filled.
WantedAfterFill(w, s) == HasId(Seen(w), s) /\ worker[w].found \in Sides \ {s}

Wanted(w, s) == HasId(Seen(w), s) /\ s # worker[w].found

\* Every protective but the filled one is cancelled; a failure is only logged,
\* and the exchange refuses to cancel what has ended.
CancelProtective(w) ==
    LET k == Key(w)
        s == worker[w].side
        rests == OrderState(k, Seen(w), s) = "NEW"
    IN /\ AtPc(w, "cancel")
       /\ \/ /\ Wanted(w, s) /\ rests /\ session /\ NoFault
             /\ prot' = [prot EXCEPT ![k][Seen(w).entry][s] = "CANCELED"]
             /\ UNCHANGED astray
          \/ /\ Wanted(w, s) /\ rests
             /\ (~session /\ NoFault) \/ Fault("cancelFails")
             /\ UNCHANGED prot /\ Strays(k, {"uncancelled"})
          \/ ~(Wanted(w, s) /\ rests) /\ NoFault /\ UNCHANGED <<prot, astray>>
       /\ worker' = [worker EXCEPT ![w].side = IF s = "SL" THEN "TP" ELSE "SL",
                       ![w].pc = IF s = "SL" THEN "cancel"
                                 ELSE IF worker[w].found = "none" THEN "sell" ELSE "book"]
       /\ UNCHANGED <<pos, saved, claims, loop, account, held, gen, bounds>>

\* A protective the exit knows sold the lot since it was queried.
SoldMeanwhile(w) ==
    \E s \in Sides : HasId(Seen(w), s) /\ OrderState(Key(w), Seen(w), s) = "FILLED"

\* The market SELL executes in full or in part, or its outcome stays unknown.
Sell(w) ==
    /\ AtPc(w, "sell") /\ CanSell(Key(w), Seen(w).qty)
    /\ \E n \in 1 .. SellableQuantity(Key(w), Seen(w).qty) :
         /\ held' = [held EXCEPT ![Key(w)] = @ - n]
         /\ \/ /\ NoFault /\ UNCHANGED loop
               /\ worker' = [worker EXCEPT ![w].pc = "book", ![w].executed = n]
               /\ Strays(Key(w), IF SoldMeanwhile(w) THEN {"twice"} ELSE {})
            \/ Fault("sellLost") /\ UNCHANGED loop /\ Step(w, "finish") /\ Strays(Key(w), {"lost"})
            \/ Fault("breaks") /\ Dies(w) /\ Step(w, "finish") /\ Strays(Key(w), {"lost"})
    /\ UNCHANGED <<pos, saved, claims, account, prot, gen, bounds>>

SellRefused(w) ==
    /\ AtPc(w, "sell")
    /\ \/ ~CanSell(Key(w), Seen(w).qty) /\ NoFault
       \/ Fault("sellRefused")
    /\ Step(w, "finish")
    /\ UNCHANGED <<pos, saved, claims, loop, account, exchange, astray, bounds>>

\* An exception other than BinanceOrderError leaves the exit between two requests.
ExitBreaks(w) ==
    /\ worker[w].pc \in {"query", "cancel", "sell"} \/ (AtPc(w, "book") /\ worker[w].found # "none")
    /\ Fault("breaks") /\ Dies(w)
    /\ Step(w, "finish")
    /\ UNCHANGED <<pos, saved, claims, account, exchange, astray, bounds>>

\* A filled protective executed its lot, the market SELL what it reported.
Executed(w) == IF worker[w].found = "none" THEN worker[w].executed ELSE Lot

\* Mutation: whatever the SELL executed, the position closes.
BookClosing(w) ==
    /\ AtPc(w, "book")
    /\ pos' = [pos EXCEPT ![Key(w)] = [@ EXCEPT !.open = FALSE, !.stop = FALSE, !.take = FALSE]]
    /\ Step(w, "saveExit")
    /\ UNCHANGED <<saved, claims, loop, account, exchange, astray, bounds, faults>>

\* The position, read anew and whatever its status, shrinks or closes; either
\* way it forgets its protectives.
Book(w) ==
    /\ AtPc(w, "book")
    /\ LET old == pos[Key(w)]
           open == old.qty > Executed(w)
       IN pos' = [pos EXCEPT ![Key(w)] =
                    [open |-> open, qty |-> IF open THEN old.qty - Executed(w) ELSE old.qty,
                     stop |-> FALSE, take |-> FALSE, entry |-> old.entry]]
    /\ Step(w, "saveExit")
    /\ UNCHANGED <<saved, claims, loop, account, exchange, astray, bounds, faults>>

-------------------------------------------------------------------------------
(* The exchange and the process *)

\* A protective triggers and sells its lot, a second time if its sibling did.
Trigger(k, g, s) ==
    /\ prot[k][g][s] = "NEW"
    /\ prot' = [prot EXCEPT ![k][g][s] = "FILLED"]
    /\ held' = [held EXCEPT ![k] = @ - Lot]
    /\ Strays(k, IF \E other \in Sides \ {s} : prot[k][g][other] = "FILLED" THEN {"twice"} ELSE {})
    /\ UNCHANGED <<pos, saved, claims, worker, loop, account, gen, bounds, faults>>

\* What a restart loses of a key: a position not stored, an order between its
\* execution and the position that would know it.
Unstored(k) ==
    \/ saved[k] # pos[k]
    \/ \E w \in Workers : Key(w) = k /\ worker[w].pc \in {"stop", "unwind", "take", "open", "book"}

\* Memory is lost; positions are read back, and an account with automation or an
\* open position is reconnected, if its keys can be decrypted.
Crash ==
    /\ crashes < MaxCrashes
    /\ crashes' = crashes + 1
    /\ pos' = saved
    /\ inflight' = {} /\ pending' = {} /\ reconciled' = {}
    /\ worker' = [w \in Workers |-> Idle]
    /\ candidates' = {} /\ flat' = NoKey /\ looping' = TRUE
    /\ signals' = {}
    /\ session' \in {FALSE, automated \/ \E k \in Keys : saved[k].open}
    /\ astray' = [k \in Keys |-> astray[k] \cup IF Unstored(k) THEN {"crashed"} ELSE {}]
    /\ UNCHANGED <<saved, automated, trend, exchange, flips, logouts, faults>>

\* Nothing left to run: the process waits.
Quiet ==
    /\ \A w \in Workers : AtPc(w, "idle")
    /\ signals = {}
    /\ UNCHANGED vars

Enter(w) ==
    \/ Buy(w) \/ BuyRefused(w) \/ PlaceStop(w) \/ StopRefused(w)
    \/ Unwind(w) \/ UnwindRefused(w) \/ PlaceTake(w) \/ TakeRefused(w)
    \/ OpenPosition(w)

Exit(w) ==
    \/ ExitStart(w) \/ QueryProtective(w) \/ CancelProtective(w)
    \/ Sell(w) \/ SellRefused(w) \/ ExitBreaks(w) \/ Book(w)

Claim(w, k) == SignalBuy(w, k) \/ SignalExit(w, k) \/ TickExit(w, k)

Reconcile(k) == ReconcileLook(k) \/ ReconcileExit(k) \/ ReconcileSkip(k)

Run(w) == Enter(w) \/ Exit(w) \/ SavePosition(w) \/ Finish(w)

Next ==
    \/ \E w \in Workers : Run(w) \/ \E k \in Keys : Claim(w, k)
    \/ ReconcileBegin
    \/ \E k \in Keys : Flip(k) \/ SignalDropped(k) \/ Reconcile(k)
    \/ \E k \in Keys, g \in Entries, s \in Sides : Trigger(k, g, s)
    \/ SetAutomation \/ Logout \/ Login
    \/ Crash
    \/ Quiet

Spec == Init /\ [][Next]_vars

-------------------------------------------------------------------------------
(* Properties *)

\* Concurrent work on one key is impossible, whatever mix of signals, ticks,
\* manual square-offs and reconciliation arrives and whatever step fails or
\* restarts, unless the reconciliation loop discards a claim that is not its own:
\* nothing else lets two tasks run on one key.
OneWorkerPerKey ==
    \A w1, w2 \in Workers :
      w1 # w2 /\ Busy(w1) /\ Busy(w2) /\ Key(w1) = Key(w2) => "robbed" \in astray[Key(w1)]

\* The same without the exception, as the README has it: "Prevent duplicate and
\* concurrent positions per symbol/variant."
NoConcurrentWork ==
    \A w1, w2 \in Workers : w1 # w2 /\ Busy(w1) /\ Busy(w2) => Key(w1) # Key(w2)

\* Concurrent BUY signals cannot push the account over its limit of open
\* positions: keys being entered count before their position exists.  Only a key
\* whose close a restart forgot, or two tasks worked on, can come on top.
EntryLimit ==
    Cardinality({k \in OpenKeys \cup pending :
                   astray[k] \cap {"robbed", "crashed"} = {}}) <= MaxOpen

\* Away from work in progress the books are true: an open position is what the
\* strategy still holds, unless a protective filled and nobody looked yet, and
\* without one it holds nothing.  Only a key that went astray in one of the six
\* ways listed with Reasons is excepted.
BooksMatch ==
    \A k \in Keys \ inflight :
      LET filled == \E s \in Sides : /\ pos[k].open /\ HasId(pos[k], s)
                                     /\ OrderState(k, pos[k], s) = "FILLED"
      IN astray[k] = {} => held[k] = IF pos[k].open /\ ~filled THEN pos[k].qty ELSE 0

\* A resting protective is known to the open position it protects: none is
\* left behind to sell a later lot.  A key is excepted once its claim was
\* discarded, a restart or an exception came between an order and its position,
\* or a cancellation failed; an emergency sell that failed excepts none.
LiveSellTracked ==
    \A k \in Keys \ inflight, g \in Entries, s \in Sides :
      /\ astray[k] \cap {"robbed", "crashed", "lost", "uncancelled"} = {}
      /\ prot[k][g][s] = "NEW"
      => pos[k].open /\ pos[k].entry = g /\ HasId(pos[k], s)

\* The README's promise that a flat position never keeps a live sell order
\* behind it; a failed cancellation is only logged and the id forgotten.
FlatHasNoLiveSell ==
    \A k \in Keys \ inflight : ~pos[k].open => LiveSells(k) = {}

\* The README's promise that every automated position is protected by a native
\* stop and a native take profit of its whole size: with no fault at all, what is
\* open has both.
BothProtectives ==
    \A k \in Keys \ inflight :
      faults = 0 /\ pos[k].open => pos[k].stop /\ pos[k].take

\* Whatever the strategy holds has a position that can be squared off.
HoldingsManaged == \A k \in Keys \ inflight : held[k] > 0 => pos[k].open

\* An exit checks its protectives first, so it never sells a lot twice.
NeverOversold == \A k \in Keys : held[k] >= 0

\* Every claimed key is given back, on every path through entry and exit.
ClaimsEnd == \A k \in Keys : (k \in inflight) ~> (k \notin inflight)

\* The reconciliation docstring: an open position whose symbol is no longer in
\* an uptrend is closed.
FlatIsClosed == \A k \in Keys : (pos[k].open /\ ~trend[k]) ~> (~pos[k].open \/ trend[k])

-------------------------------------------------------------------------------
(* Fairness: tasks run on and signal tasks start; with the loop, it comes       *)
(* around every reconciliation interval while it lives and the account is      *)
(* connected.  Prices, users and the exchange owe nothing.                     *)

Fairness ==
    /\ \A w \in Workers : WF_vars(Run(w))
    /\ \A k \in Keys :
         /\ SF_vars(\E w \in Workers : SignalBuy(w, k) \/ SignalExit(w, k))
         /\ WF_vars(SignalDropped(k))

LiveSpec == Spec /\ Fairness

LoopSpec == LiveSpec /\ SF_vars(ReconcileBegin) /\ \A k \in Keys : SF_vars(Reconcile(k))
===============================================================================
