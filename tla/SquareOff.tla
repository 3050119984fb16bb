------------------------------- MODULE SquareOff -------------------------------
(***************************************************************************)
(* Closing one filled order with its opposite (square_off_order), next to  *)
(* the strategy's exit of the same lot (_exit), the native stop that sells *)
(* it at the exchange, and the three places that remember how much of an   *)
(* order is still open: the fills at Binance, the order_matches table and  *)
(* OrderService._open_order_positions (services/order_service.py,          *)
(* services/db_handler.py).                                                *)
(*                                                                         *)
(* One account, one symbol, a price of one quote unit per base unit, one   *)
(* protective order for an entry.  A task is one request or one exit; a    *)
(* step goes from one await to the next.                                   *)
(***************************************************************************)
EXTENDS Integers, FiniteSets, FiniteSetsExt

CONSTANTS Tasks,
          MaxOrders,   \* bound on orders that executed
          Lot,         \* quantity of an order placed by hand or as an entry
          Spare,       \* base asset owned from the start
          Funds,       \* quote asset owned from the start
          Exits,       \* whether the strategy takes part
          MaxFaults    \* bound on lost answers, failed writes and restarts

ASSUME BoundAssumption ==
    /\ {MaxOrders, Spare, Funds, MaxFaults} \subseteq Nat
    /\ Lot \in Nat \ {0} /\ Exits \in BOOLEAN

VARIABLES orders,    \* executed orders at the exchange, by id
          base, quote, \* free balances at the exchange
          resting,   \* entry orders whose native stop rests at the exchange, its lot locked
          fill,      \* fill[o]: the order that the stop of entry o executed as, or 0
          rows,      \* order_matches table
          tracked,   \* _open_order_positions, 0 for no entry
          squaring,  \* _squaring_orders
          position,  \* open quantity of the strategy position an entry order opened
          saved,     \* ... and in the row of the position
          task,      \* task[t]: what it is doing
          astray,    \* <<o, reason>>: what happened to order o out of line
          faults

exchange == <<orders, base, quote, resting, fill>>
memory == <<tracked, squaring, position>>
vars == <<exchange, rows, saved, memory, task, astray, faults>>

Ids == 1 .. MaxOrders
Amounts == 0 .. Lot
Sides == {"BUY", "SELL"}
Nobody == [side |-> "none", qty |-> 0, filled |-> FALSE, closes |-> 0, square |-> FALSE]
Doing(pc, exits, order, want) ==
    [pc |-> pc, exits |-> exits, order |-> order, want |-> want, exit |-> 0]
Idle == Doing("idle", FALSE, 0, 0)
Reasons == {"queried", "cut", "shared", "raced"}

Placed == {o \in Ids : orders[o] # Nobody}

\* What the exchange executed to close o: a quantity is summed by counting the
\* units <<x, 1>>, <<x, 2>>, ... of each order x.
Closings(o) == {x \in Placed : orders[x].closes = o}
Closed(o) == Cardinality({u \in Closings(o) \X (1 .. Lot) : u[2] <= orders[u[1]].qty})

\* What the rows say was matched of o as an entry, and altogether.
Row(entry, exit) == {r \in rows : r.entry = entry /\ r.exit = exit}
MatchedBy(o) == Cardinality({u \in Ids \X (1 .. Lot) : \E r \in Row(o, u[1]) : u[2] <= r.qty})
MatchedAs(o) == Cardinality({u \in Ids \X (1 .. Lot) : \E r \in Row(u[1], o) : u[2] <= r.qty})
Matched(o) == MatchedBy(o) + MatchedAs(o)

Squares == {t \in Tasks : task[t].pc # "idle" /\ ~task[t].exits}
Busy(o) == \E t \in Tasks : task[t].order = o

TypeOK ==
    /\ orders \in [Ids -> [side : Sides \cup {"none"}, qty : Amounts, filled : BOOLEAN,
                           closes : 0 .. MaxOrders, square : BOOLEAN]]
    /\ base \in Nat /\ quote \in Nat
    /\ rows \subseteq [entry : Ids, exit : Ids, qty : Amounts \ {0}]
    /\ \A r, s \in rows : r.entry = s.entry /\ r.exit = s.exit => r = s
    /\ resting \subseteq Ids /\ fill \in [Ids -> 0 .. MaxOrders]
    /\ tracked \in [Ids -> Amounts]
    /\ position \in [Ids -> Amounts] /\ saved \in [Ids -> Amounts]
    /\ squaring \subseteq Ids
    /\ task \in [Tasks -> [pc : {"idle", "query", "matches", "look", "cancel", "balance", "post",
                                 "unknown", "record", "match", "row"},
                           exits : BOOLEAN, order : 0 .. MaxOrders, want : Amounts,
                           exit : 0 .. MaxOrders]]
    /\ astray \subseteq Ids \X Reasons
    /\ faults \in 0 .. MaxFaults

-------------------------------------------------------------------------------
(* Steps shared by the operations                                             *)

Opposite(side) == IF side = "BUY" THEN "SELL" ELSE "BUY"
Available(side) == IF side = "SELL" THEN base ELSE quote

\* Order o, the next one, executes at the exchange.
Execute(o, side, qty, whole, closes, square) ==
    /\ o \notin Placed /\ \A p \in Ids : p < o => p \in Placed
    /\ orders' = [orders EXCEPT ![o] = [side |-> side, qty |-> qty, filled |-> whole,
                                       closes |-> closes, square |-> square]]
    /\ quote' = IF side = "SELL" THEN quote + qty ELSE quote - qty

Moves(side, qty) == base' = IF side = "SELL" THEN base - qty ELSE base + qty

\* _record of a response: a FILLED order is tracked with all it executed,
\* whatever has been closed of it since.
Noted(o) == IF orders[o].filled THEN [tracked EXCEPT ![o] = orders[o].qty] ELSE tracked
Resets(o) == IF orders[o].filled /\ (Closed(o) > 0 \/ orders[o].closes # 0)
             THEN {<<o, "queried">>} ELSE {}

Goes(t, pc) == task' = [task EXCEPT ![t].pc = pc]

\* Mutation: only a square-off that succeeded gives its claim back.
EndKeeping(t) ==
    /\ task' = [task EXCEPT ![t] = Idle]
    /\ squaring' = IF task[t].pc = "row" THEN squaring \ {task[t].order} ELSE squaring

\* The finally block.
End(t) ==
    /\ task' = [task EXCEPT ![t] = Idle]
    /\ squaring' = IF task[t].exits THEN squaring ELSE squaring \ {task[t].order}

Fault == faults < MaxFaults /\ faults' = faults + 1

-------------------------------------------------------------------------------
(* Orders placed and asked for                                                *)

\* An order of the account fills at once; as a strategy entry it opens a position
\* whose stop locks what was bought.
Place(side, entry) ==
    /\ Available(side) >= Lot
    /\ entry => Exits /\ side = "BUY"
    /\ \E o \in Ids :
         /\ Execute(o, side, Lot, TRUE, 0, FALSE)
         /\ tracked' = [tracked EXCEPT ![o] = Lot]
         /\ IF entry
            THEN /\ position' = [position EXCEPT ![o] = Lot] /\ saved' = [saved EXCEPT ![o] = Lot]
                 /\ resting' = resting \cup {o} /\ UNCHANGED base
            ELSE Moves(side, Lot) /\ UNCHANGED <<position, saved, resting>>
    /\ UNCHANGED <<fill, rows, squaring, task, astray, faults>>

\* A close of o by square-off (square) or by the strategy is one of two when the
\* other has closed a part of o, or is at it.
Shared(o, square) ==
    LET other == \/ \E x \in Closings(o) : orders[x].square # square
                 \/ \E u \in Tasks : task[u].order = o /\ task[u].exits = square
    IN IF other THEN {<<o, "shared">>} ELSE {}

\* An exit of o that has asked for the stop and takes it for one still waiting.
Past(u, o) == task[u].exits /\ task[u].order = o /\ task[u].pc # "look"

\* The native stop of an entry sells the lot.
Trigger(o) ==
    /\ o \in resting
    /\ \E x \in Ids :
         /\ Execute(x, "SELL", Lot, TRUE, o, FALSE)
         /\ fill' = [fill EXCEPT ![o] = x]
    /\ resting' = resting \ {o}
    /\ astray' = astray \cup Shared(o, FALSE)
                   \cup (IF \E u \in Tasks : Past(u, o) THEN {<<o, "raced">>} ELSE {})
    /\ UNCHANGED <<base, rows, saved, memory, task, faults>>

\* GET of one order: query_order records what it read.
QueryOrder(o) ==
    /\ o \in Placed
    /\ tracked' = Noted(o) /\ astray' = astray \cup Resets(o)
    /\ UNCHANGED <<exchange, rows, saved, squaring, position, task, faults>>

-------------------------------------------------------------------------------
(* square_off_order                                                           *)

\* Mutation: the claim of another request is not looked at.
ClaimAlways(t, o) ==
    /\ task[t].pc = "idle" /\ o \in Placed
    /\ squaring' = squaring \cup {o}
    /\ task' = [task EXCEPT ![t] = Doing("query", FALSE, o, tracked[o])]
    /\ UNCHANGED <<exchange, rows, saved, tracked, position, astray, faults>>

\* The order is claimed and what memory tracks of it read.
Claim(t, o) ==
    /\ task[t].pc = "idle" /\ o \in Placed \ squaring
    /\ squaring' = squaring \cup {o}
    /\ task' = [task EXCEPT ![t] = Doing("query", FALSE, o, tracked[o])]
    /\ UNCHANGED <<exchange, rows, saved, tracked, position, astray, faults>>

\* A signed-in account has no process-wide history: the order is always asked
\* for, and recorded.  Only a filled one goes on.
Query(t) ==
    LET o == task[t].order
    IN /\ task[t].pc = "query"
       /\ tracked' = Noted(o) /\ astray' = astray \cup Resets(o)
       /\ IF orders[o].filled THEN Goes(t, "matches") /\ UNCHANGED squaring ELSE End(t)
       /\ UNCHANGED <<exchange, rows, saved, position, faults>>

\* min(remaining or tracked, tracked), and remaining alone without an entry.
Remaining(o) == Max({0, orders[o].qty - Matched(o)})
ToClose(o, known) ==
    LET remaining == Remaining(o)
    IN CASE known = 0 -> remaining
         [] known # 0 /\ remaining = 0 -> known
         [] OTHER -> Min({remaining, known})

Matches(t) ==
    LET want == ToClose(task[t].order, task[t].want)
    IN /\ task[t].pc = "matches"
       /\ IF want = 0 THEN End(t)
          ELSE task' = [task EXCEPT ![t].pc = "balance", ![t].want = want] /\ UNCHANGED squaring
       /\ UNCHANGED <<exchange, rows, saved, tracked, position, astray, faults>>

\* The exchange did not answer, or refused what was only asked for; an exit that
\* looks at its stop goes on then, but not when the database failed on the way.
Fails(t) ==
    /\ task[t].pc \in {"query", "matches", "look", "cancel", "balance", "post"} /\ End(t)
    /\ UNCHANGED <<exchange, rows, saved, tracked, position, astray, faults>>

-------------------------------------------------------------------------------
(* _exit of a strategy position, up to its sale                               *)

\* The position has the id of its stop until an exit took a part of it.
Stopped(o) == position[o] = orders[o].qty

\* The entry order of the position is all the two operations have in common:
\* neither looks at the other's claim, and a square-off leaves the position open.
StartExit(t, o) ==
    /\ task[t].pc = "idle" /\ position[o] > 0
    /\ ~\E u \in Tasks : task[u].exits /\ task[u].order = o
    /\ task' = [task EXCEPT ![t] =
                  Doing(IF Stopped(o) THEN "look" ELSE "balance", TRUE, o, position[o])]
    /\ UNCHANGED <<exchange, rows, saved, memory, astray, faults>>

\* Mutation: the stop is cancelled without a look at whether it has executed.
LookAway(t) ==
    /\ task[t].pc = "look" /\ Goes(t, "cancel")
    /\ UNCHANGED <<exchange, rows, saved, memory, astray, faults>>

\* _resolve_protectives asks for the stop.  A stop that executed is the exit, and
\* is taken from the position at once; an answer that does not come counts as none.
Look(t) ==
    LET o == task[t].order
        x == fill[o]
    IN /\ task[t].pc = "look"
       /\ \/ /\ x # 0
             /\ tracked' = Noted(x) /\ UNCHANGED astray
             /\ task' = [task EXCEPT ![t].pc = "match", ![t].want = position[o], ![t].exit = x]
             /\ position' = [position EXCEPT ![o] = Max({0, position[o] - orders[x].qty})]
          \/ /\ Goes(t, "cancel") /\ UNCHANGED <<tracked, position>>
             /\ astray' = IF x # 0 THEN astray \cup {<<o, "raced">>} ELSE astray
       /\ UNCHANGED <<exchange, rows, saved, squaring, faults>>

\* ... and cancels it; a refusal is only logged.
Cancel(t) ==
    LET o == task[t].order
    IN /\ task[t].pc = "cancel" /\ Goes(t, "balance")
       /\ \/ /\ o \in resting /\ resting' = resting \ {o} /\ base' = base + Lot
             /\ UNCHANGED astray
          \/ /\ UNCHANGED <<resting, base>>
             /\ astray' = IF o \in resting THEN astray \cup {<<o, "raced">>} ELSE astray
       /\ UNCHANGED <<orders, quote, fill, rows, saved, memory, faults>>

-------------------------------------------------------------------------------
(* The closing order                                                          *)

CloseSide(t) == Opposite(orders[task[t].order].side)

\* _sellable_quantity, _buyable_quantity.
Balance(t) ==
    LET want == Min({task[t].want, Available(CloseSide(t))})
    IN /\ task[t].pc = "balance"
       /\ IF want = 0 THEN End(t)
          ELSE task' = [task EXCEPT ![t].pc = "post", ![t].want = want] /\ UNCHANGED squaring
       /\ UNCHANGED <<exchange, rows, saved, tracked, position, astray, faults>>

\* The market order executes, wholly or in part, and its answer arrives or not.
Post(t) ==
    LET o == task[t].order
    IN /\ task[t].pc = "post" /\ Available(CloseSide(t)) >= task[t].want
       /\ \E x \in Ids, qty \in 1 .. task[t].want :
            /\ Execute(x, CloseSide(t), qty, qty = task[t].want, o, ~task[t].exits)
            /\ Moves(CloseSide(t), qty)
            /\ \/ /\ task' = [task EXCEPT ![t].pc = "record", ![t].exit = x]
                  /\ UNCHANGED faults
               \/ task' = [task EXCEPT ![t].pc = "unknown", ![t].exit = x] /\ Fault
       /\ astray' = astray \cup Shared(o, ~task[t].exits)
       /\ UNCHANGED <<resting, fill, rows, saved, memory>>

PostLost(t) ==
    /\ task[t].pc = "post" /\ Goes(t, "unknown") /\ Fault
    /\ UNCHANGED <<exchange, rows, saved, memory, astray>>

\* Orders at the exchange with the client id of t's: all square-offs of one
\* order carry the same.
SameClientId(t) == IF task[t].exits THEN {task[t].exit} \ {0}
                   ELSE {x \in Closings(task[t].order) : orders[x].square}

\* The two orders whose row is lost, once both are tracked.
Cut(t) ==
    IF task[t].exit = 0 THEN {}
    ELSE {<<task[t].order, "cut">>}
           \cup (IF task[t].pc = "match" THEN {<<task[t].exit, "cut">>} ELSE {})

\* reconcile_unknown: the answer is the newest order of that client id, which
\* may be one of an earlier square-off; or nothing is learnt and the request
\* fails, whether the order executed or not.
Reconcile(t) ==
    /\ task[t].pc = "unknown"
    /\ \/ /\ SameClientId(t) # {}
          /\ task' = [task EXCEPT ![t].pc = "record", ![t].exit = Max(SameClientId(t))]
          /\ UNCHANGED <<squaring, astray>>
       \/ End(t) /\ astray' = astray \cup Cut(t)
    /\ UNCHANGED <<exchange, rows, saved, tracked, position, faults>>

\* place_order's _record of the closing order; an exit then takes what executed
\* from its position, and passes the quantity that was open as the entry's.
Record(t) ==
    LET o == task[t].order
        left == Max({0, position[o] - orders[task[t].exit].qty})
    IN /\ task[t].pc = "record"
       /\ tracked' = Noted(task[t].exit)
       /\ task' = [task EXCEPT ![t].pc = "match",
                               ![t].want = IF task[t].exits THEN position[o] ELSE orders[o].qty]
       /\ position' = IF task[t].exits THEN [position EXCEPT ![o] = left] ELSE position
       /\ UNCHANGED <<exchange, rows, saved, squaring, astray, faults>>

\* Mutation: the closing order stays tracked as one that is open.
MatchKeepingExit(t) ==
    LET o == task[t].order
        known == IF tracked[o] # 0 THEN tracked[o] ELSE task[t].want
    IN /\ task[t].pc = "match" /\ Goes(t, "row")
       /\ saved' = IF task[t].exits THEN [saved EXCEPT ![o] = position[o]] ELSE saved
       /\ tracked' = [tracked EXCEPT ![o] = Max({0, known - orders[task[t].exit].qty})]
       /\ UNCHANGED <<exchange, rows, squaring, position, astray, faults>>

\* Mutation: an entry is only removed once exactly nothing is left.
MatchUnfloored(t) ==
    LET o == task[t].order
        known == IF tracked[o] # 0 THEN tracked[o] ELSE task[t].want
    IN /\ task[t].pc = "match" /\ Goes(t, "row")
       /\ saved' = IF task[t].exits THEN [saved EXCEPT ![o] = position[o]] ELSE saved
       /\ tracked' = [tracked EXCEPT ![o] = known - orders[task[t].exit].qty,
                                     ![task[t].exit] = 0]
       /\ UNCHANGED <<exchange, rows, squaring, position, astray, faults>>

\* An exit saves its position; then _record_order_match, in memory ...
Match(t) ==
    LET o == task[t].order
        known == IF tracked[o] # 0 THEN tracked[o] ELSE task[t].want
    IN /\ task[t].pc = "match" /\ Goes(t, "row")
       /\ saved' = IF task[t].exits THEN [saved EXCEPT ![o] = position[o]] ELSE saved
       /\ tracked' = [tracked EXCEPT ![o] = Max({0, known - orders[task[t].exit].qty}),
                                     ![task[t].exit] = 0]
       /\ UNCHANGED <<exchange, rows, squaring, position, astray, faults>>

\* Mutation: the row has the quantity that was open.
StoreOfEntry(t) ==
    LET row == [entry |-> task[t].order, exit |-> task[t].exit, qty |-> task[t].want]
    IN /\ task[t].pc = "row" /\ End(t)
       /\ rows' = IF Row(row.entry, row.exit) # {} THEN rows ELSE rows \cup {row}
       /\ UNCHANGED <<exchange, saved, tracked, position, astray, faults>>

\* ... and in the table, ON CONFLICT DO NOTHING.
Store(t) ==
    LET row == [entry |-> task[t].order, exit |-> task[t].exit, qty |-> orders[task[t].exit].qty]
    IN /\ task[t].pc = "row" /\ End(t)
       /\ rows' = IF Row(row.entry, row.exit) # {} THEN rows ELSE rows \cup {row}
       /\ UNCHANGED <<exchange, saved, tracked, position, astray, faults>>

\* A write to the database raises: log_user_order, save_user_position or
\* record_order_match.
WriteFails(t) ==
    /\ task[t].pc \in {"record", "row"} \cup (IF task[t].exits THEN {"match"} ELSE {})
    /\ Fault
    /\ End(t) /\ astray' = astray \cup Cut(t)
    /\ UNCHANGED <<exchange, rows, saved, tracked, position>>

\* A restart: what is open is no longer in memory; the position comes from its row.
Restart ==
    /\ Fault
    /\ tracked' = [o \in Ids |-> 0] /\ squaring' = {} /\ task' = [t \in Tasks |-> Idle]
    /\ position' = saved
    /\ astray' = astray \cup UNION {Cut(t) : t \in Tasks}
    /\ UNCHANGED <<exchange, rows, saved>>

-------------------------------------------------------------------------------

Init ==
    /\ orders = [o \in Ids |-> Nobody] /\ base = Spare /\ quote = Funds /\ rows = {}
    /\ resting = {} /\ fill = [o \in Ids |-> 0]
    /\ tracked = [o \in Ids |-> 0] /\ squaring = {}
    /\ position = [o \in Ids |-> 0] /\ saved = [o \in Ids |-> 0]
    /\ task = [t \in Tasks |-> Idle] /\ astray = {} /\ faults = 0

Step(t) ==
    \/ Query(t) \/ Matches(t) \/ Look(t) \/ Cancel(t)
    \/ Fails(t) \/ Balance(t) \/ Post(t) \/ PostLost(t) \/ Reconcile(t)
    \/ Record(t) \/ Match(t) \/ Store(t) \/ WriteFails(t)

Next ==
    \/ \E side \in Sides, entry \in BOOLEAN : Place(side, entry)
    \/ \E o \in Ids : QueryOrder(o) \/ Trigger(o)
    \/ \E t \in Tasks : Step(t) \/ \E o \in Ids : Claim(t, o) \/ StartExit(t, o)
    \/ Restart

Spec == Init /\ [][Next]_vars

-------------------------------------------------------------------------------
(* Properties *)

Astray(o) == \E reason \in Reasons : <<o, reason>> \in astray

\* "Whether a lot is already squared off is decided by Binance's own fill ledger
\* (via FIFO), never by remembered client state" (square_off_order): no more of
\* an order is ever closed than it executed.
ClosedOnce == \A o \in Placed : Closed(o) <= orders[o].qty

\* What is left of that: an order closed beyond its quantity was read back by
\* query_order after a part of it had been closed or as a close itself, or lost the
\* row of a close to a crash, an unknown outcome or a failed write, or was sold by
\* the strategy too, or has a stop that executed after the exit had asked for it,
\* or that the exit could not ask for or not cancel.
ClosedOnceUnlessAstray ==
    \A o \in Placed : Closed(o) > orders[o].qty => Astray(o)

\* The execution of a stop has its row only once an exit found it.
Unbooked(o) == IF fill[o] # 0 /\ Row(o, fill[o]) = {} THEN orders[fill[o]].qty ELSE 0

\* The table and the exchange agree on every order nobody is closing, however
\* its close was executed in parts, repeated or answered late, but for a stop that
\* executed: the position then still has its id, so that an exit will book it, or
\* exits have sold the lot next to it.
RowsTell ==
    \A o \in Placed : Busy(o) \/ <<o, "cut">> \in astray \/
      /\ Closed(o) = MatchedBy(o) + Unbooked(o)
      /\ Unbooked(o) = 0 \/ Stopped(o) \/ <<o, "raced">> \in astray

\* Memory and table agree on what is left of an order nobody is closing.
TrackedTells ==
    \A o \in Placed :
      tracked[o] = 0 \/ Astray(o)
        \/ (\E t \in Tasks : task[t].pc # "idle" /\ (task[t].order = o \/ task[t].exit = o))
        \/ tracked[o] = Remaining(o)

\* Every claim has the one request that will give it back, whatever fails on the
\* way: a claim left behind would refuse the order until a restart.
ClaimsHeld ==
    /\ squaring = {task[t].order : t \in Squares}
    /\ \A t, u \in Squares : task[t].order = task[u].order => t = u
===============================================================================
