----------------------------- MODULE PreTradeRisk -----------------------------
(***************************************************************************)
(* Capital reservations of one (account, asset) key: PreTradeRiskEngine    *)
(* (services/pretrade_risk.py) driven by OrderService.place_order, the     *)
(* reconciliation loop, the sweep a reconnecting account starts, and the   *)
(* user's own order queries and cancellations (services/order_service.py). *)
(* Keys share no state, so one key is enough.                              *)
(*                                                                         *)
(* The process is one asyncio event loop: a step runs from one await to    *)
(* the next, and steps of different tasks interleave at the awaits.        *)
(***************************************************************************)
EXTENDS Integers, FiniteSets, Functions

CONSTANTS Orders,          \* calls of place_order; each has its reservation
          Loops,           \* _reconciliation_loop tasks (the process has one)
          Reconnects,      \* sweeps started by connect_user_credentials
          Users,           \* clients that query or cancel single orders
          Amount,          \* Amount[o]: what order o requires of the asset
          HasClient,       \* orders sent with a newClientOrderId
          Capped,          \* BUY orders, square-offs excepted: utilization limit
          Balance,         \* the asset's free balance at the exchange at start
          MaxUtilization,  \* max_order_balance_utilization_percent
          Attempts,        \* ReconciliationService attempts
          MaxCrashes,      \* bound on process crashes
          MaxFaults,       \* bound on failed writes and unreadable answers
          NoTask

Sweepers == Loops \cup Reconnects
Tasks == Orders \cup Sweepers \cup Users

ASSUME TaskAssumption ==
    /\ Orders \cap Sweepers = {} /\ Orders \cap Users = {}
    /\ Loops \cap Reconnects = {} /\ Sweepers \cap Users = {}
    /\ NoTask \notin Tasks

ASSUME ValueAssumption ==
    /\ Amount \in [Orders -> Nat \ {0}]
    /\ HasClient \subseteq Orders /\ Capped \subseteq Orders
    /\ Balance \in Nat /\ MaxUtilization \in 1 .. 100 /\ Attempts \in Nat
    /\ MaxCrashes \in Nat /\ MaxFaults \in Nat

VARIABLES order,      \* order[o]: where the order is, in transit or at the exchange
          exchFree,   \* free balance the exchange reports
          rows,       \* risk_reservations table: orders with a row
          reserved,   \* _reserved[key]
          uncertain,  \* _uncertain
          lock,       \* holder of _locks[key]
          snapshot,   \* balance the task inside reserve has read, until used
          pc,         \* pc[t]: the await each task is at
          job,        \* job[t]: the answer task t is about to acknowledge
          tries,      \* tries[o]: queries made by reconcile_unknown
          todo,       \* todo[s]: rest of the sweep's pending() snapshot
          active,     \* the account has a verified session in memory
          crashes, faults,
          holding,    \* auxiliary: reservations counted in reserved
          repeats,    \* auxiliary: reservations released again after a release
          denied      \* auxiliary: orders answered with an error that decided nothing

vars == <<order, exchFree, rows, reserved, uncertain, lock, snapshot, pc, job,
          tries, todo, active, crashes, faults, holding, repeats, denied>>

exchange == <<order, exchFree, denied>>
ledger == <<reserved, uncertain, holding, repeats>>
progress == <<tries, todo, active>>
counters == <<crashes, faults>>

-------------------------------------------------------------------------------
(* Types and derived state *)

OrderState == {"unsent", "flying", "lost", "rejected", "NEW", "FILLED", "CANCELED"}
Known == {"NEW", "FILLED", "CANCELED"}          \* the exchange can answer a query
Live == {"flying", "NEW"}                       \* may still take or hold capital

\* REJECTED stands for an error answer; FILLED and CANCELED for every
\* member of TERMINAL_STATUSES; NEW for every other status an answer carries;
\* UNKNOWN for the call of mark_uncertain.
TERMINAL_STATUSES == {"FILLED", "CANCELED", "REJECTED"}
Status == TERMINAL_STATUSES \cup {"NEW", "UNKNOWN"}

NoJob == [order |-> NoTask, status |-> "UNKNOWN"]
Job == [order : Orders, status : Status] \cup {NoJob}

PlacePc == {"idle", "loading", "checking", "saving", "posting", "acquire",
            "writing", "query", "done"}
SweepPc == {"idle", "sweep", "acquire", "writing", "dead"}
UserPc == {"idle", "asked", "acquire", "writing"}

Total(S) == SumFunctionOnSet(Amount, S)

\* Mutation: no floor.
MonusUnclamped(a, b) == a - b

\* _reserved never goes below zero: an entry that would is dropped.
Monus(a, b) == IF a > b THEN a - b ELSE 0

At(t, label) == pc[t] = label
Go(t, label) == pc' = [pc EXCEPT ![t] = label]

StateOK ==
    /\ order \in [Orders -> OrderState]
    /\ exchFree \in Int /\ snapshot \in Int
    /\ rows \subseteq Orders
    /\ uncertain \subseteq Orders
    /\ lock \in Tasks \cup {NoTask}
    /\ pc \in [Tasks -> PlacePc \cup SweepPc \cup UserPc]
    /\ job \in [Tasks -> Job]
    /\ tries \in [Orders -> 0 .. Attempts]
    /\ todo \in [Sweepers -> SUBSET Orders]
    /\ crashes \in 0 .. MaxCrashes /\ faults \in 0 .. MaxFaults
    /\ holding \subseteq Orders /\ repeats \subseteq Orders
    /\ active \in BOOLEAN /\ denied \subseteq Orders

TypeOK == StateOK /\ reserved \in Nat

Init ==
    /\ order = [o \in Orders |-> "unsent"]
    /\ exchFree = Balance /\ snapshot = 0
    /\ rows = {} /\ reserved = 0 /\ uncertain = {}
    /\ lock = NoTask
    /\ pc = [t \in Tasks |-> "idle"]
    /\ job = [t \in Tasks |-> NoJob]
    /\ tries = [o \in Orders |-> 0]
    /\ todo = [s \in Sweepers |-> {}]
    /\ crashes = 0 /\ faults = 0
    /\ active = TRUE
    /\ holding = {} /\ repeats = {} /\ denied = {}

-------------------------------------------------------------------------------
(* PreTradeRiskEngine.reserve, inside place_order *)

\* A guard before the lock refuses the order: kill switch, circuit breaker,
\* filters, stale market data, a zero requirement or the notional limit.
Refuse(o) ==
    /\ At(o, "idle")
    /\ Go(o, "done")
    /\ UNCHANGED <<exchange, rows, ledger, lock, snapshot, job, progress, counters>>

\* Enter the key's lock and ask the exchange for the account.
ReserveBegin(o) ==
    /\ At(o, "idle") /\ lock = NoTask
    /\ lock' = o
    /\ Go(o, "loading")
    /\ UNCHANGED <<exchange, rows, ledger, snapshot, job, progress, counters>>

\* The exchange answers with the balance it has at that moment.
AccountAnswers(o) ==
    /\ At(o, "loading")
    /\ snapshot' = exchFree
    /\ Go(o, "checking")
    /\ UNCHANGED <<exchange, rows, ledger, lock, job, progress, counters>>

AccountFails(o) ==
    /\ At(o, "loading")
    /\ lock' = NoTask
    /\ Go(o, "done")
    /\ UNCHANGED <<exchange, rows, ledger, snapshot, job, progress, counters>>

\* Mutation: capital already reserved is not subtracted.
AffordableAlone(o) ==
    /\ Amount[o] <= snapshot
    /\ o \in Capped => Amount[o] * 100 <= MaxUtilization * snapshot

Affordable(o) ==
    LET free == snapshot - reserved IN
    /\ free > 0 /\ Amount[o] <= free
    /\ o \in Capped => Amount[o] * 100 <= MaxUtilization * free

\* The in-memory ledger is charged before the row is written.
Admit(o) ==
    /\ At(o, "checking") /\ Affordable(o)
    /\ reserved' = reserved + Amount[o]
    /\ holding' = holding \cup {o}
    /\ snapshot' = 0
    /\ Go(o, "saving")
    /\ UNCHANGED <<exchange, rows, uncertain, repeats, lock, job, progress, counters>>

Deny(o) ==
    /\ At(o, "checking") /\ ~Affordable(o)
    /\ snapshot' = 0
    /\ lock' = NoTask
    /\ Go(o, "done")
    /\ UNCHANGED <<exchange, rows, ledger, job, progress, counters>>

\* The PENDING row is stored, the lock released and the order sent.
SaveReservation(o) ==
    /\ At(o, "saving")
    /\ rows' = rows \cup {o}
    /\ order' = [order EXCEPT ![o] = "flying"]
    /\ lock' = NoTask
    /\ Go(o, "posting")
    /\ UNCHANGED <<exchFree, denied, ledger, snapshot, job, progress, counters>>

\* Mutation: the charge stays.
SaveFailsKeepingCharge(o) ==
    /\ At(o, "saving") /\ faults < MaxFaults
    /\ faults' = faults + 1
    /\ holding' = holding \ {o}
    /\ lock' = NoTask
    /\ Go(o, "done")
    /\ UNCHANGED <<exchange, rows, reserved, uncertain, repeats, snapshot, job, progress, crashes>>

\* The row cannot be stored: the charge is rolled back and the order given up.
SaveFails(o) ==
    /\ At(o, "saving") /\ faults < MaxFaults
    /\ faults' = faults + 1
    /\ reserved' = Monus(reserved, Amount[o])
    /\ holding' = holding \ {o}
    /\ lock' = NoTask
    /\ Go(o, "done")
    /\ UNCHANGED <<exchange, rows, uncertain, repeats, snapshot, job, progress, crashes>>

-------------------------------------------------------------------------------
(* The exchange: what place_order relies on *)

\* An answer to the POST, if place_order still waits for it.
Reply(o, status) ==
    job' = IF At(o, "posting") /\ job[o] = NoJob
             THEN [job EXCEPT ![o] = [order |-> o, status |-> status]]
             ELSE job

\* Accepted, to rest (its capital is locked) or executed at once.
Accept(o) ==
    /\ order[o] = "flying" /\ Amount[o] <= exchFree
    /\ exchFree' = exchFree - Amount[o]
    /\ \E status \in {"NEW", "FILLED"} :
         /\ order' = [order EXCEPT ![o] = status]
         /\ Reply(o, status)
    /\ UNCHANGED <<denied, rows, ledger, lock, snapshot, pc, progress, counters>>

Reject(o) ==
    /\ order[o] = "flying"
    /\ order' = [order EXCEPT ![o] = "rejected"]
    /\ Reply(o, "REJECTED")
    /\ UNCHANGED <<exchFree, denied, rows, ledger, lock, snapshot, pc, progress, counters>>

\* An error answer that decides nothing (HTTP 5xx): for place_order as definite
\* as a refusal, while the order may still execute, be refused or get lost.
ServerError(o) ==
    /\ At(o, "posting") /\ job[o] = NoJob /\ order[o] = "flying"
    /\ faults < MaxFaults
    /\ faults' = faults + 1
    /\ denied' = denied \cup {o}
    /\ Reply(o, "REJECTED")
    /\ UNCHANGED <<order, exchFree, rows, ledger, lock, snapshot, pc, progress, crashes>>

\* The request never arrives.
Lose(o) ==
    /\ order[o] = "flying"
    /\ order' = [order EXCEPT ![o] = "lost"]
    /\ UNCHANGED <<exchFree, denied, rows, ledger, lock, snapshot, pc, job, progress, counters>>

Fill(o) ==
    /\ order[o] = "NEW"
    /\ order' = [order EXCEPT ![o] = "FILLED"]
    /\ UNCHANGED <<exchFree, denied, rows, ledger, lock, snapshot, pc, job, progress, counters>>

\* Expiry at the exchange, or a cancellation whose answer got lost.
Expire(o) ==
    /\ order[o] = "NEW"
    /\ order' = [order EXCEPT ![o] = "CANCELED"]
    /\ exchFree' = exchFree + Amount[o]
    /\ UNCHANGED <<denied, rows, ledger, lock, snapshot, pc, job, progress, counters>>

-------------------------------------------------------------------------------
(* place_order after the POST *)

\* An answer came: a definite error releases, a response is acknowledged.
PostReturns(o) ==
    /\ At(o, "posting") /\ job[o] # NoJob
    /\ Go(o, "acquire")
    /\ UNCHANGED <<exchange, rows, ledger, lock, snapshot, job, progress, counters>>

\* Mutation: a missing answer counts as a refusal.
PostTimesOutReleasing(o) ==
    /\ At(o, "posting")
    /\ job' = [job EXCEPT ![o] = [order |-> o, status |-> "REJECTED"]]
    /\ Go(o, "acquire")
    /\ UNCHANGED <<exchange, rows, ledger, lock, snapshot, progress, counters>>

\* No answer in time, whether or not the order arrived: mark_uncertain.
PostTimesOut(o) ==
    /\ At(o, "posting")
    /\ job' = [job EXCEPT ![o] = [order |-> o, status |-> "UNKNOWN"]]
    /\ Go(o, "acquire")
    /\ UNCHANGED <<exchange, rows, ledger, lock, snapshot, progress, counters>>

\* The body is not JSON: the ValueError leaves place_order, nothing is acknowledged.
PostUnreadable(o) ==
    /\ At(o, "posting") /\ job[o] # NoJob /\ faults < MaxFaults
    /\ faults' = faults + 1
    /\ job' = [job EXCEPT ![o] = NoJob]
    /\ Go(o, "done")
    /\ UNCHANGED <<exchange, rows, ledger, lock, snapshot, progress, crashes>>

\* reconcile_unknown gets the order by its client id.
QueryAnswers(o) ==
    /\ At(o, "query") /\ o \in HasClient
    /\ tries[o] < Attempts /\ order[o] \in Known
    /\ tries' = [tries EXCEPT ![o] = @ + 1]
    /\ job' = [job EXCEPT ![o] = [order |-> o, status |-> order[o]]]
    /\ Go(o, "acquire")
    /\ UNCHANGED <<exchange, rows, ledger, lock, snapshot, todo, active, counters>>

\* A failed attempt: any exception, or an order the exchange does not know.
QueryFails(o) ==
    /\ At(o, "query") /\ o \in HasClient /\ tries[o] < Attempts
    /\ tries' = [tries EXCEPT ![o] = @ + 1]
    /\ UNCHANGED <<exchange, rows, ledger, lock, snapshot, pc, job, todo, active, counters>>

\* Outcome still unknown: place_order raises and the reservation stays.
GiveUp(o) ==
    /\ At(o, "query")
    /\ o \notin HasClient \/ tries[o] = Attempts
    /\ Go(o, "done")
    /\ UNCHANGED <<exchange, rows, ledger, lock, snapshot, job, progress, counters>>

-------------------------------------------------------------------------------
(* release, mark_uncertain and acknowledge, called by any task *)

\* Mutation: any answer ends the reservation.
TerminalOnceAnswered(t) == job[t].status # "UNKNOWN"

Terminal(t) == job[t].status \in TERMINAL_STATUSES

\* Under the lock the ledger gives the amount back, whoever asked before.
ReleaseBegin(t) ==
    /\ At(t, "acquire") /\ lock = NoTask /\ Terminal(t)
    /\ lock' = t
    /\ LET o == job[t].order IN
         /\ uncertain' = uncertain \ {o}
         /\ reserved' = Monus(reserved, Amount[o])
         /\ holding' = holding \ {o}
         /\ repeats' = IF o \in holding THEN repeats ELSE repeats \cup {o}
    /\ Go(t, "writing")
    /\ UNCHANGED <<exchange, rows, snapshot, job, progress, counters>>

\* mark_uncertain, or acknowledge of a status that is not terminal.
RetainBegin(t) ==
    /\ At(t, "acquire") /\ lock = NoTask /\ ~Terminal(t)
    /\ lock' = t
    /\ uncertain' = uncertain \cup {job[t].order}
    /\ Go(t, "writing")
    /\ UNCHANGED <<exchange, rows, reserved, holding, repeats, snapshot, job, progress, counters>>

\* Where a task goes after its acknowledgement, and after a failed one.
Resume(t) == CASE t \in Orders -> IF job[t].status = "UNKNOWN" THEN "query" ELSE "done"
               [] t \in Sweepers -> "sweep"
               [] OTHER -> "idle"

Abort(t) == CASE t \in Orders -> "done"
              [] t \in Loops -> "dead"
              [] OTHER -> "idle"

\* The row is deleted or saved and the lock released.
WriteDone(t) ==
    /\ At(t, "writing")
    /\ rows' = IF Terminal(t) THEN rows \ {job[t].order} ELSE rows \cup {job[t].order}
    /\ lock' = NoTask
    /\ job' = [job EXCEPT ![t] = NoJob]
    /\ Go(t, Resume(t))
    /\ UNCHANGED <<exchange, ledger, snapshot, progress, counters>>

\* The database call raises: the memory keeps its change, the task ends.
WriteFails(t) ==
    /\ At(t, "writing") /\ faults < MaxFaults
    /\ faults' = faults + 1
    /\ lock' = NoTask
    /\ job' = [job EXCEPT ![t] = NoJob]
    /\ todo' = [s \in Sweepers |-> IF s = t THEN {} ELSE todo[s]]
    /\ Go(t, Abort(t))
    /\ UNCHANGED <<exchange, rows, ledger, snapshot, tries, active, crashes>>

-------------------------------------------------------------------------------
(* _reconcile_account_reservations *)

\* The sweep works on a snapshot of pending(), and only for accounts with a
\* verified session (active_execution_user_ids).
SweepBegin(s) ==
    /\ At(s, "idle") /\ uncertain # {} /\ active
    /\ todo' = [todo EXCEPT ![s] = uncertain]
    /\ Go(s, "sweep")
    /\ UNCHANGED <<exchange, rows, ledger, lock, snapshot, job, tries, active, counters>>

\* The answer is acknowledged without looking at pending() again.
SweepQuery(s, o) ==
    /\ At(s, "sweep") /\ o \in todo[s] \cap HasClient /\ order[o] \in Known
    /\ todo' = [todo EXCEPT ![s] = @ \ {o}]
    /\ job' = [job EXCEPT ![s] = [order |-> o, status |-> order[o]]]
    /\ Go(s, "acquire")
    /\ UNCHANGED <<exchange, rows, ledger, lock, snapshot, tries, active, counters>>

\* No client id, or a query error: left for a later sweep.
SweepSkip(s, o) ==
    /\ At(s, "sweep") /\ o \in todo[s]
    /\ todo' = [todo EXCEPT ![s] = @ \ {o}]
    /\ UNCHANGED <<exchange, rows, ledger, lock, snapshot, pc, job, tries, active, counters>>

\* Only BinanceOrderError is caught: an unreadable body ends the task.
SweepBreaks(s, o) ==
    /\ At(s, "sweep") /\ o \in todo[s] \cap HasClient /\ faults < MaxFaults
    /\ faults' = faults + 1
    /\ todo' = [todo EXCEPT ![s] = {}]
    /\ Go(s, Abort(s))
    /\ UNCHANGED <<exchange, rows, ledger, lock, snapshot, job, tries, active, crashes>>

SweepEnd(s) ==
    /\ At(s, "sweep") /\ todo[s] = {}
    /\ Go(s, "idle")
    /\ UNCHANGED <<exchange, rows, ledger, lock, snapshot, job, progress, counters>>

\* The user signs in or out, or new keys are refused: only the session changes.
SessionChanges ==
    /\ active' = ~active
    /\ UNCHANGED <<exchange, rows, ledger, lock, snapshot, pc, job, tries, todo, counters>>

-------------------------------------------------------------------------------
(* query_order, cancel_order and acknowledge_client *)

UserQuery(u, o) ==
    /\ At(u, "idle") /\ order[o] \in Known
    /\ job' = [job EXCEPT ![u] = [order |-> o, status |-> order[o]]]
    /\ Go(u, "asked")
    /\ UNCHANGED <<exchange, rows, ledger, lock, snapshot, progress, counters>>

UserCancel(u, o) ==
    /\ At(u, "idle") /\ order[o] = "NEW"
    /\ order' = [order EXCEPT ![o] = "CANCELED"]
    /\ exchFree' = exchFree + Amount[o]
    /\ job' = [job EXCEPT ![u] = [order |-> o, status |-> "CANCELED"]]
    /\ Go(u, "asked")
    /\ UNCHANGED <<denied, rows, ledger, lock, snapshot, progress, counters>>

\* Only a pending reservation with that client id is acknowledged.
AcknowledgeClient(u) ==
    /\ At(u, "asked")
    /\ IF job[u].order \in uncertain \cap HasClient
         THEN Go(u, "acquire") /\ UNCHANGED job
         ELSE Go(u, "idle") /\ job' = [job EXCEPT ![u] = NoJob]
    /\ UNCHANGED <<exchange, rows, ledger, lock, snapshot, progress, counters>>

-------------------------------------------------------------------------------
(* The process stops anywhere and __init__ restores every row; the session *)
(* comes back only for accounts with automation or an open position         *)

\* Mutation: restored reservations do not await reconciliation.
CrashForgettingPending ==
    /\ crashes < MaxCrashes
    /\ crashes' = crashes + 1
    /\ reserved' = Total(rows)
    /\ uncertain' = {} /\ holding' = rows
    /\ lock' = NoTask /\ snapshot' = 0
    /\ pc' = [t \in Tasks |-> IF t \in Orders /\ pc[t] # "idle" THEN "done" ELSE "idle"]
    /\ job' = [t \in Tasks |-> NoJob]
    /\ todo' = [s \in Sweepers |-> {}]
    /\ active' \in BOOLEAN
    /\ UNCHANGED <<exchange, rows, repeats, tries, faults>>

Crash ==
    /\ crashes < MaxCrashes
    /\ crashes' = crashes + 1
    /\ reserved' = Total(rows)
    /\ uncertain' = rows /\ holding' = rows
    /\ lock' = NoTask /\ snapshot' = 0
    /\ pc' = [t \in Tasks |-> IF t \in Orders /\ pc[t] # "idle" THEN "done" ELSE "idle"]
    /\ job' = [t \in Tasks |-> NoJob]
    /\ todo' = [s \in Sweepers |-> {}]
    /\ active' \in BOOLEAN
    /\ UNCHANGED <<exchange, rows, repeats, tries, faults>>

\* Every call has ended, nothing awaits reconciliation: the process just waits.
Quiet ==
    /\ \A o \in Orders : pc[o] = "done" /\ order[o] \notin Live
    /\ \A t \in Sweepers \cup Users : pc[t] \in {"idle", "dead"}
    /\ UNCHANGED vars

Place(o) ==
    \/ Refuse(o) \/ ReserveBegin(o) \/ AccountAnswers(o) \/ AccountFails(o)
    \/ Admit(o) \/ Deny(o) \/ SaveReservation(o) \/ SaveFails(o)
    \/ PostReturns(o) \/ PostTimesOut(o) \/ PostUnreadable(o)
    \/ QueryAnswers(o) \/ QueryFails(o) \/ GiveUp(o)

Exchange(o) ==
    Accept(o) \/ Reject(o) \/ ServerError(o) \/ Lose(o) \/ Fill(o) \/ Expire(o)

Acknowledge(t) == ReleaseBegin(t) \/ RetainBegin(t) \/ WriteDone(t) \/ WriteFails(t)

Sweep(s) ==
    \/ SweepBegin(s) \/ SweepEnd(s)
    \/ \E o \in Orders : SweepQuery(s, o) \/ SweepSkip(s, o) \/ SweepBreaks(s, o)

User(u) ==
    \/ AcknowledgeClient(u)
    \/ \E o \in Orders : UserQuery(u, o) \/ UserCancel(u, o)

Next ==
    \/ \E o \in Orders : Place(o) \/ Exchange(o)
    \/ \E t \in Tasks : Acknowledge(t)
    \/ \E s \in Sweepers : Sweep(s)
    \/ \E u \in Users : User(u)
    \/ SessionChanges
    \/ Crash
    \/ Quiet

Spec == Init /\ [][Next]_vars

-------------------------------------------------------------------------------
(* Properties *)

\* The ledger never counts less than the reservations it still owes capital
\* to. Two tasks acknowledging one order can each release it (release is not
\* idempotent), which gives away the capital of another reservation.
LedgerCoversHolding == reserved >= Total(holding)

\* Double release is the only way to lose the balance: while no reservation
\* was released twice, the ledger is exactly the sum of what it holds, through
\* roll-backs, failed writes, stale answers and restarts.
LedgerExact == repeats = {} => reserved = Total(holding)

\* The balance check and the charge are one atomic step for the asset: orders
\* on their way to the exchange never ask together for more than it has free,
\* however stale the account answer and whatever was filled or restarted in
\* between (as long as nothing was released twice, and no order was given up
\* because of an error answer that had not decided about it).
NoOvercommit ==
    repeats = {} /\ denied = {} =>
        Total({o \in Orders : order[o] = "flying"}) <= exchFree

\* An order that may still take capital has a row that a restart restores,
\* unless an error answer that decided nothing made place_order give it up: no
\* timeout, lost or stale answer, failed write or restart deletes it early.
DurableWhileLive == \A o \in Orders : order[o] \in Live => o \in rows \/ o \in denied

\* pretrade_risk.py:26 reserves capital "until order acknowledgement".  An HTTP
\* 5xx acknowledges nothing, but place_order releases the reservation.
ReservedWhileLive == \A o \in Orders : order[o] \in Live => o \in rows

\* Capital set aside is given back once the order cannot use it: what
\* terminal-status release promises for an order the exchange knows, as long
\* as the account keeps a verified session for the loop to ask with.
TerminalReleased ==
    <>[]active =>
      \A o \in Orders :
        (o \in holding /\ order[o] \in {"FILLED", "CANCELED"}) ~> (o \notin holding)

\* Execution tasks are said to be supervised: a pending reservation that the
\* reconciliation loop can look up is given back once its order has ended.
\* One failed write or unreadable answer ends the loop for good.
PendingReleased ==
    <>[]active =>
      \A o \in HasClient :
        (o \in uncertain /\ order[o] \in {"FILLED", "CANCELED"}) ~> (o \notin uncertain)

\* The engine implements the lifecycle of a reservation: sent once and only
\* with a row, the row deleted only for an order that has ended or was answered
\* with an error, however the answers of the POST, of the sweeps and of the user
\* are delayed or repeated.
Lifecycle == INSTANCE ReservationLifecycle
    WITH durable <- rows,
         submitted <- {o \in Orders : order[o] # "unsent"},
         settled <- {o \in Orders : order[o] \notin Live \cup {"unsent"}}

LifecycleSpec == Lifecycle!Spec

-------------------------------------------------------------------------------
(* Fairness: the event loop runs every ready task; asyncio.Lock is first come, *)
(* first served, so a waiting task gets it; the database call returns; queries *)
(* are answered again and again while the account has a verified session.      *)
(* Nothing makes a user act or sign in, or an order fill.                      *)

Fairness ==
    /\ \A o \in Orders :
         /\ WF_vars(AccountAnswers(o) \/ AccountFails(o) \/ Admit(o) \/ Deny(o))
         /\ WF_vars(SaveReservation(o) \/ PostReturns(o) \/ PostTimesOut(o))
         /\ WF_vars(QueryAnswers(o) \/ QueryFails(o) \/ GiveUp(o))
    /\ \A t \in Tasks :
         /\ SF_vars(ReleaseBegin(t) \/ RetainBegin(t))
         /\ WF_vars(WriteDone(t))
    /\ \A s \in Loops :
         /\ WF_vars(SweepBegin(s) \/ SweepEnd(s))
         /\ \A o \in Orders : WF_vars(SweepSkip(s, o)) /\ SF_vars(active /\ SweepQuery(s, o))
    /\ \A u \in Users : WF_vars(AcknowledgeClient(u))

LiveSpec == Spec /\ Fairness
===============================================================================
