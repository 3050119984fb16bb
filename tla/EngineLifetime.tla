---------------------------- MODULE EngineLifetime ----------------------------
(***************************************************************************)
(* The life of the processes that share one database: what is read when    *)
(* the module is imported (main.py, OrderService.__init__), the execution  *)
(* lease that lets one of them trade (DatabaseHandler), the tasks that     *)
(* trade (OrderService.create_background_task) and the drain at shutdown.  *)
(***************************************************************************)
EXTENDS Integers, FiniteSets

CONSTANTS Processes,   \* Uvicorn processes, started again and again
          Slots,       \* execution tasks a process may have at once
          NoProcess

ASSUME NoProcessAssumption == NoProcess \notin Processes

VARIABLES phase,    \* phase[p]: how far main.py and its lifespan are
          lock,     \* who has the advisory lock, or the file lock
          leases,   \* processes whose _execution_lease is set
          tasks,    \* tasks[p]: _background_tasks
          waited,   \* waited[p]: what the gather of shutdown still waits for
          behind,   \* processes whose memory lacks a write of another one
          late,     \* auxiliary: a candle closed during the drain of these
          early,    \* auxiliary: imported while another process was the engine,
                    \* or before a late task stored
          lost      \* auxiliary: the lock went with the database connection

vars == <<phase, lock, leases, tasks, waited, behind, late, early, lost>>
work == <<tasks, waited>>
memory == <<behind, early>>

Phase == {"none", "imported", "running", "draining", "closing", "exiting"}
Holding == {"running", "draining", "closing"}

\* A lease is set exactly while the body of the lifespan holds it.
TypeOK ==
    /\ phase \in [Processes -> Phase]
    /\ lock \in Processes \cup {NoProcess}
    /\ leases = {p \in Processes : phase[p] \in Holding}
    /\ tasks \in [Processes -> SUBSET Slots]
    /\ waited \in [Processes -> SUBSET Slots]
    /\ behind \subseteq Processes /\ early \subseteq Processes /\ late \subseteq Processes
    /\ lost \in BOOLEAN

Init ==
    /\ phase = [p \in Processes |-> "none"]
    /\ lock = NoProcess /\ leases = {}
    /\ tasks = [p \in Processes |-> {}] /\ waited = tasks
    /\ behind = {} /\ early = {} /\ late = {} /\ lost = FALSE

Enter(p, next) == phase' = [phase EXCEPT ![p] = next]

\* main.py reads positions, orders and reservations before anybody asks for the
\* lease.
Import(p) ==
    /\ phase[p] = "none"
    /\ Enter(p, "imported")
    /\ behind' = behind \ {p}
    /\ early' = IF leases = {} THEN early \ {p} ELSE early \cup {p}
    /\ UNCHANGED <<lock, leases, work, late, lost>>

Acquire(p) ==
    /\ leases' = leases \cup {p}
    /\ early' = early \cup {q \in Processes \ {p} : phase[q] = "imported"}
    /\ Enter(p, "running")
    /\ UNCHANGED <<work, behind, late, lost>>

\* Mutation: the answer of acquire_execution_lease is not looked at.
StartRegardless(p) ==
    /\ phase[p] = "imported"
    /\ lock' = IF lock = NoProcess THEN p ELSE lock
    /\ Acquire(p)

\* The lifespan starts: the lock is taken or the process gives up.
Start(p) ==
    /\ phase[p] = "imported" /\ lock = NoProcess
    /\ lock' = p
    /\ Acquire(p)

Refused(p) ==
    /\ phase[p] = "imported" /\ lock # NoProcess
    /\ Enter(p, "exiting")
    /\ UNCHANGED <<lock, leases, work, memory, late, lost>>

\* A signal, a reconnecting account or the reconciliation loop makes a task.
\* Candles go on closing during the drain: the candle service stops after it.
Signal(p, t) ==
    /\ phase[p] \in {"running", "draining", "closing"} /\ t \notin tasks[p]
    /\ tasks' = [tasks EXCEPT ![p] = @ \cup {t}]
    /\ late' = IF phase[p] = "running" THEN late ELSE late \cup {p}
    /\ UNCHANGED <<phase, lock, leases, waited, memory, lost>>

Others(p) == {q \in Processes \ {p} : phase[q] # "none"}

\* A task stores a position, an order or a reservation and ends.
Store(p, t) ==
    /\ t \in tasks[p]
    /\ tasks' = [tasks EXCEPT ![p] = @ \ {t}]
    /\ waited' = [waited EXCEPT ![p] = @ \ {t}]
    /\ behind' = behind \cup Others(p)
    /\ early' = IF p \in late THEN early \cup Others(p) ELSE early
    /\ UNCHANGED <<phase, lock, leases, late, lost>>

\* Mutation: shutdown only tells the tasks to stop.
DrainNothing(p) ==
    /\ phase[p] = "running"
    /\ Enter(p, "draining")
    /\ UNCHANGED <<lock, leases, work, memory, late, lost>>

\* OrderService.shutdown gathers the tasks it finds.
Drain(p) ==
    /\ phase[p] = "running"
    /\ waited' = [waited EXCEPT ![p] = tasks[p]]
    /\ Enter(p, "draining")
    /\ UNCHANGED <<lock, leases, tasks, memory, late, lost>>

Drained(p) ==
    /\ phase[p] = "draining" /\ waited[p] = {}
    /\ Enter(p, "closing")
    /\ UNCHANGED <<lock, leases, work, memory, late, lost>>

\* Mutation: the handle is kept.
ReleaseKeepingHandle(p) ==
    /\ phase[p] = "closing"
    /\ lock' = IF lock = p THEN NoProcess ELSE lock
    /\ Enter(p, "exiting")
    /\ UNCHANGED <<leases, work, memory, late, lost>>

Release(p) ==
    /\ phase[p] = "closing"
    /\ lock' = IF lock = p THEN NoProcess ELSE lock
    /\ leases' = leases \ {p}
    /\ Enter(p, "exiting")
    /\ UNCHANGED <<work, memory, late, lost>>

Gone(p) ==
    /\ Enter(p, "none")
    /\ tasks' = [tasks EXCEPT ![p] = {}] /\ waited' = [waited EXCEPT ![p] = {}]
    /\ late' = late \ {p}
    /\ UNCHANGED <<memory, lost>>

\* Whatever tasks are left end with the event loop.
End(p) ==
    /\ phase[p] = "exiting"
    /\ Gone(p)
    /\ UNCHANGED <<lock, leases>>

\* The process is killed at any point; file and connection are closed with it.
Kill(p) ==
    /\ phase[p] # "none"
    /\ lock' = IF lock = p THEN NoProcess ELSE lock
    /\ leases' = leases \ {p}
    /\ Gone(p)

\* An advisory lock ends with its connection, and nobody looks at it again.
LoseConnection ==
    /\ lock # NoProcess
    /\ lock' = NoProcess
    /\ lost' = TRUE
    /\ UNCHANGED <<phase, leases, work, memory, late>>

Next ==
    \/ \E p \in Processes :
         \/ Import(p) \/ Start(p) \/ Refused(p) \/ Drain(p) \/ Drained(p)
         \/ Release(p) \/ End(p) \/ Kill(p)
         \/ \E t \in Slots : Signal(p, t) \/ Store(p, t)
    \/ LoseConnection

Spec == Init /\ [][Next]_vars

-------------------------------------------------------------------------------
(* Properties *)

Engines == {p \in Processes : p \in leases \/ tasks[p] # {}}

\* "So only one engine uses this database" (acquire_execution_lease): no two
\* processes trade side by side, through restarts and overlapping deployments,
\* unless a connection lost the lock or a candle closed during a drain and its
\* order outlived the lease.
OneEngine ==
    \A p, q \in Engines : p = q \/ lost \/ {p, q} \cap late # {}

\* The engine knows every write of the engine before it, unless it had read the
\* tables while that one, or a task that outlived its drain, was still there.
EngineKnows == \A p \in leases : p \in behind => p \in early \/ lost
===============================================================================
