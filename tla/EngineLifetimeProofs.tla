-------------------------- MODULE EngineLifetimeProofs --------------------------
(* One engine at a time, and an engine that knows what was written before it,  *)
(* for any number of processes and tasks.                                      *)
EXTENDS EngineLifetime, TLAPS

\* The lock is with whoever believes to have it.
LockHeld == lost \/ \A p \in leases : lock = p

\* The gather waits for tasks that are there, and once a process left the drain
\* it has only the tasks that came late.
Supervised ==
    \A p \in Processes :
      /\ waited[p] \subseteq tasks[p]
      /\ phase[p] \notin {"running", "draining"} => waited[p] = {}
      /\ phase[p] \in {"draining", "closing", "exiting"} /\ p \notin late =>
           tasks[p] \subseteq waited[p]
      /\ phase[p] \in {"none", "imported"} => tasks[p] = {}

\* Whoever reads the tables while there is an engine is early, and only such a
\* process can be behind.
Overlap ==
    \A p \in Processes :
      /\ phase[p] = "imported" /\ leases # {} => p \in early
      /\ phase[p] \in Holding \cup {"imported"} /\ p \in behind => p \in early \/ lost

IInv == TypeOK /\ LockHeld /\ Supervised /\ Overlap

\* Outside the exceptions whoever works has the lease.
LEMMA WorkersHold ==
    ASSUME TypeOK, Supervised, NEW p \in Processes, tasks[p] # {}, p \notin late
    PROVE p \in leases
  BY DEF TypeOK, Supervised, Phase, Holding

LEMMA InitInv == Init => IInv
  BY NoProcessAssumption
     DEF Init, IInv, TypeOK, Phase, Holding, LockHeld, Supervised, Overlap

\* Every variable keeps its type.
LEMMA TypeStep == TypeOK /\ [Next]_vars => TypeOK'
  <1> SUFFICES ASSUME TypeOK, [Next]_vars PROVE TypeOK'
    OBVIOUS
  <1> USE DEF TypeOK, Phase, Holding, Enter
  <1>1. ASSUME NEW p \in Processes, Import(p) PROVE TypeOK'
    BY <1>1 DEF Import, work
  <1>2. ASSUME NEW p \in Processes, Start(p) PROVE TypeOK'
    BY <1>2 DEF Start, Acquire, work
  <1>3. ASSUME NEW p \in Processes, Refused(p) PROVE TypeOK'
    BY <1>3 DEF Refused, work, memory
  <1>4. ASSUME NEW p \in Processes, Drain(p) PROVE TypeOK'
    BY <1>4 DEF Drain, memory
  <1>5. ASSUME NEW p \in Processes, Drained(p) PROVE TypeOK'
    BY <1>5 DEF Drained, work, memory
  <1>6. ASSUME NEW p \in Processes, Release(p) PROVE TypeOK'
    BY <1>6 DEF Release, work, memory
  <1>7. ASSUME NEW p \in Processes, End(p) PROVE TypeOK'
    BY <1>7 DEF End, Gone, memory
  <1>8. ASSUME NEW p \in Processes, Kill(p) PROVE TypeOK'
    BY <1>8 DEF Kill, Gone, memory
  <1>9. ASSUME NEW p \in Processes, NEW t \in Slots, Signal(p, t) PROVE TypeOK'
    BY <1>9 DEF Signal, memory
  <1>10. ASSUME NEW p \in Processes, NEW t \in Slots, Store(p, t) PROVE TypeOK'
    BY <1>10 DEF Store, Others
  <1>11. CASE LoseConnection
    BY <1>11 DEF LoseConnection, work, memory
  <1>12. CASE UNCHANGED vars
    BY <1>12 DEF vars
  <1> QED
    BY <1>1, <1>2, <1>3, <1>4, <1>5, <1>6, <1>7, <1>8, <1>9, <1>10, <1>11, <1>12 DEF Next

\* The lock changes hands only when it is free.
LEMMA LockStep == TypeOK /\ LockHeld /\ [Next]_vars => LockHeld'
  <1> SUFFICES ASSUME TypeOK, LockHeld, [Next]_vars PROVE LockHeld'
    OBVIOUS
  <1> USE NoProcessAssumption DEF TypeOK, LockHeld
  <1>1. ASSUME NEW p \in Processes, Start(p) PROVE LockHeld'
    BY <1>1 DEF Start, Acquire
  <1>2. ASSUME NEW p \in Processes, Release(p) PROVE LockHeld'
    BY <1>2 DEF Release, work, memory
  <1>3. ASSUME NEW p \in Processes, Kill(p) PROVE LockHeld'
    BY <1>3 DEF Kill, Gone, memory
  <1>4. CASE LoseConnection
    BY <1>4 DEF LoseConnection
  <1>5. CASE UNCHANGED <<lock, leases, lost>>
    BY <1>5
  <1> QED
    BY <1>1, <1>2, <1>3, <1>4, <1>5
       DEF Next, Import, Refused, Drain, Drained, End, Gone, Signal, Store, vars, work, memory

\* Tasks are created, awaited and left as Supervised says.
LEMMA SupervisedStep == TypeOK /\ Supervised /\ [Next]_vars => Supervised'
  <1> SUFFICES ASSUME TypeOK, Supervised, [Next]_vars PROVE Supervised'
    OBVIOUS
  <1> USE DEF TypeOK, Phase, Supervised, Enter
  <1>1. ASSUME NEW p \in Processes, Import(p) PROVE Supervised'
    BY <1>1 DEF Import, work
  <1>2. ASSUME NEW p \in Processes, Start(p) PROVE Supervised'
    BY <1>2 DEF Start, Acquire, work
  <1>3. ASSUME NEW p \in Processes, Refused(p) PROVE Supervised'
    BY <1>3 DEF Refused, work, memory
  <1>4. ASSUME NEW p \in Processes, Drain(p) PROVE Supervised'
    BY <1>4 DEF Drain, memory
  <1>5. ASSUME NEW p \in Processes, Drained(p) PROVE Supervised'
    BY <1>5 DEF Drained, work, memory
  <1>6. ASSUME NEW p \in Processes, Release(p) PROVE Supervised'
    BY <1>6 DEF Release, work, memory
  <1>7. ASSUME NEW p \in Processes, End(p) PROVE Supervised'
    BY <1>7 DEF End, Gone, memory
  <1>8. ASSUME NEW p \in Processes, Kill(p) PROVE Supervised'
    BY <1>8 DEF Kill, Gone, memory
  <1>9. ASSUME NEW p \in Processes, NEW t \in Slots, Signal(p, t) PROVE Supervised'
    BY <1>9 DEF Signal, memory
  <1>10. ASSUME NEW p \in Processes, NEW t \in Slots, Store(p, t) PROVE Supervised'
    BY <1>10 DEF Store
  <1>11. CASE LoseConnection
    BY <1>11 DEF LoseConnection, work, memory
  <1>12. CASE UNCHANGED vars
    BY <1>12 DEF vars
  <1> QED
    BY <1>1, <1>2, <1>3, <1>4, <1>5, <1>6, <1>7, <1>8, <1>9, <1>10, <1>11, <1>12 DEF Next

\* A process falls behind only through a task of an engine, which makes readers
\* of that time early, or through a late one.
LEMMA OverlapStep == IInv /\ [Next]_vars => Overlap'
  <1> SUFFICES ASSUME IInv, [Next]_vars PROVE Overlap'
    OBVIOUS
  <1> USE DEF IInv, TypeOK, Phase, Holding, Overlap, Enter
  <1>1. ASSUME NEW p \in Processes, Import(p) PROVE Overlap'
    BY <1>1 DEF Import
  <1>2. ASSUME NEW p \in Processes, Start(p) PROVE Overlap'
    BY <1>2 DEF Start, Acquire
  <1>3. ASSUME NEW p \in Processes, Refused(p) PROVE Overlap'
    BY <1>3 DEF Refused, memory
  <1>4. ASSUME NEW p \in Processes, Drain(p) PROVE Overlap'
    BY <1>4 DEF Drain, memory
  <1>5. ASSUME NEW p \in Processes, Drained(p) PROVE Overlap'
    BY <1>5 DEF Drained, memory
  <1>6. ASSUME NEW p \in Processes, Release(p) PROVE Overlap'
    BY <1>6 DEF Release, memory
  <1>7. ASSUME NEW p \in Processes, End(p) PROVE Overlap'
    BY <1>7 DEF End, Gone, memory
  <1>8. ASSUME NEW p \in Processes, Kill(p) PROVE Overlap'
    BY <1>8 DEF Kill, Gone, memory
  <1>9. ASSUME NEW p \in Processes, NEW t \in Slots, Signal(p, t) PROVE Overlap'
    BY <1>9 DEF Signal, memory
  <1>10. ASSUME NEW p \in Processes, NEW t \in Slots, Store(p, t) PROVE Overlap'
    <2>1. CASE p \in late
      BY <1>10, <2>1 DEF Store, Others
    <2>2. CASE p \notin late
      <3>1. p \in leases
        BY <1>10, <2>2, WorkersHold DEF Store
      <3>2. \A q \in Processes \ {p} :
              phase[q] \in Holding \cup {"imported"} => q \in early \/ lost
        BY <3>1 DEF LockHeld
      <3> QED
        BY <1>10, <2>2, <3>2 DEF Store, Others
    <2> QED
      BY <2>1, <2>2
  <1>11. CASE LoseConnection
    BY <1>11 DEF LoseConnection, memory
  <1>12. CASE UNCHANGED vars
    BY <1>12 DEF vars
  <1> QED
    BY <1>1, <1>2, <1>3, <1>4, <1>5, <1>6, <1>7, <1>8, <1>9, <1>10, <1>11, <1>12 DEF Next

LEMMA Inductive == Spec => []IInv
  <1>1. IInv /\ [Next]_vars => IInv'
    BY TypeStep, LockStep, SupervisedStep, OverlapStep DEF IInv
  <1> QED
    BY <1>1, InitInv, PTL DEF Spec

\* No two processes trade side by side while connections hold and no candle
\* closes during a drain: OneEngine for any number of processes and tasks.
THEOREM Exclusive == Spec => []OneEngine
  <1>1. IInv => OneEngine
    BY WorkersHold DEF IInv, LockHeld, OneEngine, Engines
  <1> QED
    BY <1>1, Inductive, PTL

\* Every variable keeps its type.
THEOREM Types == Spec => []TypeOK
  <1>1. IInv => TypeOK
    BY DEF IInv
  <1> QED
    BY <1>1, Inductive, PTL

\* An engine that read the tables after its predecessor had gone knows all of
\* its writes: EngineKnows for any number of processes and tasks.
THEOREM Knows == Spec => []EngineKnows
  <1>1. IInv => EngineKnows
    BY DEF IInv, TypeOK, Overlap, EngineKnows
  <1> QED
    BY <1>1, Inductive, PTL
===============================================================================
