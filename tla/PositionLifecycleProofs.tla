------------------------ MODULE PositionLifecycleProofs ------------------------
(***************************************************************************)
(* Type correctness of PositionLifecycle, and its four safety invariants:  *)
(* only a discarded claim lets two workers meet on a key, concurrent       *)
(* entries respect the limit, no resting protective is forgotten and the   *)
(* books equal what is held, but for the keys that went astray in one of   *)
(* the named ways; for every number of keys and workers, every bound and   *)
(* every kind of fault.                                                    *)
(***************************************************************************)
EXTENDS PositionLifecycle, FiniteSetTheorems, TLAPS

-------------------------------------------------------------------------------
(* The inductive invariant *)

Entering == {"buy", "stop", "unwind", "take", "open"}
Exiting == {"query", "cancel", "sell", "book"}
Robbed(k) == "robbed" \in astray[k]

\* A busy worker has claimed its key, and nobody took the claim from it,
Claimed == \A w \in Workers : Busy(w) => Key(w) \in Keys /\ (Key(w) \in inflight \/ Robbed(Key(w)))

\* one on its way to a position has its place among the pending entries,
EntryPending == \A w \in Workers : worker[w].pc \in Entering => Key(w) \in pending \/ Robbed(Key(w))

\* and one closing a position finds it open.
ExitOpen == \A w \in Workers : worker[w].pc \in Exiting => pos[Key(w)].open \/ Robbed(Key(w))

IInv == TypeOK /\ Claimed /\ EntryPending /\ ExitOpen /\ OneWorkerPerKey /\ EntryLimit

\* What became of a key stays so.
Grows == \A k \in Keys : astray[k] \subseteq astray'[k]

\* What every step of a worker does to the claims: it keeps its key, goes on
\* entering only if it was entering, and opens only a pending key.
MovesOn(w) ==
    /\ Busy(w) /\ Key(w)' = Key(w) /\ worker'[w].pc # "idle"
    /\ \A v \in Workers \ {w} : worker'[v] = worker[v]
    /\ worker'[w].pc \in Entering => worker[w].pc \in Entering
    /\ worker'[w].pc \in Exiting => pos'[Key(w)].open \/ Robbed(Key(w))
    /\ \A k \in Keys \ {Key(w)} : pos'[k] = pos[k]
    /\ pos'[Key(w)].open => pos[Key(w)].open \/ Key(w) \in pending \/ Robbed(Key(w))
    /\ Grows
    /\ UNCHANGED <<inflight, pending>>

-------------------------------------------------------------------------------
(* Lemmas *)

\* A worker that only changes its label.
LEMMA StepWorker ==
  ASSUME worker \in [Workers -> Worker], NEW w \in Workers,
         NEW label \in EntryPc \cup ExitPc \cup {"finish"}, Step(w, label)
  PROVE  /\ worker' \in [Workers -> Worker]
         /\ worker'[w].pc = label /\ worker'[w].key = worker[w].key
         /\ \A v \in Workers \ {w} : worker'[v] = worker[v]
  <1> DEFINE next == [worker[w] EXCEPT !.pc = label]
  <1>1. worker' = [worker EXCEPT ![w] = next]
    BY DEF Step
  <1>2. next \in Worker /\ next.pc = label /\ next.key = worker[w].key
    BY DEF Worker
  <1> HIDE DEF next
  <1> QED  BY <1>1, <1>2

LEMMA NoPositionType == NoPosition \in Position
  BY BoundAssumption DEF NoPosition, Position, Entries

LEMMA TaskType ==
  ASSUME NEW k \in Keys \cup {NoKey}, NEW label \in {"buy", "start", "idle"}, NEW b \in BOOLEAN
  PROVE  Task(k, label, b) \in Worker
  <1> DEFINE p == NoPosition
  <1>1. p \in Position  BY NoPositionType
  <1>2. Task(k, label, b) =
          [pc |-> label, key |-> k, signal |-> b, side |-> "SL", found |-> "none",
           executed |-> 0, take |-> FALSE, seen |-> p]
    BY DEF Task
  <1> HIDE DEF p
  <1> QED  BY <1>1, <1>2, BoundAssumption DEF Worker, EntryPc, ExitPc, Sides

LEMMA AssignWorker ==
  ASSUME worker \in [Workers -> Worker], NEW w \in Workers, NEW k \in Keys,
         NEW label \in {"buy", "start"}, NEW b \in BOOLEAN, Assign(w, k, label, b)
  PROVE  /\ worker' \in [Workers -> Worker]
         /\ worker'[w].pc = label /\ worker'[w].key = k /\ worker'[w].found = "none"
         /\ ~worker'[w].take
         /\ \A v \in Workers \ {w} : worker'[v] = worker[v]
  <1>1. Task(k, label, b) \in Worker  BY TaskType
  <1>2. /\ Task(k, label, b).pc = label /\ Task(k, label, b).key = k
        /\ Task(k, label, b).found = "none" /\ ~Task(k, label, b).take
    BY DEF Task
  <1> QED  BY <1>1, <1>2 DEF Assign

LEMMA IdleType == Idle \in Worker /\ Idle.pc = "idle"
  <1>1. Idle = Task(NoKey, "idle", FALSE)  BY DEF Idle
  <1>2. Idle \in Worker  BY <1>1, TaskType
  <1> QED  BY <1>2 DEF Idle, Task

LEMMA PlaceType ==
  ASSUME TypeOK, NEW k \in Keys, NEW s \in Sides, Place(k, s)
  PROVE  prot' \in [Keys -> [Entries -> [Sides -> {"none", "NEW", "FILLED", "CANCELED"}]]]
  BY DEF Place, TypeOK

\* A key that goes astray, or does not.
LEMMA StraysGrows ==
  ASSUME astray \in [Keys -> SUBSET Reasons], NEW k \in Keys, NEW why \in SUBSET Reasons,
         Strays(k, why)
  PROVE  astray' \in [Keys -> SUBSET Reasons] /\ Grows /\ astray'[k] = astray[k] \cup why
  BY DEF Strays, Grows

LEMMA UnchangedGrows ==
  ASSUME astray \in [Keys -> SUBSET Reasons], UNCHANGED astray
  PROVE  astray' \in [Keys -> SUBSET Reasons] /\ Grows
  BY DEF Grows

\* What _sellable_quantity returns is a number no greater than the request.
LEMMA SellableBounded ==
  ASSUME TypeOK, NEW k \in Keys, NEW q \in Nat
  PROVE  SellableQuantity(k, q) \in Int /\ SellableQuantity(k, q) <= q
  <1>1. IsFiniteSet(Entries \X Sides)
    <2>1. IsFiniteSet(Entries)  BY FS_Interval, BoundAssumption DEF Entries
    <2>2. IsFiniteSet(Sides)
      <3>1. IsFiniteSet({"SL"})  BY FS_Singleton
      <3>2. IsFiniteSet({"SL"} \cup {"TP"})  BY <3>1, FS_AddElement
      <3>3. Sides = {"SL"} \cup {"TP"}  BY DEF Sides
      <3> QED  BY <3>2, <3>3
    <2> QED  BY <2>1, <2>2, FS_Product
  <1>2. LiveSells(k) \in SUBSET (Entries \X Sides)  BY DEF LiveSells
  <1>3. Cardinality(LiveSells(k)) \in Nat
    BY <1>1, <1>2, FS_Subset, FS_CardinalityType
  <1> DEFINE locked == Lot * Cardinality(LiveSells(k))
  <1>4. locked \in Nat  BY <1>3, BoundAssumption
  <1>5. Free(k) = Spare + held[k] - locked  BY DEF Free
  <1>6. Free(k) \in Int
    <2>1. Spare \in Int /\ held[k] \in Int  BY BoundAssumption DEF TypeOK
    <2> HIDE DEF locked
    <2> QED  BY <2>1, <1>4, <1>5
  <1> QED  BY <1>6 DEF SellableQuantity, Smaller

-------------------------------------------------------------------------------
(* The claims survive a worker's steps *)

\* The keys the limit counts.
Counted == {k \in OpenKeys \cup pending : astray[k] \cap {"robbed", "crashed"} = {}}

LEMMA CountedShrinks ==
  ASSUME IInv, Counted' \subseteq Counted
  PROVE  EntryLimit'
  <1>1. IsFiniteSet(Counted)
    BY FiniteAssumption, FS_Subset DEF IInv, TypeOK, OpenKeys, Counted
  <1>2. /\ Cardinality(Counted') <= Cardinality(Counted)
        /\ Cardinality(Counted') \in Nat /\ Cardinality(Counted) \in Nat
    BY <1>1, FS_Subset, FS_CardinalityType
  <1>3. Cardinality(Counted) <= MaxOpen
    BY DEF IInv, EntryLimit, Counted
  <1> QED  BY <1>2, <1>3, BoundAssumption DEF EntryLimit, Counted

LEMMA MovingKeeps ==
  ASSUME IInv, TypeOK', NEW w \in Workers, MovesOn(w)
  PROVE  IInv'
  <1>1. Key(w) \in Keys /\ (Key(w) \in inflight \/ Robbed(Key(w)))
    BY DEF IInv, Claimed, MovesOn
  <1>2. \A v \in Workers \ {w} : Busy(v) /\ Key(v) = Key(w) => Robbed(Key(w))
    BY DEF IInv, OneWorkerPerKey, MovesOn, Robbed
  <1>g. \A k \in Keys : Robbed(k) => "robbed" \in astray'[k]
    BY DEF MovesOn, Grows, Robbed
  <1>w. worker'[w].key = Key(w) /\ \A v \in Workers \ {w} : worker'[v] = worker[v]
    BY DEF MovesOn, Key
  <1>3. Claimed'
    <2> SUFFICES ASSUME NEW v \in Workers, worker'[v].pc # "idle"
                 PROVE  /\ worker'[v].key \in Keys
                        /\ worker'[v].key \in inflight' \/ "robbed" \in astray'[worker'[v].key]
      BY DEF Claimed, Busy, AtPc, Key, Robbed
    <2>1. CASE v = w
      BY <1>1, <1>g, <1>w, <2>1 DEF MovesOn
    <2>2. CASE v # w
      <3>1. worker'[v] = worker[v] /\ Busy(v)  BY <1>w, <2>2 DEF Busy, AtPc
      <3> QED  BY <1>g, <3>1 DEF MovesOn, IInv, Claimed, Key
    <2> QED  BY <2>1, <2>2
  <1>4. EntryPending'
    <2> SUFFICES ASSUME NEW v \in Workers, worker'[v].pc \in Entering
                 PROVE  worker'[v].key \in pending' \/ "robbed" \in astray'[worker'[v].key]
      BY DEF EntryPending, Key, Robbed
    <2>0. worker[v].pc \in Entering /\ worker'[v].key = Key(v)
      BY <1>w DEF MovesOn, Key
    <2>1. Busy(v)  BY <2>0 DEF Busy, AtPc, Entering
    <2>2. Key(v) \in Keys /\ (Key(v) \in pending \/ Robbed(Key(v)))
      BY <2>0, <2>1 DEF IInv, EntryPending, Claimed
    <2> QED  BY <2>0, <2>2, <1>g DEF MovesOn
  <1>5. ExitOpen'
    <2> SUFFICES ASSUME NEW v \in Workers, worker'[v].pc \in Exiting
                 PROVE  pos'[worker'[v].key].open \/ "robbed" \in astray'[worker'[v].key]
      BY DEF ExitOpen, Key, Robbed
    <2>1. CASE v = w  BY <1>1, <1>g, <1>w, <2>1 DEF MovesOn
    <2>2. CASE v # w
      <3>1. worker'[v] = worker[v]  BY <2>2, <1>w
      <3>2. Busy(v)  BY <3>1 DEF Busy, AtPc, Exiting
      <3>3. Key(v) \in Keys /\ (Key(v) = Key(w) => Robbed(Key(v)))
        BY <3>2, <2>2, <1>2 DEF IInv, Claimed
      <3>4. pos[Key(v)].open \/ Robbed(Key(v))  BY <3>1 DEF IInv, ExitOpen
      <3> QED  BY <3>1, <3>3, <3>4, <1>g DEF MovesOn, Key
    <2> QED  BY <2>1, <2>2
  <1>6. OneWorkerPerKey'
    <2> SUFFICES ASSUME NEW u \in Workers, NEW v \in Workers, u # v,
                        worker'[u].pc # "idle", worker'[v].pc # "idle",
                        worker'[u].key = worker'[v].key
                 PROVE  "robbed" \in astray'[worker'[u].key]
      BY DEF OneWorkerPerKey, Busy, AtPc, Key, Robbed
    <2>1. Busy(u) /\ Busy(v) /\ Key(u) = worker'[u].key /\ Key(v) = worker'[v].key
      BY <1>w DEF MovesOn, Busy, AtPc, Key
    <2>2. Robbed(Key(u)) /\ Key(u) \in Keys
      BY <2>1 DEF IInv, OneWorkerPerKey, Claimed, Robbed
    <2> QED  BY <2>1, <2>2, <1>g
  <1>7. EntryLimit'
    <2>1. Counted' \subseteq Counted
      <3> SUFFICES ASSUME NEW k \in Counted'  PROVE k \in Counted
        OBVIOUS
      <3>1. /\ k \in Keys /\ (pos'[k].open \/ k \in pending')
            /\ astray'[k] \cap {"robbed", "crashed"} = {}
        BY DEF Counted, OpenKeys, IInv, TypeOK, MovesOn
      <3>2. astray[k] \cap {"robbed", "crashed"} = {} /\ ~Robbed(k)
        BY <3>1 DEF MovesOn, Grows, Robbed
      <3>3. pos[k].open \/ k \in pending
        BY <3>1, <3>2 DEF MovesOn
      <3> QED  BY <3>1, <3>2, <3>3 DEF Counted, OpenKeys
    <2> QED  BY <2>1, CountedShrinks
  <1> QED  BY <1>3, <1>4, <1>5, <1>6, <1>7 DEF IInv

\* The steps of an entry.
LEMMA EnterMoves ==
  ASSUME IInv, NEW w \in Workers, Enter(w)
  PROVE  TypeOK' /\ MovesOn(w)
  <1>0. TypeOK /\ worker \in [Workers -> Worker] /\ astray \in [Keys -> SUBSET Reasons]
    BY DEF IInv, TypeOK
  <1> USE <1>0
  <1>k. Busy(w) => Key(w) \in Keys  BY DEF IInv, Claimed
  <1>1. CASE Buy(w)
    <2>1. Busy(w) /\ Key(w) \in Keys
      BY <1>1, <1>k DEF Buy, Busy, AtPc
    <2>2. /\ worker' \in [Workers -> Worker] /\ worker'[w].key = worker[w].key
          /\ worker'[w].pc \in {"stop", "finish"} /\ \A v \in Workers \ {w} : worker'[v] = worker[v]
      BY <1>1, StepWorker DEF Buy, EntryPc, ExitPc
    <2>3. gen' \in [Keys -> Entries]
      BY <1>1, <2>1, BoundAssumption DEF Buy, TypeOK, Entries
    <2>4. held' \in [Keys -> Int]
      BY <1>1, <2>1, BoundAssumption DEF Buy, TypeOK
    <2>5. faults' \in 0 .. MaxFaults
      BY <1>1, BoundAssumption DEF Buy, TypeOK, Fault, NoFault
    <2>6. astray' \in [Keys -> SUBSET Reasons] /\ Grows
      <3>1. UNCHANGED astray \/ \E why \in SUBSET Reasons : Strays(Key(w), why)
        BY <1>1 DEF Buy, Reasons
      <3> QED  BY <2>1, <3>1, UnchangedGrows, StraysGrows
    <2>7. TypeOK'
      BY <1>1, <2>1, <2>2, <2>3, <2>4, <2>5, <2>6
         DEF Buy, TypeOK, claims, loop, exchange, account, bounds
    <2>8. MovesOn(w)
      BY <1>1, <2>1, <2>2, <2>3, <2>4, <2>5, <2>6
         DEF Buy, MovesOn, Entering, Exiting, Key, claims, loop, exchange, account, bounds, AtPc
    <2> QED  BY <2>7, <2>8
  <1>2. CASE BuyRefused(w)
    <2>1. Busy(w) /\ Key(w) \in Keys
      BY <1>2, <1>k DEF BuyRefused, Busy, AtPc
    <2>2. /\ worker' \in [Workers -> Worker] /\ worker'[w].key = worker[w].key
          /\ worker'[w].pc \in {"finish"} /\ \A v \in Workers \ {w} : worker'[v] = worker[v]
      BY <1>2, StepWorker DEF BuyRefused, EntryPc, ExitPc
    <2>3. astray' \in [Keys -> SUBSET Reasons] /\ Grows
      BY <1>2, UnchangedGrows DEF BuyRefused
    <2>4. TypeOK'
      BY <1>2, <2>1, <2>2, <2>3 DEF BuyRefused, TypeOK, claims, loop, exchange, account, bounds
    <2>5. MovesOn(w)
      BY <1>2, <2>1, <2>2, <2>3 DEF BuyRefused, MovesOn, Entering, Exiting, Key, claims, loop,
             exchange, account, bounds, AtPc
    <2> QED  BY <2>4, <2>5
  <1>3. CASE PlaceStop(w)
    <2>1. Busy(w) /\ Key(w) \in Keys
      BY <1>3, <1>k DEF PlaceStop, Busy, AtPc
    <2>2. /\ worker' \in [Workers -> Worker] /\ worker'[w].key = worker[w].key
          /\ worker'[w].pc \in {"take", "unwind", "finish"}
          /\ \A v \in Workers \ {w} : worker'[v] = worker[v]
      BY <1>3, StepWorker DEF PlaceStop, EntryPc, ExitPc
    <2>3. prot' \in [Keys -> [Entries -> [Sides -> {"none", "NEW", "FILLED", "CANCELED"}]]]
      BY <1>3, <2>1, PlaceType DEF PlaceStop, TypeOK, Sides
    <2>4. faults' \in 0 .. MaxFaults
      BY <1>3, BoundAssumption DEF PlaceStop, TypeOK, Fault, NoFault
    <2>5. astray' \in [Keys -> SUBSET Reasons] /\ Grows
      <3>1. UNCHANGED astray \/ \E why \in SUBSET Reasons : Strays(Key(w), why)
        BY <1>3 DEF PlaceStop, Reasons
      <3> QED  BY <2>1, <3>1, UnchangedGrows, StraysGrows
    <2>6. TypeOK'
      BY <1>3, <2>1, <2>2, <2>3, <2>4, <2>5
         DEF PlaceStop, TypeOK, claims, loop, exchange, account, bounds
    <2>7. MovesOn(w)
      BY <1>3, <2>1, <2>2, <2>3, <2>4, <2>5
         DEF PlaceStop, MovesOn, Entering, Exiting, Key, claims, loop, exchange, account, bounds,
             AtPc
    <2> QED  BY <2>6, <2>7
  <1>4. CASE StopRefused(w)
    <2>1. Busy(w) /\ Key(w) \in Keys
      BY <1>4, <1>k DEF StopRefused, Busy, AtPc
    <2>2. /\ worker' \in [Workers -> Worker] /\ worker'[w].key = worker[w].key
          /\ worker'[w].pc \in {"unwind", "finish"}
          /\ \A v \in Workers \ {w} : worker'[v] = worker[v]
      BY <1>4, StepWorker DEF StopRefused, EntryPc, ExitPc
    <2>3. faults' \in 0 .. MaxFaults
      BY <1>4, BoundAssumption DEF StopRefused, TypeOK, Fault, NoFault
    <2>4. astray' \in [Keys -> SUBSET Reasons] /\ Grows
      <3>1. UNCHANGED astray \/ \E why \in SUBSET Reasons : Strays(Key(w), why)
        BY <1>4 DEF StopRefused, Reasons
      <3> QED  BY <2>1, <3>1, UnchangedGrows, StraysGrows
    <2>5. TypeOK'
      BY <1>4, <2>1, <2>2, <2>3, <2>4
         DEF StopRefused, TypeOK, claims, loop, exchange, account, bounds
    <2>6. MovesOn(w)
      BY <1>4, <2>1, <2>2, <2>3, <2>4
         DEF StopRefused, MovesOn, Entering, Exiting, Key, claims, loop, exchange, account,
             bounds, AtPc
    <2> QED  BY <2>5, <2>6
  <1>5. CASE Unwind(w)
    <2>1. Busy(w) /\ Key(w) \in Keys
      BY <1>5, <1>k DEF Unwind, Busy, AtPc
    <2>2. /\ worker' \in [Workers -> Worker] /\ worker'[w].key = worker[w].key
          /\ worker'[w].pc \in {"finish"} /\ \A v \in Workers \ {w} : worker'[v] = worker[v]
      BY <1>5, StepWorker DEF Unwind, EntryPc, ExitPc
    <2>3. held' \in [Keys -> Int]
      <3>1. PICK n \in 1 .. SellableQuantity(Key(w), Lot) : held' = [held EXCEPT ![Key(w)] = @ - n]
        BY <1>5 DEF Unwind
      <3>2. Lot \in Nat
        BY <1>0, BoundAssumption DEF Seen, Worker, Position
      <3>3. n \in Int
        BY <2>1, <3>2, SellableBounded
      <3> QED  BY <2>1, <3>1, <3>3 DEF TypeOK
    <2>4. astray' \in [Keys -> SUBSET Reasons] /\ Grows
      <3>1. UNCHANGED astray \/ \E why \in SUBSET Reasons : Strays(Key(w), why)
        BY <1>5 DEF Unwind, Reasons
      <3> QED  BY <2>1, <3>1, UnchangedGrows, StraysGrows
    <2>5. TypeOK'
      BY <1>5, <2>1, <2>2, <2>3, <2>4 DEF Unwind, TypeOK, claims, loop, exchange, account, bounds
    <2>6. MovesOn(w)
      BY <1>5, <2>1, <2>2, <2>3, <2>4
         DEF Unwind, MovesOn, Entering, Exiting, Key, claims, loop, exchange, account, bounds, AtPc
    <2> QED  BY <2>5, <2>6
  <1>6. CASE UnwindRefused(w)
    <2>1. Busy(w) /\ Key(w) \in Keys
      BY <1>6, <1>k DEF UnwindRefused, Busy, AtPc
    <2>2. /\ worker' \in [Workers -> Worker] /\ worker'[w].key = worker[w].key
          /\ worker'[w].pc \in {"finish"} /\ \A v \in Workers \ {w} : worker'[v] = worker[v]
      BY <1>6, StepWorker DEF UnwindRefused, EntryPc, ExitPc
    <2>3. faults' \in 0 .. MaxFaults
      BY <1>6, BoundAssumption DEF UnwindRefused, TypeOK, Fault, NoFault
    <2>4. astray' \in [Keys -> SUBSET Reasons] /\ Grows
      <3>1. UNCHANGED astray \/ \E why \in SUBSET Reasons : Strays(Key(w), why)
        BY <1>6 DEF UnwindRefused, Reasons
      <3> QED  BY <2>1, <3>1, UnchangedGrows, StraysGrows
    <2>5. TypeOK'
      BY <1>6, <2>1, <2>2, <2>3, <2>4
         DEF UnwindRefused, TypeOK, claims, loop, exchange, account, bounds
    <2>6. MovesOn(w)
      BY <1>6, <2>1, <2>2, <2>3, <2>4
         DEF UnwindRefused, MovesOn, Entering, Exiting, Key, claims, loop, exchange, account,
             bounds, AtPc
    <2> QED  BY <2>5, <2>6
  <1>7. CASE PlaceTake(w)
    <2>1. Busy(w) /\ Key(w) \in Keys
      BY <1>7, <1>k DEF PlaceTake, Busy, AtPc
    <2>2. /\ worker' \in [Workers -> Worker] /\ worker'[w].key = worker[w].key
          /\ worker'[w].pc \in {"open", "finish"} /\ \A v \in Workers \ {w} : worker'[v] = worker[v]
      <3>1. CASE worker' = [worker EXCEPT ![w].pc = "open", ![w].take = TRUE]
        <4> DEFINE next == [worker[w] EXCEPT !.pc = "open", !.take = TRUE]
        <4>1. next \in Worker /\ next.key = worker[w].key /\ next.pc = "open"
          BY DEF Worker, EntryPc
        <4>2. worker' = [worker EXCEPT ![w] = next]
          BY <3>1
        <4> HIDE DEF next
        <4> QED  BY <4>1, <4>2
      <3>2. CASE Step(w, "open") \/ Step(w, "finish")
        BY <3>2, StepWorker DEF EntryPc, ExitPc
      <3> QED  BY <1>7, <3>1, <3>2 DEF PlaceTake
    <2>3. prot' \in [Keys -> [Entries -> [Sides -> {"none", "NEW", "FILLED", "CANCELED"}]]]
      BY <1>7, <2>1, PlaceType DEF PlaceTake, TypeOK, Sides
    <2>4. faults' \in 0 .. MaxFaults
      BY <1>7, BoundAssumption DEF PlaceTake, TypeOK, Fault, NoFault
    <2>5. astray' \in [Keys -> SUBSET Reasons] /\ Grows
      <3>1. UNCHANGED astray \/ \E why \in SUBSET Reasons : Strays(Key(w), why)
        BY <1>7 DEF PlaceTake, Reasons
      <3> QED  BY <2>1, <3>1, UnchangedGrows, StraysGrows
    <2>6. TypeOK'
      BY <1>7, <2>1, <2>2, <2>3, <2>4, <2>5
         DEF PlaceTake, TypeOK, claims, loop, exchange, account, bounds
    <2>7. MovesOn(w)
      BY <1>7, <2>1, <2>2, <2>3, <2>4, <2>5
         DEF PlaceTake, MovesOn, Entering, Exiting, Key, claims, loop, exchange, account, bounds,
             AtPc
    <2> QED  BY <2>6, <2>7
  <1>8. CASE TakeRefused(w)
    <2>1. Busy(w) /\ Key(w) \in Keys
      BY <1>8, <1>k DEF TakeRefused, Busy, AtPc
    <2>2. /\ worker' \in [Workers -> Worker] /\ worker'[w].key = worker[w].key
          /\ worker'[w].pc \in {"open", "finish"} /\ \A v \in Workers \ {w} : worker'[v] = worker[v]
      BY <1>8, StepWorker DEF TakeRefused, EntryPc, ExitPc
    <2>3. faults' \in 0 .. MaxFaults
      BY <1>8, BoundAssumption DEF TakeRefused, TypeOK, Fault, NoFault
    <2>4. astray' \in [Keys -> SUBSET Reasons] /\ Grows
      <3>1. UNCHANGED astray \/ \E why \in SUBSET Reasons : Strays(Key(w), why)
        BY <1>8 DEF TakeRefused, Reasons
      <3> QED  BY <2>1, <3>1, UnchangedGrows, StraysGrows
    <2>5. TypeOK'
      BY <1>8, <2>1, <2>2, <2>3, <2>4
         DEF TakeRefused, TypeOK, claims, loop, exchange, account, bounds
    <2>6. MovesOn(w)
      BY <1>8, <2>1, <2>2, <2>3, <2>4
         DEF TakeRefused, MovesOn, Entering, Exiting, Key, claims, loop, exchange, account,
             bounds, AtPc
    <2> QED  BY <2>5, <2>6
  <1>9. CASE OpenPosition(w)
    <2>1. Busy(w) /\ Key(w) \in Keys /\ (Key(w) \in pending \/ Robbed(Key(w)))
      BY <1>9, <1>k DEF OpenPosition, Busy, AtPc, IInv, EntryPending, Entering
    <2>2. /\ worker' \in [Workers -> Worker] /\ worker'[w].key = worker[w].key
          /\ worker'[w].pc \in {"saveEntry"} /\ \A v \in Workers \ {w} : worker'[v] = worker[v]
      BY <1>9, StepWorker DEF OpenPosition, EntryPc, ExitPc
    <2>3. pos' \in [Keys -> Position] /\ \A k \in Keys \ {Key(w)} : pos'[k] = pos[k]
      <3>1. worker[w].take \in BOOLEAN  BY DEF Worker
      <3>2. gen[Key(w)] \in Entries  BY <2>1 DEF TypeOK
      <3> QED  BY <1>9, <2>1, <3>1, <3>2, BoundAssumption DEF OpenPosition, TypeOK, Position
    <2>4. astray' \in [Keys -> SUBSET Reasons] /\ Grows
      BY <1>9, UnchangedGrows DEF OpenPosition
    <2>5. TypeOK'
      BY <1>9, <2>1, <2>2, <2>3, <2>4 DEF OpenPosition, TypeOK, loop, exchange, account, bounds
    <2>6. MovesOn(w)
      BY <1>9, <2>1, <2>2, <2>3, <2>4 DEF OpenPosition, MovesOn, Entering, Exiting, Key, bounds
    <2> QED  BY <2>5, <2>6
  <1> QED  BY <1>1, <1>2, <1>3, <1>4, <1>5, <1>6, <1>7, <1>8, <1>9 DEF Enter

\* The steps of an exit, and storing the position.
LEMMA ExitMoves ==
  ASSUME IInv, NEW w \in Workers, Exit(w) \/ SavePosition(w)
  PROVE  TypeOK' /\ MovesOn(w)
  <1>0. TypeOK /\ worker \in [Workers -> Worker] /\ astray \in [Keys -> SUBSET Reasons]
    BY DEF IInv, TypeOK
  <1> USE <1>0
  <1>k. Busy(w) => Key(w) \in Keys  BY DEF IInv, Claimed
  <1>e. worker[w].pc \in Exiting => pos[Key(w)].open \/ Robbed(Key(w))  BY DEF IInv, ExitOpen
  <1>1. CASE ExitStart(w)
    <2>1. Busy(w) /\ Key(w) \in Keys
      BY <1>1, <1>k DEF ExitStart, Busy, AtPc
    <2>2. /\ worker' \in [Workers -> Worker] /\ worker'[w].key = worker[w].key
          /\ worker'[w].pc \in {"query", "finish"}
          /\ \A v \in Workers \ {w} : worker'[v] = worker[v]
      <3>1. CASE worker' = [worker EXCEPT ![w].pc = "query", ![w].seen = pos[Key(w)]]
        <4> DEFINE next == [worker[w] EXCEPT !.pc = "query", !.seen = pos[Key(w)]]
        <4>1. pos[Key(w)] \in Position  BY <2>1 DEF TypeOK
        <4>2. next \in Worker /\ next.key = worker[w].key /\ next.pc = "query"
          BY <4>1 DEF Worker, ExitPc
        <4>3. worker' = [worker EXCEPT ![w] = next]
          BY <3>1
        <4> HIDE DEF next
        <4> QED  BY <4>2, <4>3
      <3>2. CASE Step(w, "finish")
        BY <3>2, StepWorker DEF EntryPc, ExitPc
      <3> QED  BY <1>1, <3>1, <3>2 DEF ExitStart
    <2>3. worker'[w].pc = "query" => pos'[Key(w)].open
      BY <1>1, StepWorker DEF ExitStart, EntryPc, ExitPc
    <2>4. astray' \in [Keys -> SUBSET Reasons] /\ Grows
      BY <1>1, UnchangedGrows DEF ExitStart
    <2>5. TypeOK'
      BY <1>1, <2>1, <2>2, <2>3, <2>4 DEF ExitStart, TypeOK, claims, loop, exchange, account, bounds
    <2>6. MovesOn(w)
      BY <1>1, <2>1, <2>2, <2>3, <2>4
         DEF ExitStart, MovesOn, Entering, Exiting, Key, claims, loop, exchange, account, bounds,
             AtPc
    <2> QED  BY <2>5, <2>6
  <1>2. CASE QueryProtective(w)
    <2>1. Busy(w) /\ Key(w) \in Keys
      BY <1>2, <1>k DEF QueryProtective, Busy, AtPc
    <2>2. /\ worker' \in [Workers -> Worker] /\ worker'[w].key = worker[w].key
          /\ worker'[w].pc \in {"query", "cancel"}
          /\ \A v \in Workers \ {w} : worker'[v] = worker[v]
      BY <1>2, BoundAssumption DEF QueryProtective, Worker, EntryPc, ExitPc, Sides
    <2>3. faults' \in 0 .. MaxFaults
      BY <1>2, BoundAssumption DEF QueryProtective, TypeOK, Fault, NoFault
    <2>4. astray' \in [Keys -> SUBSET Reasons] /\ Grows
      BY <1>2, UnchangedGrows DEF QueryProtective
    <2>5. TypeOK'
      BY <1>2, <2>1, <2>2, <2>3, <2>4
         DEF QueryProtective, TypeOK, claims, loop, exchange, account, bounds
    <2>6. MovesOn(w)
      BY <1>2, <1>e, <2>1, <2>2, <2>3, <2>4
         DEF QueryProtective, MovesOn, Entering, Exiting, Key, claims, loop, exchange, account,
             bounds, AtPc
    <2> QED  BY <2>5, <2>6
  <1>3. CASE CancelProtective(w)
    <2>1. Busy(w) /\ Key(w) \in Keys
      BY <1>3, <1>k DEF CancelProtective, Busy, AtPc
    <2>2. /\ worker' \in [Workers -> Worker] /\ worker'[w].key = worker[w].key
          /\ worker'[w].pc \in {"cancel", "sell", "book"}
          /\ \A v \in Workers \ {w} : worker'[v] = worker[v]
      <3> DEFINE side == IF worker[w].side = "SL" THEN "TP" ELSE "SL"
                 label == IF worker[w].side = "SL" THEN "cancel"
                          ELSE IF worker[w].found = "none" THEN "sell" ELSE "book"
      <3>1. worker' = [worker EXCEPT ![w].side = side, ![w].pc = label]
        BY <1>3 DEF CancelProtective
      <3>2. side \in Sides /\ label \in {"cancel", "sell", "book"}  BY DEF Sides
      <3> HIDE DEF side, label
      <3> DEFINE next == [worker[w] EXCEPT !.side = side, !.pc = label]
      <3>3. next \in Worker /\ next.key = worker[w].key /\ next.pc = label
        BY <3>2 DEF Worker, ExitPc
      <3>4. worker' = [worker EXCEPT ![w] = next]
        BY <3>1
      <3> HIDE DEF next
      <3> QED  BY <3>2, <3>3, <3>4
    <2>3. prot' \in [Keys -> [Entries -> [Sides -> {"none", "NEW", "FILLED", "CANCELED"}]]]
      <3>1. worker[w].side \in Sides /\ Seen(w).entry \in Entries  BY DEF Worker, Seen, Position
      <3>2. PICK k \in Keys, e \in Entries, s \in Sides :
              \/ prot' = prot
              \/ prot' = [prot EXCEPT ![k][e][s] = "CANCELED"]
        BY <1>3, <2>1, <3>1 DEF CancelProtective
      <3>3. CASE prot' = prot  BY <3>3 DEF TypeOK
      <3>4. CASE prot' # prot
        <4>1. prot' = [prot EXCEPT ![k][e][s] = "CANCELED"]  BY <3>2, <3>4
        <4> QED  BY <4>1 DEF TypeOK
      <3> QED  BY <3>3, <3>4
    <2>4. faults' \in 0 .. MaxFaults
      BY <1>3, BoundAssumption DEF CancelProtective, TypeOK, Fault, NoFault
    <2>5. astray' \in [Keys -> SUBSET Reasons] /\ Grows
      <3>1. UNCHANGED astray \/ \E why \in SUBSET Reasons : Strays(Key(w), why)
        BY <1>3 DEF CancelProtective, Reasons
      <3> QED  BY <2>1, <3>1, UnchangedGrows, StraysGrows
    <2>6. TypeOK'
      BY <1>3, <2>1, <2>2, <2>3, <2>4, <2>5
         DEF CancelProtective, TypeOK, claims, loop, exchange, account, bounds
    <2>7. MovesOn(w)
      BY <1>3, <1>e, <2>1, <2>2, <2>3, <2>4, <2>5
         DEF CancelProtective, MovesOn, Entering, Exiting, Key, claims, loop, exchange, account,
             bounds, AtPc
    <2> QED  BY <2>6, <2>7
  <1>4. CASE Sell(w)
    <2>1. Busy(w) /\ Key(w) \in Keys
      BY <1>4, <1>k DEF Sell, Busy, AtPc
    <2>2. /\ worker' \in [Workers -> Worker] /\ worker'[w].key = worker[w].key
          /\ worker'[w].pc \in {"book", "finish"} /\ \A v \in Workers \ {w} : worker'[v] = worker[v]
      <3>1. CASE Step(w, "finish")
        BY <3>1, StepWorker DEF EntryPc, ExitPc
      <3>2. CASE \E n \in 1 .. SellableQuantity(Key(w), Seen(w).qty) :
                   worker' = [worker EXCEPT ![w].pc = "book", ![w].executed = n]
        <4>1. PICK n \in 1 .. SellableQuantity(Key(w), Seen(w).qty) :
                worker' = [worker EXCEPT ![w].pc = "book", ![w].executed = n]
          BY <3>2
        <4>2. Seen(w).qty \in 0 .. Lot
          BY DEF Seen, Worker, Position
        <4>3. n \in 0 .. Lot
          BY <2>1, <4>2, SellableBounded, BoundAssumption
        <4> DEFINE next == [worker[w] EXCEPT !.pc = "book", !.executed = n]
        <4>4. next \in Worker /\ next.key = worker[w].key /\ next.pc = "book"
          BY <4>3 DEF Worker, ExitPc
        <4>5. worker' = [worker EXCEPT ![w] = next]
          BY <4>1
        <4> HIDE DEF next
        <4> QED  BY <4>4, <4>5
      <3> QED  BY <1>4, <3>1, <3>2 DEF Sell
    <2>3. held' \in [Keys -> Int]
      <3>1. PICK n \in 1 .. SellableQuantity(Key(w), Seen(w).qty) :
              held' = [held EXCEPT ![Key(w)] = @ - n]
        BY <1>4 DEF Sell
      <3>2. Seen(w).qty \in Nat
        BY <1>0, BoundAssumption DEF Seen, Worker, Position
      <3>3. n \in Int
        BY <2>1, <3>2, SellableBounded
      <3> QED  BY <2>1, <3>1, <3>3 DEF TypeOK
    <2>4. faults' \in 0 .. MaxFaults
      BY <1>4, BoundAssumption DEF Sell, TypeOK, Fault, NoFault
    <2>5. astray' \in [Keys -> SUBSET Reasons] /\ Grows
      <3>1. UNCHANGED astray \/ \E why \in SUBSET Reasons : Strays(Key(w), why)
        BY <1>4 DEF Sell, Reasons
      <3> QED  BY <2>1, <3>1, UnchangedGrows, StraysGrows
    <2>6. candidates' \subseteq Keys /\ flat' \in Keys \cup {NoKey} /\ looping' \in BOOLEAN
      BY <1>4 DEF Sell, Dies, loop, TypeOK
    <2>7. TypeOK'
      BY <1>4, <2>1, <2>2, <2>3, <2>4, <2>5, <2>6
         DEF Sell, TypeOK, claims, loop, exchange, account, bounds
    <2>8. MovesOn(w)
      BY <1>4, <1>e, <2>1, <2>2, <2>3, <2>4, <2>5, <2>6
         DEF Sell, MovesOn, Entering, Exiting, Key, claims, loop, exchange, account, bounds, AtPc
    <2> QED  BY <2>7, <2>8
  <1>5. CASE SellRefused(w)
    <2>1. Busy(w) /\ Key(w) \in Keys
      BY <1>5, <1>k DEF SellRefused, Busy, AtPc
    <2>2. /\ worker' \in [Workers -> Worker] /\ worker'[w].key = worker[w].key
          /\ worker'[w].pc \in {"finish"} /\ \A v \in Workers \ {w} : worker'[v] = worker[v]
      BY <1>5, StepWorker DEF SellRefused, EntryPc, ExitPc
    <2>3. faults' \in 0 .. MaxFaults
      BY <1>5, BoundAssumption DEF SellRefused, TypeOK, Fault, NoFault
    <2>4. astray' \in [Keys -> SUBSET Reasons] /\ Grows
      BY <1>5, UnchangedGrows DEF SellRefused
    <2>5. TypeOK'
      BY <1>5, <2>1, <2>2, <2>3, <2>4
         DEF SellRefused, TypeOK, claims, loop, exchange, account, bounds
    <2>6. MovesOn(w)
      BY <1>5, <2>1, <2>2, <2>3, <2>4
         DEF SellRefused, MovesOn, Entering, Exiting, Key, claims, loop, exchange, account,
             bounds, AtPc
    <2> QED  BY <2>5, <2>6
  <1>6. CASE ExitBreaks(w)
    <2>1. Busy(w) /\ Key(w) \in Keys
      BY <1>6, <1>k DEF ExitBreaks, Busy, AtPc
    <2>2. /\ worker' \in [Workers -> Worker] /\ worker'[w].key = worker[w].key
          /\ worker'[w].pc \in {"finish"} /\ \A v \in Workers \ {w} : worker'[v] = worker[v]
      BY <1>6, StepWorker DEF ExitBreaks, EntryPc, ExitPc
    <2>3. faults' \in 0 .. MaxFaults
      BY <1>6, BoundAssumption DEF ExitBreaks, TypeOK, Fault, NoFault
    <2>4. astray' \in [Keys -> SUBSET Reasons] /\ Grows
      BY <1>6, UnchangedGrows DEF ExitBreaks
    <2>5. candidates' \subseteq Keys /\ flat' \in Keys \cup {NoKey} /\ looping' \in BOOLEAN
      BY <1>6 DEF ExitBreaks, Dies, loop, TypeOK
    <2>6. TypeOK'
      BY <1>6, <2>1, <2>2, <2>3, <2>4, <2>5
         DEF ExitBreaks, TypeOK, claims, loop, exchange, account, bounds
    <2>7. MovesOn(w)
      BY <1>6, <2>1, <2>2, <2>3, <2>4, <2>5
         DEF ExitBreaks, MovesOn, Entering, Exiting, Key, claims, loop, exchange, account,
             bounds, AtPc
    <2> QED  BY <2>6, <2>7
  <1>7. CASE Book(w)
    <2>1. Busy(w) /\ Key(w) \in Keys /\ (pos[Key(w)].open \/ Robbed(Key(w)))
      BY <1>7, <1>k, <1>e DEF Book, Busy, AtPc, Exiting
    <2>2. /\ worker' \in [Workers -> Worker] /\ worker'[w].key = worker[w].key
          /\ worker'[w].pc \in {"saveExit"} /\ \A v \in Workers \ {w} : worker'[v] = worker[v]
      BY <1>7, StepWorker DEF Book, EntryPc, ExitPc
    <2>3. pos' \in [Keys -> Position] /\ \A k \in Keys \ {Key(w)} : pos'[k] = pos[k]
      <3>1. worker[w].executed \in 0 .. Lot  BY DEF Worker
      <3>2. pos[Key(w)] \in Position  BY <2>1 DEF TypeOK
      <3>3. Executed(w) \in 0 .. Lot  BY <3>1, BoundAssumption DEF Executed
      <3> QED  BY <1>7, <2>1, <3>2, <3>3, BoundAssumption DEF Book, TypeOK, Position
    <2>4. astray' \in [Keys -> SUBSET Reasons] /\ Grows
      BY <1>7, UnchangedGrows DEF Book
    <2>5. TypeOK'
      BY <1>7, <2>1, <2>2, <2>3, <2>4 DEF Book, TypeOK, claims, loop, exchange, account, bounds
    <2>6. MovesOn(w)
      BY <1>7, <2>1, <2>2, <2>3, <2>4 DEF Book, MovesOn, Entering, Exiting, Key, claims, bounds
    <2> QED  BY <2>5, <2>6
  <1>8. CASE SavePosition(w)
    <2>1. Busy(w) /\ Key(w) \in Keys
      BY <1>8, <1>k DEF SavePosition, Busy, AtPc
    <2>2. /\ worker' \in [Workers -> Worker] /\ worker'[w].key = worker[w].key
          /\ worker'[w].pc \in {"finish"} /\ \A v \in Workers \ {w} : worker'[v] = worker[v]
      BY <1>8, StepWorker DEF SavePosition, EntryPc, ExitPc
    <2>3. saved' \in [Keys -> Position]
      BY <1>8, <2>1 DEF SavePosition, TypeOK, Fault, NoFault
    <2>4. faults' \in 0 .. MaxFaults
      BY <1>8, BoundAssumption DEF SavePosition, TypeOK, Fault, NoFault
    <2>5. astray' \in [Keys -> SUBSET Reasons] /\ Grows
      BY <1>8, UnchangedGrows DEF SavePosition
    <2>6. candidates' \subseteq Keys /\ flat' \in Keys \cup {NoKey} /\ looping' \in BOOLEAN
      BY <1>8 DEF SavePosition, Dies, loop, TypeOK
    <2>7. TypeOK'
      BY <1>8, <2>1, <2>2, <2>3, <2>4, <2>5, <2>6
         DEF SavePosition, TypeOK, claims, loop, exchange, account, bounds
    <2>8. MovesOn(w)
      BY <1>8, <2>1, <2>2, <2>3, <2>4, <2>5, <2>6
         DEF SavePosition, MovesOn, Entering, Exiting, Key, claims, loop, exchange, account,
             bounds, AtPc
    <2> QED  BY <2>7, <2>8
  <1> QED  BY <1>1, <1>2, <1>3, <1>4, <1>5, <1>6, <1>7, <1>8 DEF Exit


-------------------------------------------------------------------------------
(* The other steps *)

\* A task starts on a key nobody else claims.
LEMMA ClaimedByOne ==
  ASSUME IInv, NEW w \in Workers, NEW k \in Keys, k \notin inflight,
         worker'[w].key = k, worker'[w].pc \in {"buy", "start"},
         \A v \in Workers \ {w} : worker'[v] = worker[v],
         worker'[w].pc = "buy" => k \in pending', pending \subseteq pending',
         inflight' = inflight \cup {k}, UNCHANGED <<pos, astray>>
  PROVE  Claimed' /\ EntryPending' /\ ExitOpen' /\ OneWorkerPerKey'
  <1>1. Claimed'
    <2> SUFFICES ASSUME NEW v \in Workers, worker'[v].pc # "idle"
                 PROVE  worker'[v].key \in Keys
                        /\ (worker'[v].key \in inflight' \/ "robbed" \in astray[worker'[v].key])
      BY DEF Claimed, Busy, AtPc, Key, Robbed
    <2>1. CASE v # w  BY <2>1 DEF IInv, Claimed, Busy, AtPc, Key, Robbed
    <2> QED  BY <2>1
  <1>2. EntryPending'
    <2> SUFFICES ASSUME NEW v \in Workers, worker'[v].pc \in Entering
                 PROVE  worker'[v].key \in pending' \/ "robbed" \in astray[worker'[v].key]
      BY DEF EntryPending, Key, Robbed
    <2>1. CASE v = w  BY <2>1 DEF Entering
    <2>2. CASE v # w  BY <2>2 DEF IInv, EntryPending, Key, Robbed
    <2> QED  BY <2>1, <2>2
  <1>3. ExitOpen'
    <2> SUFFICES ASSUME NEW v \in Workers, worker'[v].pc \in Exiting
                 PROVE  pos[worker'[v].key].open \/ "robbed" \in astray[worker'[v].key]
      BY DEF ExitOpen, Key, Robbed
    <2>1. v # w  BY DEF Exiting
    <2> QED  BY <2>1 DEF IInv, ExitOpen, Key, Robbed
  <1>4. OneWorkerPerKey'
    <2> SUFFICES ASSUME NEW u \in Workers, NEW v \in Workers, u # v, worker'[u].pc # "idle",
                        worker'[v].pc # "idle", worker'[u].key = worker'[v].key
                 PROVE  "robbed" \in astray[worker'[u].key]
      BY DEF OneWorkerPerKey, Busy, AtPc, Key
    <2>1. \A x \in Workers \ {w} : worker'[x].pc # "idle" /\ worker'[x].key = k
                                     => "robbed" \in astray[k]
      BY DEF IInv, Claimed, Busy, AtPc, Key, Robbed
    <2>2. CASE u # w /\ v # w  BY <2>2 DEF IInv, OneWorkerPerKey, Busy, AtPc, Key
    <2> QED  BY <2>1, <2>2
  <1> QED  BY <1>1, <1>2, <1>3, <1>4

\* Claiming a key for an exit: the key was free.
LEMMA ClaimExitKeeps ==
  ASSUME IInv, TypeOK', NEW w \in Workers, NEW k \in Keys, NEW b \in BOOLEAN,
         k \notin inflight, Assign(w, k, "start", b),
         inflight' = inflight \cup {k}, UNCHANGED <<pos, pending, astray>>
  PROVE  IInv'
  <1>1. /\ worker'[w].pc = "start" /\ worker'[w].key = k
        /\ \A v \in Workers \ {w} : worker'[v] = worker[v]
    BY AssignWorker DEF IInv, TypeOK
  <1>2. Claimed' /\ EntryPending' /\ ExitOpen' /\ OneWorkerPerKey'
    BY <1>1, ClaimedByOne
  <1>3. EntryLimit'
    <2>1. Counted' \subseteq Counted  BY DEF Counted, OpenKeys
    <2> QED  BY <2>1, CountedShrinks
  <1> QED  BY <1>2, <1>3 DEF IInv

\* Claiming a key for an entry: with the room CanBuy found, one more fits.
LEMMA ClaimBuyKeeps ==
  ASSUME IInv, TypeOK', NEW w \in Workers, NEW k \in Keys, SignalBuy(w, k)
  PROVE  IInv'
  <1>1. /\ worker'[w].pc = "buy" /\ worker'[w].key = k
        /\ \A v \in Workers \ {w} : worker'[v] = worker[v]
    BY AssignWorker DEF SignalBuy, IInv, TypeOK
  <1>2. Claimed' /\ EntryPending' /\ ExitOpen' /\ OneWorkerPerKey'
    BY <1>1, ClaimedByOne DEF SignalBuy, CanBuy
  <1>3. EntryLimit'
    <2> DEFINE all == OpenKeys \cup pending
               counted == {x \in (OpenKeys \cup pending)' :
                             astray'[x] \cap {"robbed", "crashed"} = {}}
    <2>1. IsFiniteSet(OpenKeys) /\ IsFiniteSet(pending)
      BY FiniteAssumption, FS_Subset DEF IInv, TypeOK, OpenKeys
    <2>2. /\ IsFiniteSet(all)
          /\ Cardinality(all) =
               Cardinality(OpenKeys) + Cardinality(pending) - Cardinality(OpenKeys \cap pending)
      BY <2>1, FS_Union
    <2>3. IsFiniteSet(OpenKeys \cap pending)  BY <2>1, FS_Subset
    <2>4. /\ Cardinality(OpenKeys) \in Nat /\ Cardinality(pending) \in Nat
          /\ Cardinality(OpenKeys \cap pending) \in Nat
          /\ Cardinality(all) \in Nat
      BY <2>1, <2>2, <2>3, FS_CardinalityType
    <2>5. Cardinality(OpenKeys) + Cardinality(pending) < MaxOpen
      BY DEF SignalBuy, CanBuy
    <2>6. Cardinality(all) + 1 <= MaxOpen
      BY <2>2, <2>4, <2>5, BoundAssumption
    <2>7. counted \subseteq all \cup {k}
      BY DEF SignalBuy, OpenKeys
    <2> HIDE DEF all, counted
    <2>8. /\ IsFiniteSet(all \cup {k})
          /\ Cardinality(all \cup {k}) <= Cardinality(all) + 1
      <3>1. /\ IsFiniteSet(all \cup {k})
            /\ Cardinality(all \cup {k}) = IF k \in all THEN Cardinality(all)
                                            ELSE Cardinality(all) + 1
        BY <2>2, FS_AddElement
      <3> QED  BY <2>4, <3>1
    <2>9. Cardinality(counted) <= Cardinality(all \cup {k}) /\ Cardinality(counted) \in Nat
          /\ Cardinality(all \cup {k}) \in Nat
      BY <2>7, <2>8, FS_Subset, FS_CardinalityType
    <2>10. Cardinality(counted) <= MaxOpen
      BY <2>4, <2>6, <2>8, <2>9, BoundAssumption
    <2> QED  BY <2>10 DEF EntryLimit, counted
  <1> QED  BY <1>2, <1>3 DEF IInv

LEMMA ClaimKeeps ==
  ASSUME IInv, NEW w \in Workers, NEW k \in Keys,
         Claim(w, k) \/ (ReconcileExit(k) /\ w = Loop)
  PROVE  IInv'
  <1>0. TypeOK /\ worker \in [Workers -> Worker]  BY DEF IInv, TypeOK
  <1>1. CASE SignalBuy(w, k)
    <2>1. worker' \in [Workers -> Worker]  BY <1>0, <1>1, AssignWorker DEF SignalBuy
    <2>2. TypeOK'  BY <1>0, <1>1, <2>1 DEF SignalBuy, TypeOK, loop, exchange, bounds
    <2> QED  BY <1>1, <2>2, ClaimBuyKeeps
  <1>2. CASE SignalExit(w, k)
    <2>1. worker' \in [Workers -> Worker]  BY <1>0, <1>2, AssignWorker DEF SignalExit
    <2>2. TypeOK'  BY <1>0, <1>2, <2>1 DEF SignalExit, TypeOK, loop, exchange, bounds
    <2> QED  BY <1>2, <2>2, ClaimExitKeeps DEF SignalExit, CanExit
  <1>3. CASE TickExit(w, k)
    <2>1. worker' \in [Workers -> Worker]  BY <1>0, <1>3, AssignWorker DEF TickExit
    <2>2. TypeOK'  BY <1>0, <1>3, <2>1 DEF TickExit, TypeOK, loop, exchange, account, bounds
    <2> QED  BY <1>3, <2>2, ClaimExitKeeps DEF TickExit, CanExit
  <1>4. CASE ReconcileExit(k) /\ w = Loop
    <2>1. worker' \in [Workers -> Worker]
      BY <1>0, <1>4, AssignWorker, BoundAssumption DEF ReconcileExit
    <2>2. TypeOK'  BY <1>0, <1>4, <2>1 DEF ReconcileExit, TypeOK, exchange, account, bounds
    <2> QED  BY <1>4, <2>2, ClaimExitKeeps DEF ReconcileExit, StillExits
  <1> QED  BY <1>1, <1>2, <1>3, <1>4 DEF Claim

\* The finally block of the reconciliation, without a claim of its own.
LEMMA SkipKeeps ==
  ASSUME IInv, NEW k \in Keys, ReconcileSkip(k)
  PROVE  IInv'
  <1>0. TypeOK /\ astray \in [Keys -> SUBSET Reasons]  BY DEF IInv, TypeOK
  <1>1. PICK why \in SUBSET Reasons : Strays(k, why) /\ (k \in inflight => "robbed" \in why)
    BY DEF ReconcileSkip, Reasons
  <1>2. astray' \in [Keys -> SUBSET Reasons] /\ Grows /\ (k \in inflight => "robbed" \in astray'[k])
    BY <1>0, <1>1, StraysGrows
  <1>3. TypeOK'
    BY <1>0, <1>2 DEF ReconcileSkip, TypeOK, exchange, account, bounds
  <1>4. \A x \in Keys : "robbed" \in astray[x] => "robbed" \in astray'[x]
    BY <1>2 DEF Grows
  <1>5. worker' = worker /\ pos' = pos /\ pending' = pending /\ inflight' = inflight \ {k}
    BY DEF ReconcileSkip
  <1>6. \A v \in Workers : Busy(v) => Key(v) \in Keys
    BY DEF IInv, Claimed
  <1>7. Claimed'
    <2> SUFFICES ASSUME NEW v \in Workers, Busy(v)
                 PROVE  Key(v) \in Keys /\ (Key(v) \in inflight' \/ "robbed" \in astray'[Key(v)])
      BY <1>5 DEF Claimed, Busy, AtPc, Key, Robbed
    <2>1. Key(v) \in Keys /\ (Key(v) \in inflight \/ "robbed" \in astray[Key(v)])
      BY DEF IInv, Claimed, Robbed
    <2> QED  BY <1>2, <1>4, <1>5, <2>1
  <1>8. EntryPending'
    <2> SUFFICES ASSUME NEW v \in Workers, worker[v].pc \in Entering
                 PROVE  Key(v) \in pending \/ "robbed" \in astray'[Key(v)]
      BY <1>5 DEF EntryPending, Key, Robbed
    <2>1. Key(v) \in Keys  BY <1>6 DEF Busy, AtPc, Entering
    <2> QED  BY <1>4, <2>1 DEF IInv, EntryPending, Robbed
  <1>9. ExitOpen'
    <2> SUFFICES ASSUME NEW v \in Workers, worker[v].pc \in Exiting
                 PROVE  pos[Key(v)].open \/ "robbed" \in astray'[Key(v)]
      BY <1>5 DEF ExitOpen, Key, Robbed
    <2>1. Key(v) \in Keys  BY <1>6 DEF Busy, AtPc, Exiting
    <2> QED  BY <1>4, <2>1 DEF IInv, ExitOpen, Robbed
  <1>10. OneWorkerPerKey'
    <2> SUFFICES ASSUME NEW u \in Workers, NEW v \in Workers, u # v, Busy(u), Busy(v),
                        Key(u) = Key(v)
                 PROVE  "robbed" \in astray'[Key(u)]
      BY <1>5 DEF OneWorkerPerKey, Busy, AtPc, Key
    <2>1. Key(u) \in Keys /\ "robbed" \in astray[Key(u)]
      BY <1>6 DEF IInv, OneWorkerPerKey
    <2> QED  BY <1>4, <2>1
  <1>11. EntryLimit'
    <2>1. \A x \in Counted' : x \in Keys /\ astray[x] \subseteq astray'[x]
      BY <1>2, <1>5 DEF Counted, OpenKeys, Grows, IInv, TypeOK
    <2>2. Counted' \subseteq Counted
      BY <1>5, <2>1 DEF Counted, OpenKeys
    <2> QED  BY <2>2, CountedShrinks
  <1> QED  BY <1>3, <1>7, <1>8, <1>9, <1>10, <1>11 DEF IInv

\* Giving the key back: another worker on it was there because of a lost claim.
LEMMA FinishKeeps ==
  ASSUME IInv, NEW w \in Workers, Finish(w)
  PROVE  IInv'
  <1>0. TypeOK /\ worker \in [Workers -> Worker]  BY DEF IInv, TypeOK
  <1>p. pending' \subseteq pending /\ pending \ {Key(w)} \subseteq pending'
    BY DEF Finish, Unpended
  <1>1. TypeOK'
    <2>1. worker' \in [Workers -> Worker]  BY <1>0, IdleType DEF Finish
    <2> QED  BY <1>0, <1>p, <2>1 DEF Finish, TypeOK, loop, account, exchange, bounds
  <1>2. /\ worker'[w].pc = "idle" /\ \A v \in Workers \ {w} : worker'[v] = worker[v]
    BY <1>0, IdleType DEF Finish
  <1>3. \A v \in Workers \ {w} : Busy(v) /\ Key(v) = Key(w) => Robbed(Key(v))
    BY DEF IInv, OneWorkerPerKey, Finish, Busy, AtPc, Robbed
  <1>u. pos' = pos /\ astray' = astray /\ inflight' = inflight \ {Key(w)}
    BY DEF Finish
  <1>4. Claimed'
    <2> SUFFICES ASSUME NEW v \in Workers, worker'[v].pc # "idle"
                 PROVE  worker'[v].key \in Keys
                        /\ (worker'[v].key \in inflight' \/ "robbed" \in astray[worker'[v].key])
      BY <1>u DEF Claimed, Busy, AtPc, Key, Robbed
    <2>1. v # w /\ worker'[v] = worker[v]  BY <1>2
    <2>2. Busy(v)  BY <2>1 DEF Busy, AtPc
    <2> QED  BY <1>3, <1>u, <2>1, <2>2 DEF IInv, Claimed, Key, Robbed
  <1>5. EntryPending'
    <2> SUFFICES ASSUME NEW v \in Workers, worker'[v].pc \in Entering
                 PROVE  worker'[v].key \in pending' \/ "robbed" \in astray[worker'[v].key]
      BY <1>u DEF EntryPending, Key, Robbed
    <2>1. v # w /\ worker'[v] = worker[v]  BY <1>2 DEF Entering
    <2>2. Busy(v)  BY <2>1 DEF Busy, AtPc, Entering
    <2> QED  BY <1>3, <1>p, <2>1, <2>2 DEF IInv, EntryPending, Key, Robbed
  <1>6. ExitOpen'
    <2> SUFFICES ASSUME NEW v \in Workers, worker'[v].pc \in Exiting
                 PROVE  pos[worker'[v].key].open \/ "robbed" \in astray[worker'[v].key]
      BY <1>u DEF ExitOpen, Key, Robbed
    <2>1. v # w /\ worker'[v] = worker[v]  BY <1>2 DEF Exiting
    <2> QED  BY <2>1 DEF IInv, ExitOpen, Key, Robbed
  <1>7. OneWorkerPerKey'
    <2> SUFFICES ASSUME NEW u \in Workers, NEW v \in Workers, u # v, worker'[u].pc # "idle",
                        worker'[v].pc # "idle", worker'[u].key = worker'[v].key
                 PROVE  "robbed" \in astray[worker'[u].key]
      BY <1>u DEF OneWorkerPerKey, Busy, AtPc, Key
    <2> QED  BY <1>2 DEF IInv, OneWorkerPerKey, Busy, AtPc, Key
  <1>8. EntryLimit'
    <2>1. Counted' \subseteq Counted  BY <1>p, <1>u DEF Counted, OpenKeys
    <2> QED  BY <2>1, CountedShrinks
  <1> QED  BY <1>1, <1>4, <1>5, <1>6, <1>7, <1>8 DEF IInv

\* Steps of the strategy, the account and the exchange touch no claim.
LEMMA UntouchedKeeps ==
  ASSUME IInv, TypeOK', Grows, UNCHANGED <<pos, inflight, pending, worker>>
  PROVE  IInv'
  <1>1. \A x \in Keys : "robbed" \in astray[x] => "robbed" \in astray'[x]
    BY DEF Grows
  <1>2. \A v \in Workers : Busy(v) => Key(v) \in Keys
    BY DEF IInv, Claimed
  <1>3. Claimed'
    <2> SUFFICES ASSUME NEW v \in Workers, Busy(v)
                 PROVE  Key(v) \in Keys /\ (Key(v) \in inflight \/ "robbed" \in astray'[Key(v)])
      BY DEF Claimed, Busy, AtPc, Key, Robbed
    <2> QED  BY <1>1, <1>2 DEF IInv, Claimed, Robbed
  <1>4. EntryPending'
    <2> SUFFICES ASSUME NEW v \in Workers, worker[v].pc \in Entering
                 PROVE  Key(v) \in pending \/ "robbed" \in astray'[Key(v)]
      BY DEF EntryPending, Key, Robbed
    <2>1. Key(v) \in Keys  BY <1>2 DEF Busy, AtPc, Entering
    <2> QED  BY <1>1, <2>1 DEF IInv, EntryPending, Robbed
  <1>5. ExitOpen'
    <2> SUFFICES ASSUME NEW v \in Workers, worker[v].pc \in Exiting
                 PROVE  pos[Key(v)].open \/ "robbed" \in astray'[Key(v)]
      BY DEF ExitOpen, Key, Robbed
    <2>1. Key(v) \in Keys  BY <1>2 DEF Busy, AtPc, Exiting
    <2> QED  BY <1>1, <2>1 DEF IInv, ExitOpen, Robbed
  <1>6. OneWorkerPerKey'
    <2> SUFFICES ASSUME NEW u \in Workers, NEW v \in Workers, u # v, Busy(u), Busy(v),
                        Key(u) = Key(v)
                 PROVE  "robbed" \in astray'[Key(u)]
      BY DEF OneWorkerPerKey, Busy, AtPc, Key
    <2>1. Key(u) \in Keys /\ "robbed" \in astray[Key(u)]
      BY <1>2 DEF IInv, OneWorkerPerKey
    <2> QED  BY <1>1, <2>1
  <1>7. EntryLimit'
    <2>1. \A x \in Counted' : x \in Keys /\ astray[x] \subseteq astray'[x]
      BY DEF Counted, OpenKeys, Grows, IInv, TypeOK
    <2>2. Counted' \subseteq Counted  BY <2>1 DEF Counted, OpenKeys
    <2> QED  BY <2>2, CountedShrinks
  <1> QED  BY <1>3, <1>4, <1>5, <1>6, <1>7 DEF IInv

LEMMA EnvironmentKeeps ==
  ASSUME IInv,
         \/ \E k \in Keys : Flip(k) \/ SignalDropped(k) \/ ReconcileLook(k)
         \/ \E k \in Keys, g \in Entries, s \in Sides : Trigger(k, g, s)
         \/ ReconcileBegin \/ SetAutomation \/ Logout \/ Login
  PROVE  IInv'
  <1>0. TypeOK /\ astray \in [Keys -> SUBSET Reasons]  BY DEF IInv, TypeOK
  <1>1. ASSUME NEW k \in Keys, Flip(k)  PROVE IInv'
    <2>1. flips' \in 0 .. MaxFlips  BY <1>0, <1>1, BoundAssumption DEF Flip, TypeOK
    <2>2. TypeOK'  BY <1>0, <1>1, <2>1 DEF Flip, TypeOK, claims, loop, exchange
    <2> QED  BY <1>0, <1>1, <2>2, UntouchedKeeps, UnchangedGrows DEF Flip, claims
  <1>2. ASSUME NEW k \in Keys, SignalDropped(k)  PROVE IInv'
    <2>1. TypeOK'  BY <1>0, <1>2 DEF SignalDropped, TypeOK, claims, loop, exchange, bounds
    <2> QED  BY <1>0, <1>2, <2>1, UntouchedKeeps, UnchangedGrows DEF SignalDropped, claims
  <1>3. ASSUME NEW k \in Keys, NEW g \in Entries, NEW s \in Sides, Trigger(k, g, s)
        PROVE  IInv'
    <2>1. prot' \in [Keys -> [Entries -> [Sides -> {"none", "NEW", "FILLED", "CANCELED"}]]]
      BY <1>0, <1>3 DEF Trigger, TypeOK
    <2>2. held' \in [Keys -> Int]  BY <1>0, <1>3, BoundAssumption DEF Trigger, TypeOK
    <2>3. astray' \in [Keys -> SUBSET Reasons] /\ Grows
      <3>1. \E why \in SUBSET Reasons : Strays(k, why)  BY <1>3 DEF Trigger, Reasons
      <3> QED  BY <1>0, <3>1, StraysGrows
    <2>4. TypeOK'  BY <1>0, <1>3, <2>1, <2>2, <2>3
       DEF Trigger, TypeOK, claims, loop, account, bounds
    <2> QED  BY <1>3, <2>3, <2>4, UntouchedKeeps DEF Trigger, claims
  <1>4. CASE SetAutomation
    <2>1. TypeOK'  BY <1>0, <1>4 DEF SetAutomation, TypeOK, claims, loop, exchange, bounds
    <2> QED  BY <1>0, <1>4, <2>1, UntouchedKeeps, UnchangedGrows DEF SetAutomation, claims
  <1>5. CASE Logout
    <2>1. logouts' \in 0 .. MaxLogouts  BY <1>0, <1>5, BoundAssumption DEF Logout, TypeOK
    <2>2. TypeOK'  BY <1>0, <1>5, <2>1 DEF Logout, TypeOK, claims, loop, exchange
    <2> QED  BY <1>0, <1>5, <2>2, UntouchedKeeps, UnchangedGrows DEF Logout, claims
  <1>6. CASE Login
    <2>1. TypeOK'  BY <1>0, <1>6 DEF Login, TypeOK, claims, loop, exchange, bounds
    <2> QED  BY <1>0, <1>6, <2>1, UntouchedKeeps, UnchangedGrows DEF Login, claims
  <1>7. ASSUME NEW k \in Keys, ReconcileLook(k)  PROVE IInv'
    <2>1. flat' \in Keys \cup {NoKey} /\ candidates' \subseteq Keys
      BY <1>0, <1>7 DEF ReconcileLook, TypeOK
    <2>2. TypeOK'  BY <1>0, <1>7, <2>1 DEF ReconcileLook, TypeOK, claims, account, exchange, bounds
    <2> QED  BY <1>0, <1>7, <2>2, UntouchedKeeps, UnchangedGrows DEF ReconcileLook, claims
  <1>8. CASE ReconcileBegin
    <2>1. candidates' \subseteq Keys  BY <1>8 DEF ReconcileBegin, OpenKeys
    <2>2. TypeOK'  BY <1>0, <1>8, <2>1 DEF ReconcileBegin, TypeOK, claims, account, exchange, bounds
    <2> QED  BY <1>0, <1>8, <2>2, UntouchedKeeps, UnchangedGrows DEF ReconcileBegin, claims
  <1> QED  BY <1>1, <1>2, <1>3, <1>4, <1>5, <1>6, <1>7, <1>8

\* A restart has no workers, and opens again only what it forgot was closed.
LEMMA CrashKeeps ==
  ASSUME IInv, Crash
  PROVE  IInv'
  <1>0. TypeOK  BY DEF IInv
  <1>1. worker' = [w \in Workers |-> Idle]  BY DEF Crash
  <1>2. crashes' \in 0 .. MaxCrashes
    BY <1>0, BoundAssumption DEF Crash, TypeOK
  <1>a. /\ \A k \in Keys : astray'[k] = astray[k] \cup IF Unstored(k) THEN {"crashed"} ELSE {}
        /\ astray' \in [Keys -> SUBSET Reasons]
    BY <1>0 DEF Crash, TypeOK, Reasons
  <1>3. TypeOK'
    <2>1. worker' \in [Workers -> Worker]  BY <1>1, IdleType
    <2>2. session' \in BOOLEAN  BY <1>0 DEF Crash, TypeOK
    <2> QED  BY <1>0, <1>2, <1>a, <2>1, <2>2 DEF Crash, TypeOK, exchange
  <1>i. \A w \in Workers : worker'[w].pc = "idle"  BY <1>1, IdleType
  <1>4. Claimed' /\ OneWorkerPerKey'
    BY <1>i DEF Claimed, OneWorkerPerKey, Busy, AtPc, Key
  <1>5. EntryPending' /\ ExitOpen'
    BY <1>i DEF EntryPending, ExitOpen, Entering, Exiting
  <1>6. EntryLimit'
    <2>1. Counted' \subseteq Counted
      <3> SUFFICES ASSUME NEW k \in Counted'  PROVE k \in Counted
        OBVIOUS
      <3>1. k \in Keys /\ saved[k].open /\ astray'[k] \cap {"robbed", "crashed"} = {}
        BY DEF Counted, OpenKeys, Crash
      <3>2. ~Unstored(k) /\ astray[k] \cap {"robbed", "crashed"} = {}
        BY <1>a, <3>1
      <3>3. pos[k].open  BY <3>1, <3>2 DEF Unstored
      <3> QED  BY <3>1, <3>2, <3>3 DEF Counted, OpenKeys
    <2> QED  BY <2>1, CountedShrinks
  <1> QED  BY <1>3, <1>4, <1>5, <1>6 DEF IInv

-------------------------------------------------------------------------------
(* Theorems *)

LEMMA InitInv == Init => IInv
  <1> SUFFICES ASSUME Init  PROVE IInv
    OBVIOUS
  <1>1. TypeOK
    <2>2. pos \in [Keys -> Position] /\ saved \in [Keys -> Position]
      BY NoPositionType DEF Init
    <2>3. worker \in [Workers -> Worker]  BY IdleType DEF Init
    <2>4. gen \in [Keys -> Entries]  BY BoundAssumption DEF Init, Entries
    <2>5. prot \in [Keys -> [Entries -> [Sides -> {"none", "NEW", "FILLED", "CANCELED"}]]]
      BY DEF Init
    <2>6. astray \in [Keys -> SUBSET Reasons]  BY DEF Init
    <2> QED  BY <2>2, <2>3, <2>4, <2>5, <2>6, BoundAssumption DEF Init, TypeOK
  <1>i. \A w \in Workers : worker[w].pc = "idle"  BY IdleType DEF Init
  <1>2. Claimed /\ OneWorkerPerKey /\ EntryPending /\ ExitOpen
    BY <1>i DEF Claimed, OneWorkerPerKey, EntryPending, ExitOpen, Entering, Exiting, Busy, AtPc
  <1>3. EntryLimit
    <2>1. Counted = {}  BY DEF Init, Counted, OpenKeys, NoPosition
    <2>2. Cardinality(Counted) = 0  BY <2>1, FS_EmptySet
    <2> QED  BY <2>2, BoundAssumption DEF EntryLimit, Counted
  <1> QED  BY <1>1, <1>2, <1>3 DEF IInv

\* Every step keeps the invariant, whatever the number of keys and workers.
THEOREM Inductive == IInv /\ [Next]_vars => IInv'
  <1> SUFFICES ASSUME IInv, [Next]_vars  PROVE IInv'
    OBVIOUS
  <1>1. ASSUME NEW w \in Workers, Run(w)  PROVE IInv'
    <2>1. CASE Enter(w)  BY <2>1, EnterMoves, MovingKeeps
    <2>2. CASE Exit(w) \/ SavePosition(w)  BY <2>2, ExitMoves, MovingKeeps
    <2>3. CASE Finish(w)  BY <2>3, FinishKeeps
    <2> QED  BY <1>1, <2>1, <2>2, <2>3 DEF Run
  <1>2. ASSUME NEW w \in Workers, NEW k \in Keys, Claim(w, k)  PROVE IInv'
    BY <1>2, ClaimKeeps
  <1>3. CASE \/ \E k \in Keys : Flip(k) \/ SignalDropped(k) \/ ReconcileLook(k)
             \/ \E k \in Keys, g \in Entries, s \in Sides : Trigger(k, g, s)
             \/ ReconcileBegin \/ SetAutomation \/ Logout \/ Login
    BY <1>3, EnvironmentKeeps
  <1>4. ASSUME NEW k \in Keys, ReconcileExit(k)  PROVE IInv'
    BY <1>4, ClaimKeeps, BoundAssumption
  <1>5. ASSUME NEW k \in Keys, ReconcileSkip(k)  PROVE IInv'
    BY <1>5, SkipKeeps
  <1>6. CASE Crash  BY <1>6, CrashKeeps
  <1>7. CASE UNCHANGED vars
    <2>1. TypeOK'  BY <1>7 DEF IInv, TypeOK, vars
    <2> QED  BY <1>7, <2>1, UntouchedKeeps, UnchangedGrows DEF vars, IInv, TypeOK
  <1> QED  BY <1>1, <1>2, <1>3, <1>4, <1>5, <1>6, <1>7 DEF Next, Quiet, Reconcile

\* Types: every variable keeps its shape on every path through entry and exit.
THEOREM Types == Spec => []TypeOK
  <1>1. IInv => TypeOK  BY DEF IInv
  <1> QED  BY InitInv, Inductive, <1>1, PTL DEF Spec

\* Mutual exclusion: two tasks of the account never work on one key, whatever
\* mix of signals, ticks, square-offs, reconciliation and restarts started them,
\* until the reconciliation loop discards a claim another task holds.
THEOREM OneWorker == Spec => []OneWorkerPerKey
  <1>1. IInv => OneWorkerPerKey  BY DEF IInv
  <1> QED  BY InitInv, Inductive, <1>1, PTL DEF Spec

\* The entry limit: concurrent BUY signals never exceed the configured number of
\* open positions, but for keys whose close a restart forgot or whose claim was
\* discarded.
THEOREM Limit == Spec => []EntryLimit
  <1>1. IInv => EntryLimit  BY DEF IInv
  <1> QED  BY InitInv, Inductive, <1>1, PTL DEF Spec

-------------------------------------------------------------------------------
(* Protectives and books: the invariant *)

\* The protective orders of a key that can still sell, as LiveSells,
Live(m) == {e \in Entries \X Sides : m[e[1]][e[2]] = "NEW"}

\* those of the key's last entry,
Own(s, n) == {<<n, s>>}

\* and that a protective of the position sold its lot.
Sold(p, m) == \E s \in Sides : p.open /\ HasId(p, s) /\ m[p.entry][s] = "FILLED"

\* What rests is known to the open position.
Tracked(p, m) ==
    \A e \in Live(m) : p.open /\ p.entry = e[1] /\ HasId(p, e[2])

\* What an exit found filled is a protective of the position, and it is.
FoundTrue(r, p, m) ==
    r.found # "none" => HasId(p, r.found) /\ m[p.entry][r.found] = "FILLED"

\* Where a task is in its entry or exit decides which orders may rest: none
\* before the stop is placed, those of this entry until the position is open,
\* those of the position until their cancellation, none while it sells and books.
\* The position an exit read is still the one there is.
Protected(r, p, m, n) ==
    /\ r.pc \in {"buy", "stop", "unwind"} => Live(m) = {} /\ ~r.take
    /\ r.pc = "take" => Live(m) \subseteq Own("SL", n) /\ ~r.take
    /\ r.pc = "open" => Live(m) \subseteq Own("SL", n) \cup (IF r.take THEN Own("TP", n) ELSE {})
    /\ r.pc \in {"start", "query", "cancel"} => Tracked(p, m)
    /\ r.pc = "cancel" /\ r.side = "TP" => <<p.entry, "SL">> \notin Live(m)
    /\ r.pc \in {"sell", "book"} => Live(m) = {}
    /\ r.pc \in Exiting \cup {"start"} => FoundTrue(r, p, m)
    /\ r.pc \in Exiting => r.seen = p
    /\ r.pc \in {"saveEntry", "saveExit", "finish"} => Tracked(p, m)

\* The books of a key no entry or exit has changed: a position holds its
\* quantity until one of its protectives sells it.
Account(p, m, h) ==
    /\ h = IF p.open /\ ~Sold(p, m) THEN p.qty ELSE 0
    /\ p.open => p.qty > 0
    /\ p.open /\ (p.stop \/ p.take) => p.qty = Lot

\* The lot of an entry is held until one of its protectives sells it.
Bought(m, n, h, take) ==
    /\ m[n]["SL"] \in {"NEW", "FILLED"}
    /\ take => m[n]["TP"] \in {"NEW", "FILLED"} /\ (m[n]["SL"] = "NEW" \/ m[n]["TP"] = "NEW")
    /\ h = IF m[n]["SL"] = "FILLED" \/ (take /\ m[n]["TP"] = "FILLED") THEN 0 ELSE Lot

\* The books of a key while a task works on it.
Kept(r, p, m, n, h) ==
    /\ r.pc \in Entering => ~p.open
    /\ r.pc = "buy" => h = 0
    /\ r.pc \in {"stop", "unwind"} => h = Lot
    /\ r.pc \in {"take", "open"} => Bought(m, n, h, r.take)
    /\ r.pc \in {"start", "query", "cancel", "sell", "saveEntry", "saveExit", "finish"} =>
          Account(p, m, h)
    /\ r.pc = "sell" => r.found = "none"
    /\ r.pc = "book" =>
         IF r.found = "none" THEN r.executed \in 1 .. p.qty /\ h = p.qty - r.executed
         ELSE Account(p, m, h)

\* What a key may have gone through and still have its protectives known, and
\* its books true.
Sure(a) == a \cap {"robbed", "crashed", "lost", "uncancelled"} = {}
Clean(a) == a = {}

Working(w, k) == Busy(w) /\ Key(w) = k

Rested(a, p, m, h) == (Sure(a) => Tracked(p, m)) /\ (Clean(a) => Account(p, m, h))
Staged(a, r, p, m, n, h) == (Sure(a) => Protected(r, p, m, n)) /\ (Clean(a) => Kept(r, p, m, n, h))

Idly == \A k \in Keys :
    (\A w \in Workers : ~Working(w, k)) => Rested(astray[k], pos[k], prot[k], held[k])
Stages == \A w \in Workers : Busy(w) =>
    Staged(astray[Key(w)], worker[w], pos[Key(w)], prot[Key(w)], gen[Key(w)], held[Key(w)])

Sound == Idly /\ Stages

-------------------------------------------------------------------------------
(* A step of a task concerns its own key *)

Resting == {"none", "NEW", "FILLED", "CANCELED"}

Elsewhere(w) ==
    \A k \in Keys \ {Key(w)} : prot'[k] = prot[k] /\ gen'[k] = gen[k] /\ held'[k] = held[k]

\* A task goes on to the next await.
Goes(w, label) ==
    /\ worker'[w].pc = label /\ worker'[w].side = worker[w].side
    /\ worker'[w].found = worker[w].found /\ worker'[w].executed = worker[w].executed
    /\ worker'[w].take = worker[w].take /\ worker'[w].seen = worker[w].seen

LEMMA WorkerFields ==
  ASSUME IInv, NEW w \in Workers, Busy(w)
  PROVE  /\ Key(w) \in Keys /\ worker[w] \in Worker
         /\ pos[Key(w)] \in Position /\ prot[Key(w)] \in [Entries -> [Sides -> Resting]]
         /\ gen[Key(w)] \in Entries /\ held[Key(w)] \in Int
         /\ worker[w].seen \in Position
         /\ astray[Key(w)] \in SUBSET Reasons
  <1>1. Key(w) \in Keys  BY DEF IInv, TypeOK, Claimed
  <1>2. worker[w] \in Worker  BY DEF IInv, TypeOK
  <1>3. worker[w].seen \in Position  BY <1>2 DEF Worker
  <1> QED  BY <1>1, <1>2, <1>3 DEF IInv, TypeOK, Resting

LEMMA StepGoes ==
  ASSUME IInv, NEW w \in Workers, NEW label, Step(w, label)
  PROVE  Goes(w, label)
  <1>1. worker \in [Workers -> Worker]  BY DEF IInv, TypeOK
  <1>2. worker'[w] = [worker[w] EXCEPT !.pc = label]  BY <1>1 DEF Step
  <1>3. worker[w] \in Worker  BY <1>1
  <1> QED  BY <1>2, <1>3 DEF Goes, Worker

LEMMA StraysHere ==
  ASSUME IInv, NEW k \in Keys, NEW why, Strays(k, why)
  PROVE  astray'[k] = astray[k] \cup why
  BY DEF Strays, IInv, TypeOK

LEMMA EnterElsewhere ==
  ASSUME IInv, NEW w \in Workers, Enter(w)
  PROVE  Elsewhere(w)
  <1>0. prot \in [Keys -> [Entries -> [Sides -> Resting]]] /\ gen \in [Keys -> Entries]
        /\ held \in [Keys -> Int]
    BY DEF IInv, TypeOK, Resting
  <1>1. CASE Buy(w)
    BY <1>0, <1>1 DEF Buy, Elsewhere
  <1>2. CASE BuyRefused(w) \/ TakeRefused(w) \/ StopRefused(w) \/ UnwindRefused(w)
             \/ OpenPosition(w)
    BY <1>2 DEF BuyRefused, TakeRefused, StopRefused, UnwindRefused, OpenPosition, Elsewhere,
                exchange
  <1>3. CASE PlaceStop(w)
    BY <1>0, <1>3 DEF PlaceStop, Place, Elsewhere
  <1>4. CASE Unwind(w)
    BY <1>0, <1>4 DEF Unwind, Elsewhere
  <1>5. CASE PlaceTake(w)
    BY <1>0, <1>5 DEF PlaceTake, Place, Elsewhere
  <1> QED  BY <1>1, <1>2, <1>3, <1>4, <1>5 DEF Enter

LEMMA ExitElsewhere ==
  ASSUME IInv, NEW w \in Workers, Exit(w) \/ SavePosition(w)
  PROVE  Elsewhere(w)
  <1>0. prot \in [Keys -> [Entries -> [Sides -> Resting]]] /\ gen \in [Keys -> Entries]
        /\ held \in [Keys -> Int]
    BY DEF IInv, TypeOK, Resting
  <1>1. CASE \/ ExitStart(w) \/ QueryProtective(w) \/ SellRefused(w) \/ ExitBreaks(w) \/ Book(w)
             \/ SavePosition(w)
    BY <1>1 DEF ExitStart, QueryProtective, SellRefused, ExitBreaks, Book, SavePosition, Elsewhere,
                exchange
  <1>2. CASE CancelProtective(w)
    BY <1>0, <1>2 DEF CancelProtective, Elsewhere
  <1>3. CASE Sell(w)
    BY <1>0, <1>3 DEF Sell, Elsewhere
  <1> QED  BY <1>1, <1>2, <1>3 DEF Exit

\* Protective s of entry g becomes x.
Sets(next, m, g, s, x) == next = [m EXCEPT ![g][s] = x]

\* The orders that rest after one is placed, or has ended.
LEMMA LiveOne ==
  ASSUME NEW m \in [Entries -> [Sides -> Resting]], NEW g \in Entries, NEW s \in Sides,
         NEW x \in Resting, NEW next, Sets(next, m, g, s, x)
  PROVE  /\ next \in [Entries -> [Sides -> Resting]] /\ next[g][s] = x
         /\ \A f \in Entries, a \in Sides : f # g \/ a # s => next[f][a] = m[f][a]
         /\ x = "NEW" => Live(next) = Live(m) \cup {<<g, s>>}
         /\ x # "NEW" => Live(next) = Live(m) \ {<<g, s>>}
  <1>1. next \in [Entries -> [Sides -> Resting]] /\ next[g][s] = x
    BY DEF Sets
  <1>2. \A f \in Entries, a \in Sides : f # g \/ a # s => next[f][a] = m[f][a]
    BY DEF Sets
  <1>3. x = "NEW" => Live(next) = Live(m) \cup {<<g, s>>}
    BY <1>1, <1>2 DEF Live
  <1>4. x # "NEW" => Live(next) = Live(m) \ {<<g, s>>}
    BY <1>1, <1>2 DEF Live
  <1> QED  BY <1>1, <1>2, <1>3, <1>4

LEMMA LiveEnds ==
  ASSUME NEW m \in [Entries -> [Sides -> Resting]], NEW g \in Entries, NEW s \in Sides,
         NEW x \in Resting \ {"NEW"}, NEW next, Sets(next, m, g, s, x)
  PROVE  /\ Live(next) = Live(m) \ {<<g, s>>} /\ next[g][s] = x
         /\ \A f \in Entries, a \in Sides : f # g \/ a # s => next[f][a] = m[f][a]
  <1>1. x \in Resting /\ x # "NEW"
    OBVIOUS
  <1>2. /\ next[g][s] = x
        /\ \A f \in Entries, a \in Sides : f # g \/ a # s => next[f][a] = m[f][a]
        /\ x # "NEW" => Live(next) = Live(m) \ {<<g, s>>}
    BY <1>1, LiveOne
  <1> QED  BY <1>1, <1>2

-------------------------------------------------------------------------------
(* Protectives: the steps of an entry *)

LEMMA EntryProtected ==
  ASSUME IInv, NEW w \in Workers, Enter(w), Sure(astray'[Key(w)]),
         Protected(worker[w], pos[Key(w)], prot[Key(w)], gen[Key(w)])
  PROVE  Protected(worker'[w], pos'[Key(w)], prot'[Key(w)], gen'[Key(w)])
  <1> DEFINE k == Key(w)
             r == worker[w]
             p == pos[k]
             m == prot[k]
             n == gen[k]
             c == worker'[w]
  <1>0. Busy(w)
    BY DEF Enter, Buy, BuyRefused, PlaceStop, StopRefused, Unwind, UnwindRefused, PlaceTake,
           TakeRefused, OpenPosition, Busy, AtPc
  <1>1. /\ k \in Keys /\ r \in Worker /\ p \in Position /\ n \in Entries
        /\ m \in [Entries -> [Sides -> Resting]]
    BY <1>0, WorkerFields
  <1>2. /\ pos \in [Keys -> Position] /\ prot \in [Keys -> [Entries -> [Sides -> Resting]]]
        /\ gen \in [Keys -> Entries] /\ worker \in [Workers -> Worker]
    BY DEF IInv, TypeOK, Resting
  <1>3. Protected(r, p, m, n)
    OBVIOUS
  <1>s. ASSUME NEW why, Strays(Key(w), why)  PROVE "lost" \notin why
    BY <1>1, <1>s, StraysHere DEF Sure
  <1>4. ASSUME NEW label \in {"stop", "finish", "unwind"}, Goes(w, label),
               pos'[k] = p, prot'[k] = m, r.pc \in {"buy", "stop", "unwind"}
        PROVE  Protected(c, pos'[k], prot'[k], gen'[k])
    <2>1. Live(m) = {} /\ ~r.take
      BY <1>3, <1>4 DEF Protected
    <2>2. c.pc = label /\ c.take = r.take
      BY <1>4 DEF Goes
    <2> HIDE DEF k, r, p, m, n, c
    <2>3. Tracked(p, m)
      BY <2>1 DEF Tracked
    <2> QED  BY <1>4, <2>1, <2>2, <2>3 DEF Protected, Exiting
  <1>5. CASE Buy(w)
    BY <1>4, <1>5, StepGoes DEF Buy, AtPc
  <1>6. CASE BuyRefused(w)
    BY <1>4, <1>6, StepGoes DEF BuyRefused, AtPc, exchange
  <1>7. CASE StopRefused(w)
    BY <1>4, <1>7, StepGoes DEF StopRefused, AtPc, exchange
  <1>8. CASE Unwind(w) \/ UnwindRefused(w)
    BY <1>4, <1>8, StepGoes DEF Unwind, UnwindRefused, AtPc, exchange
  <1>9. CASE PlaceStop(w)
    <2>1. r.pc = "stop" /\ Place(k, "SL") /\ gen' = gen /\ Goes(w, "take")
      BY <1>s, <1>9, StepGoes DEF PlaceStop, AtPc
    <2>2. prot'[k] = [m EXCEPT ![n]["SL"] = "NEW"]
      BY <1>1, <1>2, <2>1 DEF Place
    <2>3. Live(prot'[k]) = Live(m) \cup {<<n, "SL">>}
      <3>1. "SL" \in Sides /\ "NEW" \in Resting
        BY DEF Sides, Resting
      <3> DEFINE next == prot'[k]
      <3>2. Sets(next, m, n, "SL", "NEW")
        BY <2>2 DEF Sets
      <3> HIDE DEF k, r, p, m, n, next
      <3>3. Live(next) = Live(m) \cup {<<n, "SL">>}
        BY <1>1, <3>1, <3>2, LiveOne
      <3> QED  BY <3>3 DEF next
    <2>4. Live(m) = {} /\ ~r.take
      BY <1>3, <2>1 DEF Protected
    <2>5. c.pc = "take" /\ ~c.take /\ gen'[k] = n
      BY <2>1, <2>4 DEF Goes
    <2> HIDE DEF k, r, p, m, n, c
    <2>6. Protected(c, pos'[k], prot'[k], gen'[k])
      BY <2>3, <2>4, <2>5 DEF Protected, Own, Exiting
    <2> QED  BY <2>6 DEF k, c
  <1>10. CASE PlaceTake(w)
    <2>1. /\ r.pc = "take" /\ Place(k, "TP") /\ gen' = gen
          /\ worker' = [worker EXCEPT ![w].pc = "open", ![w].take = TRUE]
      BY <1>s, <1>10 DEF PlaceTake, AtPc
    <2>2. prot'[k] = [m EXCEPT ![n]["TP"] = "NEW"]
      BY <1>1, <1>2, <2>1 DEF Place
    <2>3. Live(prot'[k]) = Live(m) \cup {<<n, "TP">>}
      <3>1. "TP" \in Sides /\ "NEW" \in Resting
        BY DEF Sides, Resting
      <3> DEFINE next == prot'[k]
      <3>2. Sets(next, m, n, "TP", "NEW")
        BY <2>2 DEF Sets
      <3> HIDE DEF k, r, p, m, n, next
      <3>3. Live(next) = Live(m) \cup {<<n, "TP">>}
        BY <1>1, <3>1, <3>2, LiveOne
      <3> QED  BY <3>3 DEF next
    <2>4. Live(m) \subseteq Own("SL", n)
      BY <1>3, <2>1 DEF Protected
    <2>5. c.pc = "open" /\ c.take /\ gen'[k] = n
      BY <1>2, <2>1 DEF Worker
    <2> HIDE DEF k, r, p, m, n, c
    <2>6. Protected(c, pos'[k], prot'[k], gen'[k])
      BY <2>3, <2>4, <2>5 DEF Protected, Own, Exiting
    <2> QED  BY <2>6 DEF k, c
  <1>11. CASE TakeRefused(w)
    <2>1. r.pc = "take" /\ prot' = prot /\ gen' = gen /\ Goes(w, "open")
      BY <1>s, <1>11, StepGoes DEF TakeRefused, AtPc, exchange
    <2>2. Live(m) \subseteq Own("SL", n) /\ ~r.take
      BY <1>3, <2>1 DEF Protected
    <2>3. c.pc = "open" /\ prot'[k] = m /\ gen'[k] = n
      BY <2>1 DEF Goes
    <2> HIDE DEF k, r, p, m, n, c
    <2>4. Protected(c, pos'[k], m, n)
      BY <2>2, <2>3 DEF Protected, Exiting
    <2> QED  BY <2>3, <2>4 DEF k, c
  <1>12. CASE OpenPosition(w)
    <2>1. /\ r.pc = "open" /\ prot' = prot /\ Goes(w, "saveEntry")
          /\ pos'[k] = [open |-> TRUE, qty |-> Lot, stop |-> TRUE, take |-> r.take, entry |-> n]
      BY <1>1, <1>2, <1>12, StepGoes DEF OpenPosition, AtPc, exchange
    <2>2. Live(m) \subseteq Own("SL", n) \cup (IF r.take THEN Own("TP", n) ELSE {})
      BY <1>3, <2>1 DEF Protected
    <2>3. c.pc = "saveEntry" /\ prot'[k] = m
      BY <2>1 DEF Goes
    <2> DEFINE q == pos'[k]
    <2>4. q.open /\ q.stop /\ q.take = r.take /\ q.entry = n
      BY <2>1
    <2> HIDE DEF k, r, p, m, n, q, c
    <2>5. Tracked(q, m)
      BY <2>2, <2>4 DEF Tracked, Own, HasId
    <2>6. Protected(c, q, m, gen'[k])
      BY <2>3, <2>5 DEF Protected, Exiting
    <2> QED  BY <2>3, <2>6 DEF k, q, c
  <1> QED  BY <1>5, <1>6, <1>7, <1>8, <1>9, <1>10, <1>11, <1>12 DEF Enter

-------------------------------------------------------------------------------
(* Protectives: the steps of an exit *)

\* Both queries: what was found filled is, and the cancellations begin with the stop.
LEMMA QueryFields ==
  ASSUME IInv, NEW w \in Workers, QueryProtective(w)
  PROVE  /\ worker[w].pc = "query" /\ UNCHANGED <<pos, prot, gen, held, astray>>
         /\ worker'[w].pc \in {"query", "cancel"} /\ worker'[w].seen = worker[w].seen
         /\ worker'[w].pc = "cancel" => worker'[w].side = "SL"
         /\ \/ worker'[w].found = worker[w].found
            \/ /\ worker[w].found = "none" /\ worker'[w].found \in Sides
               /\ HasId(worker[w].seen, worker'[w].found)
               /\ prot[Key(w)][worker[w].seen.entry][worker'[w].found] = "FILLED"
  <1> DEFINE k == Key(w)
             s == worker[w].side
             isFilled == /\ HasId(Seen(w), s) /\ OrderState(k, Seen(w), s) = "FILLED"
                         /\ worker[w].found = "none"
  <1>1. worker \in [Workers -> Worker] /\ worker[w] \in Worker /\ s \in Sides
    BY DEF IInv, TypeOK, Worker
  <1>2. PICK f : /\ worker' = [worker EXCEPT ![w].found = f,
                                 ![w].side = IF s = "SL" THEN "TP" ELSE "SL",
                                 ![w].pc = IF s = "SL" THEN "query" ELSE "cancel"]
                 /\ f = worker[w].found \/ (isFilled /\ f = s)
    BY DEF QueryProtective
  <1>3. /\ worker'[w].found = f /\ worker'[w].side = (IF s = "SL" THEN "TP" ELSE "SL")
        /\ worker'[w].pc = (IF s = "SL" THEN "query" ELSE "cancel")
        /\ worker'[w].seen = worker[w].seen
    BY <1>1, <1>2 DEF Worker
  <1>4. worker[w].pc = "query" /\ UNCHANGED <<pos, prot, gen, held, astray>>
    BY DEF QueryProtective, AtPc, exchange
  <1> QED  BY <1>1, <1>2, <1>3, <1>4 DEF OrderState, Seen, Sides

\* A cancellation leaves its protective ended or as it was.
LEMMA CancelFields ==
  ASSUME IInv, NEW w \in Workers, CancelProtective(w)
  PROVE  LET r == worker[w]
             m == prot[Key(w)]
         IN  /\ r.pc = "cancel" /\ UNCHANGED <<pos, gen, held>>
             /\ worker'[w].found = r.found /\ worker'[w].seen = r.seen
             /\ worker'[w].side = IF r.side = "SL" THEN "TP" ELSE "SL"
             /\ worker'[w].pc = IF r.side = "SL" THEN "cancel"
                                ELSE IF r.found = "none" THEN "sell" ELSE "book"
             /\ \/ /\ HasId(r.seen, r.side) /\ r.side # r.found /\ m[r.seen.entry][r.side] = "NEW"
                   /\ Sets(prot'[Key(w)], m, r.seen.entry, r.side, "CANCELED")
                \/ /\ prot'[Key(w)] = m
                   /\ \/ "uncancelled" \in astray'[Key(w)]
                      \/ ~HasId(r.seen, r.side) \/ r.side = r.found
                      \/ m[r.seen.entry][r.side] # "NEW"
  <1> DEFINE k == Key(w)
             s == worker[w].side
             q == worker[w].seen
             side == IF s = "SL" THEN "TP" ELSE "SL"
             label == IF s = "SL" THEN "cancel"
                      ELSE IF worker[w].found = "none" THEN "sell" ELSE "book"
  <1>1. /\ worker \in [Workers -> Worker] /\ worker[w] \in Worker /\ s \in Sides
        /\ prot \in [Keys -> [Entries -> [Sides -> Resting]]]
    BY DEF IInv, TypeOK, Worker, Resting
  <1>2. k \in Keys /\ prot[k] \in [Entries -> [Sides -> Resting]]
    <2>1. Busy(w)  BY DEF CancelProtective, Busy, AtPc
    <2> QED  BY <2>1, WorkerFields
  <1>3. worker' = [worker EXCEPT ![w].side = side, ![w].pc = label]
    BY DEF CancelProtective
  <1>4. /\ worker'[w].found = worker[w].found /\ worker'[w].side = side /\ worker'[w].pc = label
        /\ worker'[w].seen = q
    <2> HIDE DEF side, label
    <2> QED  BY <1>1, <1>3 DEF Worker
  <1>5. worker[w].pc = "cancel" /\ UNCHANGED <<pos, gen, held>>
    BY DEF CancelProtective, AtPc
  <1>6. \/ /\ Wanted(w, s) /\ OrderState(k, q, s) = "NEW"
           /\ prot' = [prot EXCEPT ![k][q.entry][s] = "CANCELED"]
        \/ prot' = prot /\ Strays(k, {"uncancelled"})
        \/ prot' = prot /\ ~(Wanted(w, s) /\ OrderState(k, q, s) = "NEW")
    BY DEF CancelProtective, Seen
  <1>7. ASSUME prot' = [prot EXCEPT ![k][q.entry][s] = "CANCELED"]
        PROVE  Sets(prot'[k], prot[k], q.entry, s, "CANCELED")
    BY <1>1, <1>2, <1>7 DEF Sets
  <1>8. Wanted(w, s) <=> HasId(q, s) /\ s # worker[w].found
    BY DEF Wanted, Seen
  <1>9. OrderState(k, q, s) = prot[k][q.entry][s]
    BY DEF OrderState
  <1>10. Strays(k, {"uncancelled"}) => "uncancelled" \in astray'[k]
    BY <1>2, StraysHere
  <1> QED  BY <1>4, <1>5, <1>6, <1>7, <1>8, <1>9, <1>10

LEMMA ExitProtected ==
  ASSUME IInv, NEW w \in Workers, Exit(w) \/ SavePosition(w), Sure(astray'[Key(w)]),
         Protected(worker[w], pos[Key(w)], prot[Key(w)], gen[Key(w)])
  PROVE  Protected(worker'[w], pos'[Key(w)], prot'[Key(w)], gen'[Key(w)])
  <1> DEFINE k == Key(w)
             r == worker[w]
             p == pos[k]
             m == prot[k]
             n == gen[k]
             c == worker'[w]
  <1>0. Busy(w)
    BY DEF Exit, ExitStart, QueryProtective, CancelProtective, Sell, SellRefused, ExitBreaks, Book,
           SavePosition, Busy, AtPc
  <1>1. /\ k \in Keys /\ r \in Worker /\ p \in Position /\ n \in Entries
        /\ m \in [Entries -> [Sides -> Resting]]
    BY <1>0, WorkerFields
  <1>2. pos \in [Keys -> Position] /\ worker \in [Workers -> Worker]
    BY DEF IInv, TypeOK
  <1>3. Protected(r, p, m, n)
    OBVIOUS
  <1>4. CASE ExitStart(w)
    <2>1. r.pc = "start" /\ Tracked(p, m) /\ FoundTrue(r, p, m) /\ UNCHANGED <<pos, prot, gen>>
      BY <1>3, <1>4 DEF ExitStart, AtPc, Protected, exchange
    <2>2. CASE Step(w, "finish")
      <3>1. c.pc = "finish" /\ pos'[k] = p /\ prot'[k] = m
        BY <2>1, <2>2, StepGoes DEF Goes
      <3> HIDE DEF k, r, p, m, n, c
      <3>2. Protected(c, p, m, gen'[k])
        BY <2>1, <3>1 DEF Protected, Exiting
      <3> QED  BY <3>1, <3>2 DEF k, c
    <2>3. CASE worker' = [worker EXCEPT ![w].pc = "query", ![w].seen = pos[Key(w)]]
      <3>1. /\ c.pc = "query" /\ c.found = r.found /\ c.seen = p /\ pos'[k] = p /\ prot'[k] = m
        BY <1>1, <1>2, <2>1, <2>3 DEF Worker
      <3>2. FoundTrue(c, p, m)
        BY <2>1, <3>1 DEF FoundTrue
      <3> HIDE DEF k, r, p, m, n, c
      <3>3. Protected(c, p, m, gen'[k])
        BY <2>1, <3>1, <3>2 DEF Protected, Exiting
      <3> QED  BY <3>1, <3>3 DEF k, c
    <2> QED  BY <1>4, <2>2, <2>3 DEF ExitStart
  <1>5. CASE QueryProtective(w)
    <2>1. /\ r.pc = "query" /\ pos'[k] = p /\ prot'[k] = m /\ c.seen = r.seen
          /\ c.pc \in {"query", "cancel"} /\ (c.pc = "cancel" => c.side = "SL")
          /\ \/ c.found = r.found
             \/ /\ c.found # "none" /\ HasId(r.seen, c.found)
                /\ m[r.seen.entry][c.found] = "FILLED"
      BY <1>5, QueryFields DEF Sides
    <2>2. Tracked(p, m) /\ FoundTrue(r, p, m) /\ r.seen = p
      BY <1>3, <2>1 DEF Protected, Exiting
    <2> HIDE DEF k, r, p, m, n, c
    <2>3. FoundTrue(c, p, m)
      BY <2>1, <2>2 DEF FoundTrue
    <2>4. Protected(c, p, m, gen'[k])
      BY <2>1, <2>2, <2>3 DEF Protected, Exiting
    <2> QED  BY <2>1, <2>4 DEF k, c
  <1>6. CASE CancelProtective(w)
    <2> DEFINE s == r.side
               next == prot'[k]
    <2>1. r.pc = "cancel" /\ Tracked(p, m) /\ FoundTrue(r, p, m) /\ r.seen = p
      BY <1>3, <1>6 DEF CancelProtective, AtPc, Protected, Exiting
    <2>2. /\ pos'[k] = p /\ c.found = r.found /\ c.seen = p
          /\ c.side = IF s = "SL" THEN "TP" ELSE "SL"
          /\ c.pc = IF s = "SL" THEN "cancel" ELSE IF r.found = "none" THEN "sell" ELSE "book"
          /\ \/ s # r.found /\ Sets(next, m, p.entry, s, "CANCELED")
             \/ /\ next = m
                /\ ~HasId(p, s) \/ s = r.found \/ m[p.entry][s] # "NEW"
      BY <1>6, <2>1, CancelFields DEF Sure
    <2>3. s \in Sides /\ p.entry \in Entries /\ "CANCELED" \in Resting /\ Sides = {"SL", "TP"}
          /\ r.found \in Sides \cup {"none"}
      BY <1>1 DEF Worker, Position, Resting, Sides
    <2>4. r.side = "TP" => <<p.entry, "SL">> \notin Live(m)
      BY <1>3, <2>1 DEF Protected
    <2> HIDE DEF k, r, p, m, n, c, s, next
    <2>5. Live(next) \subseteq Live(m) /\ <<p.entry, s>> \notin Live(next)
      <3>1. CASE Sets(next, m, p.entry, s, "CANCELED")
        BY <1>1, <2>3, <3>1, LiveOne
      <3>2. CASE next = m /\ (~HasId(p, s) \/ s = r.found \/ m[p.entry][s] # "NEW")
        <4>1. <<p.entry, s>> \in Live(m) => HasId(p, s) /\ m[p.entry][s] = "NEW"
          BY <2>1 DEF Tracked, Live
        <4>2. s = r.found => m[p.entry][s] = "FILLED"
          BY <2>1, <2>3 DEF FoundTrue, Sides
        <4> QED  BY <3>2, <4>1, <4>2
      <3> QED  BY <2>2, <3>1, <3>2
    <2>6. Tracked(p, next)
      BY <2>1, <2>5 DEF Tracked
    <2>7. FoundTrue(c, p, next)
      <3>1. CASE s # r.found /\ Sets(next, m, p.entry, s, "CANCELED")
        <4>1. \A a \in Sides : a # s => next[p.entry][a] = m[p.entry][a]
          BY <1>1, <2>3, <3>1, LiveOne
        <4> QED  BY <2>1, <2>2, <2>3, <3>1, <4>1 DEF FoundTrue
      <3>2. CASE next = m
        BY <2>1, <2>2, <3>2 DEF FoundTrue
      <3> QED  BY <2>2, <3>1, <3>2
    <2>8. CASE s = "SL"
      <3>1. c.pc = "cancel" /\ c.side = "TP"
        BY <2>2, <2>8
      <3>2. Protected(c, p, next, gen'[k])
        BY <2>2, <2>5, <2>6, <2>7, <2>8, <3>1 DEF Protected, Exiting
      <3> QED  BY <2>2, <3>2 DEF k, c, next
    <2>9. CASE s = "TP"
      <3>1. c.pc \in {"sell", "book"}
        BY <2>2, <2>9
      <3>2. Live(next) = {}
        <4>1. \A e \in Live(next) : e[1] = p.entry /\ e[2] \in Sides /\ e = <<e[1], e[2]>>
          BY <2>6 DEF Tracked, Live
        <4>2. <<p.entry, "SL">> \notin Live(next)
          BY <2>4, <2>5, <2>9 DEF s
        <4> QED  BY <2>3, <2>5, <2>9, <4>1, <4>2
      <3>3. Protected(c, p, next, gen'[k])
        BY <2>2, <2>7, <3>1, <3>2 DEF Protected, Exiting
      <3> QED  BY <2>2, <3>3 DEF k, c, next
    <2> QED  BY <2>3, <2>8, <2>9
  <1>7. CASE Sell(w)
    <2>1. r.pc = "sell" /\ prot' = prot /\ pos' = pos
      BY <1>7 DEF Sell, AtPc
    <2>2. /\ c.pc \in {"book", "finish"} /\ c.found = r.found /\ c.seen = r.seen
      <3>1. \/ Goes(w, "finish")
            \/ \E x : worker' = [worker EXCEPT ![w].pc = "book", ![w].executed = x]
        BY <1>7, StepGoes DEF Sell
      <3> QED  BY <1>2, <3>1 DEF Goes, Worker
    <2>3. Live(m) = {} /\ FoundTrue(r, p, m) /\ r.seen = p /\ pos'[k] = p /\ prot'[k] = m
      BY <1>3, <2>1 DEF Protected, Exiting
    <2> HIDE DEF k, r, p, m, n, c
    <2>4. Tracked(p, m) /\ FoundTrue(c, p, m)
      BY <2>2, <2>3 DEF Tracked, FoundTrue
    <2>5. Protected(c, p, m, gen'[k])
      BY <2>2, <2>3, <2>4 DEF Protected, Exiting
    <2> QED  BY <2>3, <2>5 DEF k, c
  <1>8. CASE SellRefused(w) \/ Book(w)
    <2>1. r.pc \in {"sell", "book"} /\ prot' = prot /\ c.pc \in {"finish", "saveExit"}
      BY <1>8, StepGoes DEF SellRefused, Book, AtPc, Goes, exchange
    <2>2. Live(m) = {} /\ prot'[k] = m
      BY <1>3, <2>1 DEF Protected
    <2> HIDE DEF k, r, p, m, n, c
    <2>3. Tracked(pos'[k], m)
      BY <2>2 DEF Tracked
    <2>4. Protected(c, pos'[k], m, gen'[k])
      BY <2>1, <2>2, <2>3 DEF Protected, Exiting
    <2> QED  BY <2>2, <2>4 DEF k, c
  <1>9. CASE ExitBreaks(w)
    <2>1. /\ r.pc \in {"query", "cancel", "sell", "book"} /\ c.pc = "finish"
          /\ pos'[k] = p /\ prot'[k] = m
      BY <1>9, StepGoes DEF ExitBreaks, AtPc, Goes, exchange
    <2>2. Tracked(p, m)
      BY <1>3, <2>1 DEF Protected, Tracked
    <2> HIDE DEF k, r, p, m, n, c
    <2>3. Protected(c, p, m, gen'[k])
      BY <2>1, <2>2 DEF Protected, Exiting
    <2> QED  BY <2>1, <2>3 DEF k, c
  <1>10. CASE SavePosition(w)
    <2>1. /\ r.pc \in {"saveEntry", "saveExit"} /\ UNCHANGED <<pos, prot>> /\ c.pc = "finish"
      BY <1>10, StepGoes DEF SavePosition, AtPc, Goes, exchange
    <2>2. Tracked(p, m) /\ pos'[k] = p /\ prot'[k] = m
      BY <1>3, <2>1 DEF Protected
    <2> HIDE DEF k, r, p, m, n, c
    <2>3. Protected(c, p, m, gen'[k])
      BY <2>1, <2>2 DEF Protected, Exiting
    <2> QED  BY <2>2, <2>3 DEF k, c
  <1> QED  BY <1>4, <1>5, <1>6, <1>7, <1>8, <1>9, <1>10 DEF Exit

-------------------------------------------------------------------------------
(* Books: the steps of an entry *)

\* An entry keeps the books: what was bought is held until the emergency sell or
\* a protective sells it, or belongs to the position.
LEMMA EntryKept ==
  ASSUME IInv, NEW w \in Workers, Enter(w), Clean(astray[Key(w)]), Clean(astray'[Key(w)]),
         Protected(worker[w], pos[Key(w)], prot[Key(w)], gen[Key(w)]),
         Kept(worker[w], pos[Key(w)], prot[Key(w)], gen[Key(w)], held[Key(w)])
  PROVE  Kept(worker'[w], pos'[Key(w)], prot'[Key(w)], gen'[Key(w)], held'[Key(w)])
  <1> DEFINE k == Key(w)
             r == worker[w]
             p == pos[k]
             m == prot[k]
             n == gen[k]
             h == held[k]
             c == worker'[w]
  <1>0. Busy(w)
    BY DEF Enter, Buy, BuyRefused, PlaceStop, StopRefused, Unwind, UnwindRefused, PlaceTake,
           TakeRefused, OpenPosition, Busy, AtPc
  <1>1. /\ k \in Keys /\ r \in Worker /\ p \in Position /\ n \in Entries /\ h \in Int
        /\ m \in [Entries -> [Sides -> Resting]]
    BY <1>0, WorkerFields
  <1>2. /\ pos \in [Keys -> Position] /\ prot \in [Keys -> [Entries -> [Sides -> Resting]]]
        /\ gen \in [Keys -> Entries] /\ worker \in [Workers -> Worker] /\ held \in [Keys -> Int]
        /\ TypeOK /\ Lot \in Nat \ {0}
    BY BoundAssumption DEF IInv, TypeOK, Resting
  <1>3. Kept(r, p, m, n, h) /\ Protected(r, p, m, n)
    OBVIOUS
  <1>s. ASSUME NEW why, Strays(Key(w), why)  PROVE why = {}
    BY <1>1, <1>s, StraysHere DEF Clean
  <1>5. ASSUME Goes(w, "finish"), ~p.open, pos'[k] = p, prot'[k] = m, held'[k] = 0
        PROVE  Kept(c, pos'[k], prot'[k], gen'[k], held'[k])
    <2>1. c.pc = "finish"
      BY <1>5 DEF Goes
    <2>2. Account(p, m, 0)
      BY <1>5 DEF Account
    <2> HIDE DEF k, r, p, m, n, h, c
    <2> QED  BY <1>5, <2>1, <2>2 DEF Kept, Entering
  <1>6. CASE Buy(w)
    <2>1. /\ r.pc = "buy" /\ Goes(w, "stop") /\ pos' = pos /\ prot' = prot
          /\ held' = [held EXCEPT ![k] = @ + Lot]
      BY <1>s, <1>6, StepGoes DEF Buy, AtPc
    <2>2. ~p.open /\ h = 0
      BY <1>3, <2>1 DEF Kept, Entering
    <2>3. /\ c.pc = "stop" /\ pos'[k] = p /\ held'[k] = Lot
      BY <1>1, <1>2, <2>1, <2>2 DEF Goes
    <2> HIDE DEF k, r, p, m, n, h, c
    <2>4. Kept(c, p, prot'[k], gen'[k], Lot)
      BY <2>2, <2>3 DEF Kept
    <2> QED  BY <2>3, <2>4 DEF k, c
  <1>7. CASE BuyRefused(w)
    <2>1. /\ r.pc = "buy" /\ Goes(w, "finish") /\ pos' = pos /\ prot' = prot /\ held' = held
      BY <1>7, StepGoes DEF BuyRefused, AtPc, exchange
    <2>2. ~p.open /\ h = 0
      BY <1>3, <2>1 DEF Kept, Entering
    <2> QED  BY <1>5, <2>1, <2>2
  <1>8. CASE PlaceStop(w)
    <2>1. /\ r.pc = "stop" /\ Place(k, "SL") /\ pos' = pos /\ gen' = gen /\ held' = held
          /\ Goes(w, "take")
      BY <1>s, <1>8, StepGoes DEF PlaceStop, AtPc
    <2> DEFINE next == prot'[k]
    <2>2. Sets(next, m, n, "SL", "NEW")
      BY <1>1, <1>2, <2>1 DEF Place, Sets
    <2>3. ~p.open /\ ~r.take /\ h = Lot
      BY <1>3, <2>1 DEF Kept, Protected, Entering
    <2>4. c.pc = "take" /\ ~c.take /\ pos'[k] = p /\ gen'[k] = n /\ held'[k] = Lot
      BY <2>1, <2>3 DEF Goes
    <2>5. "SL" \in Sides /\ "NEW" \in Resting
      BY DEF Sides, Resting
    <2> HIDE DEF k, r, p, m, n, h, c, next
    <2>6. next[n]["SL"] = "NEW"
      BY <1>1, <2>2, <2>5, LiveOne
    <2>7. Bought(next, n, Lot, c.take)
      BY <2>4, <2>6 DEF Bought
    <2>8. Kept(c, p, next, n, Lot)
      BY <2>3, <2>4, <2>7 DEF Kept
    <2> QED  BY <2>4, <2>8 DEF k, c, next
  <1>9. CASE StopRefused(w)
    <2>1. /\ r.pc = "stop" /\ Goes(w, "unwind") /\ pos' = pos /\ prot' = prot /\ held' = held
      BY <1>s, <1>9, StepGoes DEF StopRefused, AtPc, exchange
    <2>2. ~p.open /\ h = Lot
      BY <1>3, <2>1 DEF Kept, Entering
    <2>3. c.pc = "unwind" /\ pos'[k] = p /\ held'[k] = Lot
      BY <2>1, <2>2 DEF Goes
    <2> HIDE DEF k, r, p, m, n, h, c
    <2>4. Kept(c, p, prot'[k], gen'[k], Lot)
      BY <2>2, <2>3 DEF Kept
    <2> QED  BY <2>3, <2>4 DEF k, c
  <1>10. CASE Unwind(w)
    <2>1. r.pc = "unwind" /\ Goes(w, "finish") /\ pos' = pos /\ prot' = prot
      BY <1>10, StepGoes DEF Unwind, AtPc
    <2>2. ~p.open /\ h = Lot
      BY <1>3, <2>1 DEF Kept, Entering
    <2>3. PICK x \in 1 .. SellableQuantity(k, Lot) :
             /\ held' = [held EXCEPT ![k] = @ - x]
             /\ Strays(k, IF x < Lot THEN {"unsold"} ELSE {})
      BY <1>10 DEF Unwind
    <2>4. SellableQuantity(k, Lot) \in Int /\ SellableQuantity(k, Lot) <= Lot
      BY <1>1, <1>2, SellableBounded
    <2>5. ~(x < Lot)
      BY <1>s, <2>3
    <2>6. x = Lot
      <3> HIDE DEF k
      <3> QED  BY <1>2, <2>3, <2>4, <2>5
    <2>7. held'[k] = 0
      BY <1>1, <1>2, <2>2, <2>3, <2>6
    <2> QED  BY <1>5, <2>1, <2>2, <2>7
  <1>11. CASE UnwindRefused(w)
    BY <1>s, <1>11 DEF UnwindRefused
  <1>12. CASE PlaceTake(w)
    <2>1. /\ r.pc = "take" /\ Place(k, "TP") /\ pos' = pos /\ gen' = gen /\ held' = held
          /\ worker' = [worker EXCEPT ![w].pc = "open", ![w].take = TRUE]
      BY <1>s, <1>12 DEF PlaceTake, AtPc
    <2> DEFINE next == prot'[k]
    <2>2. Sets(next, m, n, "TP", "NEW")
      BY <1>1, <1>2, <2>1 DEF Place, Sets
    <2>3. ~p.open /\ ~r.take /\ Bought(m, n, h, r.take)
      BY <1>3, <2>1 DEF Kept, Protected, Entering
    <2>4. c.pc = "open" /\ c.take /\ pos'[k] = p /\ gen'[k] = n /\ held'[k] = h
      BY <1>2, <2>1 DEF Worker
    <2>5. "SL" \in Sides /\ "TP" \in Sides /\ "NEW" \in Resting
      BY DEF Sides, Resting
    <2> HIDE DEF k, r, p, m, n, h, c, next
    <2>6. next[n]["TP"] = "NEW" /\ next[n]["SL"] = m[n]["SL"]
      <3>1. /\ next[n]["TP"] = "NEW"
            /\ \A f \in Entries, a \in Sides : f # n \/ a # "TP" => next[f][a] = m[f][a]
        BY <1>1, <2>2, <2>5, LiveOne
      <3> QED  BY <1>1, <2>5, <3>1
    <2>7. Bought(next, n, h, c.take)
      BY <2>3, <2>4, <2>6 DEF Bought
    <2>8. Kept(c, p, next, n, h)
      BY <2>3, <2>4, <2>7 DEF Kept
    <2> QED  BY <2>4, <2>8 DEF k, c, next
  <1>13. CASE TakeRefused(w)
    <2>1. /\ r.pc = "take" /\ pos' = pos /\ prot' = prot /\ gen' = gen /\ held' = held
          /\ Goes(w, "open")
      BY <1>s, <1>13, StepGoes DEF TakeRefused, AtPc, exchange
    <2>2. ~p.open /\ Bought(m, n, h, r.take)
      BY <1>3, <2>1 DEF Kept, Entering
    <2>3. /\ c.pc = "open" /\ c.take = r.take /\ pos'[k] = p /\ prot'[k] = m /\ gen'[k] = n
          /\ held'[k] = h
      BY <2>1 DEF Goes
    <2> HIDE DEF k, r, p, m, n, h, c
    <2>4. Kept(c, p, m, n, h)
      BY <2>2, <2>3 DEF Kept
    <2> QED  BY <2>3, <2>4 DEF k, c
  <1>14. CASE OpenPosition(w)
    <2> DEFINE q == pos'[k]
    <2>1. /\ r.pc = "open" /\ prot' = prot /\ held' = held /\ Goes(w, "saveEntry")
          /\ q = [open |-> TRUE, qty |-> Lot, stop |-> TRUE, take |-> r.take, entry |-> n]
      BY <1>1, <1>2, <1>14, StepGoes DEF OpenPosition, AtPc, exchange
    <2>2. Bought(m, n, h, r.take)
      BY <1>3, <2>1 DEF Kept
    <2>3. c.pc = "saveEntry" /\ prot'[k] = m /\ held'[k] = h
      BY <2>1 DEF Goes
    <2>4. q.open /\ q.stop /\ q.take = r.take /\ q.entry = n /\ q.qty = Lot
      BY <2>1
    <2> HIDE DEF k, r, p, m, n, h, c, q
    <2>6. Sold(q, m) <=> m[n]["SL"] = "FILLED" \/ (r.take /\ m[n]["TP"] = "FILLED")
      BY <2>4 DEF Sold, HasId, Sides
    <2>7. h = IF q.open /\ ~Sold(q, m) THEN q.qty ELSE 0
      BY <2>2, <2>4, <2>6 DEF Bought
    <2>8. Account(q, m, h)
      BY <1>2, <2>4, <2>7 DEF Account
    <2>9. Kept(c, q, m, gen'[k], h)
      BY <2>3, <2>8 DEF Kept, Entering
    <2> QED  BY <2>3, <2>9 DEF k, c, q
  <1> QED  BY <1>6, <1>7, <1>8, <1>9, <1>10, <1>11, <1>12, <1>13, <1>14 DEF Enter

-------------------------------------------------------------------------------
(* Books: the steps of an exit *)

\* A protective cancelled, or not: the books do not change.
LEMMA CancelAccount ==
  ASSUME NEW m \in [Entries -> [Sides -> Resting]], NEW p \in Position, NEW s \in Sides,
         NEW h, NEW next, Account(p, m, h),
         next = m \/ (m[p.entry][s] = "NEW" /\ Sets(next, m, p.entry, s, "CANCELED"))
  PROVE  Account(p, next, h)
  <1>1. p.entry \in Entries /\ "CANCELED" \in Resting \ {"NEW"}
    BY DEF Position, Resting
  <1>2. CASE m[p.entry][s] = "NEW" /\ Sets(next, m, p.entry, s, "CANCELED")
    <2> DEFINE g == p.entry
    <2>0. g \in Entries /\ Sets(next, m, g, s, "CANCELED")
      BY <1>1, <1>2
    <2> HIDE DEF g
    <2>a. /\ next[g][s] = "CANCELED"
          /\ \A f \in Entries, a \in Sides : f # g \/ a # s => next[f][a] = m[f][a]
      BY <1>1, <2>0, LiveEnds
    <2>b. next[g][s] = "CANCELED" /\ \A a \in Sides : a # s => next[g][a] = m[g][a]
      BY <2>0, <2>a
    <2>1. /\ next[p.entry][s] = "CANCELED"
          /\ \A a \in Sides : a # s => next[p.entry][a] = m[p.entry][a]
      BY <2>b DEF g
    <2>2. Sold(p, next) <=> Sold(p, m)
      BY <1>2, <2>1 DEF Sold
    <2> QED  BY <2>2 DEF Account
  <1> QED  BY <1>2

\* An exit keeps the books: it sells what is held, and books what it sold.
LEMMA ExitKept ==
  ASSUME IInv, NEW w \in Workers, Exit(w) \/ SavePosition(w),
         Clean(astray[Key(w)]), Clean(astray'[Key(w)]),
         Protected(worker[w], pos[Key(w)], prot[Key(w)], gen[Key(w)]),
         Kept(worker[w], pos[Key(w)], prot[Key(w)], gen[Key(w)], held[Key(w)])
  PROVE  Kept(worker'[w], pos'[Key(w)], prot'[Key(w)], gen'[Key(w)], held'[Key(w)])
  <1> DEFINE k == Key(w)
             r == worker[w]
             p == pos[k]
             m == prot[k]
             n == gen[k]
             h == held[k]
             c == worker'[w]
  <1>0. Busy(w)
    BY DEF Exit, ExitStart, QueryProtective, CancelProtective, Sell, SellRefused, ExitBreaks, Book,
           SavePosition, Busy, AtPc
  <1>1. /\ k \in Keys /\ r \in Worker /\ p \in Position /\ n \in Entries /\ h \in Int
        /\ m \in [Entries -> [Sides -> Resting]]
    BY <1>0, WorkerFields
  <1>2. /\ pos \in [Keys -> Position] /\ worker \in [Workers -> Worker] /\ held \in [Keys -> Int]
        /\ TypeOK /\ Lot \in Nat \ {0}
    BY BoundAssumption DEF IInv, TypeOK
  <1>3. Kept(r, p, m, n, h) /\ Protected(r, p, m, n)
    OBVIOUS
  <1>4. /\ p.qty \in Nat /\ p.entry \in Entries /\ Sides = {"SL", "TP"}
        /\ r.found \in Sides \cup {"none"} /\ r.side \in Sides
    BY <1>1, <1>2 DEF Position, Worker, Sides
  <1>o. r.pc \in Exiting => p.open
    BY DEF IInv, ExitOpen, Robbed, Clean
  <1>s. ASSUME NEW why, Strays(Key(w), why)  PROVE why = {}
    BY <1>1, <1>s, StraysHere DEF Clean
  <1>a. ASSUME c.pc \in {"query", "cancel", "saveExit", "finish"},
               Account(pos'[k], prot'[k], held'[k])
        PROVE  Kept(c, pos'[k], prot'[k], gen'[k], held'[k])
    <2> HIDE DEF k, r, p, m, n, h, c
    <2> QED  BY <1>a DEF Kept, Entering
  <1>5. CASE ExitStart(w)
    <2>1. r.pc = "start" /\ UNCHANGED <<pos, prot, gen, held>>
      BY <1>5 DEF ExitStart, AtPc, exchange
    <2>2. Account(p, m, h)
      BY <1>3, <2>1 DEF Kept
    <2>3. c.pc \in {"query", "finish"}
      <3>1. \/ Goes(w, "finish")
            \/ worker' = [worker EXCEPT ![w].pc = "query", ![w].seen = pos[Key(w)]]
        BY <1>5, StepGoes DEF ExitStart
      <3> QED  BY <1>2, <3>1 DEF Goes, Worker
    <2> QED  BY <1>a, <2>1, <2>2, <2>3
  <1>6. CASE QueryProtective(w)
    <2>1. r.pc = "query" /\ UNCHANGED <<pos, prot, gen, held>> /\ c.pc \in {"query", "cancel"}
      BY <1>6, QueryFields
    <2>2. Account(p, m, h)
      BY <1>3, <2>1 DEF Kept
    <2> QED  BY <1>a, <2>1, <2>2
  <1>7. CASE CancelProtective(w)
    <2> DEFINE s == r.side
               next == prot'[k]
    <2>1. r.pc = "cancel" /\ r.seen = p /\ p.open /\ Account(p, m, h)
      BY <1>3, <1>7, <1>o DEF CancelProtective, AtPc, Kept, Protected, Exiting
    <2>2. /\ pos'[k] = p /\ held'[k] = h /\ c.found = r.found
          /\ c.pc = IF s = "SL" THEN "cancel" ELSE IF r.found = "none" THEN "sell" ELSE "book"
          /\ next = m \/ (m[p.entry][s] = "NEW" /\ Sets(next, m, p.entry, s, "CANCELED"))
      BY <1>7, <2>1, CancelFields
    <2> HIDE DEF k, r, p, m, n, h, c, next
    <2>3. Account(p, next, h)
      BY <1>1, <1>4, <2>1, <2>2, CancelAccount
    <2>4. c.pc \in {"cancel", "sell", "book"} /\ (c.pc = "sell" => c.found = "none")
          /\ (c.pc = "book" => c.found # "none")
      BY <2>2
    <2>5. Kept(c, p, next, gen'[k], h)
      BY <2>1, <2>3, <2>4 DEF Kept, Entering
    <2> QED  BY <2>2, <2>5 DEF k, c, next
  <1>8. CASE Sell(w)
    <2>1. r.pc = "sell" /\ pos' = pos /\ prot' = prot /\ r.seen = p
      BY <1>3, <1>8 DEF Sell, AtPc, Protected, Exiting
    <2>2. PICK x \in 1 .. SellableQuantity(k, p.qty) :
            /\ held' = [held EXCEPT ![k] = @ - x]
            /\ worker' = [worker EXCEPT ![w].pc = "book", ![w].executed = x]
            /\ Strays(k, IF SoldMeanwhile(w) THEN {"twice"} ELSE {})
      BY <1>s, <1>8, <2>1 DEF Sell, Seen
    <2>3. p.open /\ Account(p, m, h) /\ r.found = "none"
      BY <1>3, <1>o, <2>1 DEF Kept, Exiting
    <2>4. ~Sold(p, m)
      <3>1. ~SoldMeanwhile(w)
        BY <1>s, <2>2
      <3> QED  BY <2>1, <2>3, <3>1 DEF SoldMeanwhile, Sold, Seen, OrderState
    <2>5. h = p.qty
      BY <2>3, <2>4 DEF Account
    <2>6. SellableQuantity(k, p.qty) \in Int /\ SellableQuantity(k, p.qty) <= p.qty
      BY <1>1, <1>2, <1>4, SellableBounded
    <2>7. c.pc = "book" /\ c.executed = x /\ c.found = "none"
      BY <1>2, <2>2, <2>3 DEF Worker
    <2>8. pos'[k] = p /\ held'[k] = h - x
      BY <1>1, <1>2, <2>1, <2>2
    <2> HIDE DEF k, r, p, m, n, h, c
    <2>9. c.executed \in 1 .. p.qty /\ held'[k] = p.qty - c.executed
      BY <1>4, <2>2, <2>5, <2>6, <2>7, <2>8
    <2>10. Kept(c, p, prot'[k], gen'[k], held'[k])
      BY <2>7, <2>9 DEF Kept, Entering
    <2> QED  BY <2>8, <2>10 DEF k, c
  <1>9. CASE SellRefused(w)
    <2>1. /\ r.pc = "sell" /\ Goes(w, "finish") /\ UNCHANGED <<pos, prot, held>>
      BY <1>9, StepGoes DEF SellRefused, AtPc, exchange
    <2>2. Account(p, m, h)
      BY <1>3, <2>1 DEF Kept
    <2> QED  BY <1>a, <2>1, <2>2 DEF Goes
  <1>10. CASE ExitBreaks(w)
    <2>1. /\ r.pc \in {"query", "cancel", "sell"} \/ (r.pc = "book" /\ r.found # "none")
          /\ Goes(w, "finish") /\ UNCHANGED <<pos, prot, held>>
      BY <1>10, StepGoes DEF ExitBreaks, AtPc, exchange
    <2>2. Account(p, m, h)
      BY <1>3, <2>1 DEF Kept
    <2> QED  BY <1>a, <2>1, <2>2 DEF Goes
  <1>11. CASE Book(w)
    <2> DEFINE q == pos'[k]
               sold == Executed(w)
               left == p.qty > sold
    <2>1. /\ r.pc = "book" /\ Goes(w, "saveExit") /\ prot' = prot /\ held' = held
          /\ q = [open |-> left, qty |-> IF left THEN p.qty - sold ELSE p.qty,
                  stop |-> FALSE, take |-> FALSE, entry |-> p.entry]
      BY <1>1, <1>2, <1>11, StepGoes DEF Book, AtPc, exchange
    <2>2. p.open /\ FoundTrue(r, p, m)
          /\ IF r.found = "none"
             THEN r.executed \in 1 .. p.qty /\ h = p.qty - r.executed
             ELSE Account(p, m, h)
      BY <1>3, <1>o, <2>1 DEF Kept, Protected, Exiting
    <2>3. c.pc = "saveExit" /\ prot'[k] = m /\ held'[k] = h
      BY <2>1 DEF Goes
    <2>4. sold = IF r.found = "none" THEN r.executed ELSE Lot
      BY DEF Executed
    <2> HIDE DEF sold
    <2>5. /\ q.open = left /\ ~q.stop /\ ~q.take
          /\ q.qty = IF left THEN p.qty - sold ELSE p.qty
      BY <2>1
    <2> HIDE DEF k, r, p, m, n, h, c, q
    <2>6. h = IF left THEN p.qty - sold ELSE 0
      <3>1. CASE r.found = "none"
        BY <1>4, <2>2, <2>4, <3>1
      <3>2. CASE r.found # "none"
        <4>1. HasId(p, r.found) /\ m[p.entry][r.found] = "FILLED" /\ r.found \in Sides
          BY <1>4, <2>2, <3>2 DEF FoundTrue
        <4>2. (p.stop \/ p.take) /\ Sold(p, m)
          BY <1>4, <2>2, <4>1 DEF HasId, Sold
        <4>3. h = 0 /\ p.qty = Lot
          BY <2>2, <3>2, <4>2 DEF Account
        <4> QED  BY <1>2, <2>4, <3>2, <4>3
      <3> QED  BY <3>1, <3>2
    <2>7. ~Sold(q, m)
      BY <1>4, <2>5 DEF Sold, HasId
    <2>8. q.open => q.qty > 0
      <3>1. sold \in Nat
        <4>1. CASE r.found = "none"
          <5>1. r.executed \in 1 .. p.qty /\ sold = r.executed
            BY <2>2, <2>4, <4>1
          <5> QED  BY <1>4, <5>1
        <4>2. CASE r.found # "none"
          BY <1>2, <2>4, <4>2
        <4> QED  BY <4>1, <4>2
      <3>2. q.open => p.qty > sold /\ q.qty = p.qty - sold
        BY <2>5
      <3>3. ASSUME p.qty > sold, q.qty = p.qty - sold
            PROVE  q.qty > 0
        <4> DEFINE all == p.qty
                   rest == q.qty
        <4>1. all \in Nat /\ all > sold /\ rest = all - sold
          BY <1>4, <3>3
        <4> HIDE DEF all, rest
        <4>2. rest > 0
          BY <3>1, <4>1
        <4> QED  BY <4>2 DEF rest
      <3> QED  BY <3>2, <3>3
    <2>9. h = IF q.open /\ ~Sold(q, m) THEN q.qty ELSE 0
      BY <2>5, <2>6, <2>7
    <2>10. Account(q, m, h)
      BY <2>5, <2>8, <2>9 DEF Account
    <2> QED  BY <1>a, <2>3, <2>10 DEF k, c, q
  <1>12. CASE SavePosition(w)
    <2>1. /\ r.pc \in {"saveEntry", "saveExit"} /\ Goes(w, "finish")
          /\ UNCHANGED <<pos, prot, held>>
      BY <1>12, StepGoes DEF SavePosition, AtPc, exchange
    <2>2. Account(p, m, h)
      BY <1>3, <2>1 DEF Kept
    <2> QED  BY <1>a, <2>1, <2>2 DEF Goes
  <1> QED  BY <1>5, <1>6, <1>7, <1>8, <1>9, <1>10, <1>11, <1>12 DEF Exit

-------------------------------------------------------------------------------
(* All keys *)

\* A key that may have gone astray meanwhile is excused from more, not from less.
LEMMA Excused ==
  ASSUME NEW a, NEW b, a \subseteq b
  PROVE  (Sure(b) => Sure(a)) /\ (Clean(b) => Clean(a)) /\ (Clean(b) => Sure(b))
  BY DEF Sure, Clean

\* The keys others work on stay as they are while a task moves on.
LEMMA MovingSound ==
  ASSUME IInv, Sound, NEW w \in Workers, Enter(w) \/ Exit(w) \/ SavePosition(w)
  PROVE  Sound'
  <1>1. MovesOn(w) /\ Elsewhere(w)
    BY EnterMoves, ExitMoves, EnterElsewhere, ExitElsewhere
  <1>2. /\ Busy(w) /\ Key(w) \in Keys /\ worker'[w].key = Key(w) /\ worker'[w].pc # "idle"
        /\ \A v \in Workers \ {w} : worker'[v] = worker[v]
        /\ \A k \in Keys : astray[k] \subseteq astray'[k]
        /\ \A k \in Keys \ {Key(w)} : /\ pos'[k] = pos[k] /\ prot'[k] = prot[k]
                                      /\ gen'[k] = gen[k] /\ held'[k] = held[k]
    BY <1>1, WorkerFields DEF MovesOn, Elsewhere, Key, Grows
  <1>3. \A v \in Workers \ {w} : Busy(v) => /\ Key(v) \in Keys
                                            /\ Key(v) = Key(w) => "robbed" \in astray[Key(w)]
    BY <1>2, WorkerFields DEF IInv, OneWorkerPerKey
  <1>4. Idly'
    <2> SUFFICES ASSUME NEW k \in Keys,
                        \A v \in Workers : ~(worker'[v].pc # "idle" /\ worker'[v].key = k)
                 PROVE  Rested(astray'[k], pos'[k], prot'[k], held'[k])
      BY DEF Idly, Working, Busy, AtPc, Key
    <2>1. k # Key(w)
      BY <1>2
    <2>2. \A v \in Workers : ~Working(v, k)
      BY <1>2, <2>1 DEF Working, Busy, AtPc, Key
    <2>3. Rested(astray[k], pos[k], prot[k], held[k])
      BY <2>2 DEF Sound, Idly
    <2>4. /\ Sure(astray'[k]) => Sure(astray[k])
          /\ Clean(astray'[k]) => Clean(astray[k])
      BY <1>2, Excused
    <2> QED  BY <1>2, <2>1, <2>3, <2>4 DEF Rested
  <1>5. Stages'
    <2> SUFFICES ASSUME NEW v \in Workers, worker'[v].pc # "idle"
                 PROVE  LET k == worker'[v].key
                        IN  Staged(astray'[k], worker'[v], pos'[k], prot'[k], gen'[k], held'[k])
      BY DEF Stages, Busy, AtPc, Key
    <2>1. CASE v = w
      <3> DEFINE k == Key(w)
      <3>1. Staged(astray[k], worker[w], pos[k], prot[k], gen[k], held[k])
        BY <1>2 DEF Sound, Stages
      <3>2. /\ Sure(astray'[k]) => Sure(astray[k])
            /\ Clean(astray'[k]) => Clean(astray[k]) /\ Sure(astray[k])
        <4>1. astray[k] \subseteq astray'[k]  BY <1>2
        <4> QED  BY <4>1, Excused
      <3>3. Sure(astray'[k]) => Protected(worker'[w], pos'[k], prot'[k], gen'[k])
        BY <3>1, <3>2, EntryProtected, ExitProtected DEF Staged
      <3>4. Clean(astray'[k]) => Kept(worker'[w], pos'[k], prot'[k], gen'[k], held'[k])
        BY <3>1, <3>2, EntryKept, ExitKept DEF Staged
      <3>5. Staged(astray'[k], worker'[w], pos'[k], prot'[k], gen'[k], held'[k])
        BY <3>3, <3>4 DEF Staged
      <3> QED  BY <1>2, <2>1, <3>5
    <2>2. CASE v # w
      <3> DEFINE k == Key(v)
      <3>1. worker'[v] = worker[v] /\ Busy(v) /\ worker'[v].key = k /\ k \in Keys
        BY <1>2, <1>3, <2>2 DEF Busy, AtPc, Key
      <3>2. Staged(astray[k], worker[v], pos[k], prot[k], gen[k], held[k])
        BY <3>1 DEF Sound, Stages
      <3>3. /\ Sure(astray'[k]) => Sure(astray[k])
            /\ Clean(astray'[k]) => Clean(astray[k]) /\ Sure(astray[k])
        <4>1. astray[k] \subseteq astray'[k]  BY <1>2, <3>1
        <4> QED  BY <4>1, Excused
      <3>4. Sure(astray[k]) => k # Key(w)
        BY <1>3, <2>2, <3>1 DEF Sure
      <3>5. k # Key(w) => /\ pos'[k] = pos[k] /\ prot'[k] = prot[k]
                          /\ gen'[k] = gen[k] /\ held'[k] = held[k]
        BY <1>2, <3>1
      <3> HIDE DEF k
      <3>6. Staged(astray'[k], worker'[v], pos'[k], prot'[k], gen'[k], held'[k])
        BY <3>1, <3>2, <3>3, <3>4, <3>5 DEF Staged
      <3> QED  BY <3>1, <3>6
    <2> QED  BY <2>1, <2>2
  <1> QED  BY <1>4, <1>5 DEF Sound

\* A task begins with what a key at rest has.
LEMMA TaskStaged ==
  ASSUME NEW a, NEW p, NEW m, NEW n, NEW h, Rested(a, p, m, h), NEW k, NEW b,
         NEW label, (label = "buy" /\ ~p.open) \/ label = "start"
  PROVE  Staged(a, Task(k, label, b), p, m, n, h)
  <1> DEFINE r == Task(k, label, b)
  <1>1. r.pc = label /\ r.found = "none" /\ r.take = FALSE
    BY DEF Task
  <1> HIDE DEF r
  <1>2. Sure(a) => Protected(r, p, m, n)
    <2> SUFFICES ASSUME Sure(a)  PROVE Protected(r, p, m, n)
      OBVIOUS
    <2>1. Tracked(p, m)
      BY DEF Rested
    <2>2. ~p.open => Live(m) = {}
      BY <2>1 DEF Tracked
    <2> QED  BY <1>1, <2>1, <2>2 DEF Protected, FoundTrue, Exiting
  <1>3. Clean(a) => Kept(r, p, m, n, h)
    <2> SUFFICES ASSUME Clean(a)  PROVE Kept(r, p, m, n, h)
      OBVIOUS
    <2>1. Account(p, m, h)
      BY DEF Rested
    <2>2. ~p.open => h = 0
      BY <2>1 DEF Account
    <2> QED  BY <1>1, <2>1, <2>2 DEF Kept, Entering
  <1> QED  BY <1>2, <1>3 DEF Staged, r

LEMMA ClaimSound ==
  ASSUME IInv, Sound, NEW w \in Workers, NEW k \in Keys,
         Claim(w, k) \/ (ReconcileExit(k) /\ w = Loop)
  PROVE  Sound'
  <1>0. worker \in [Workers -> Worker]  BY DEF IInv, TypeOK
  <1>1. PICK label, b :
          /\ worker' = [worker EXCEPT ![w] = Task(k, label, b)]
          /\ (label = "buy" /\ ~pos[k].open) \/ label = "start"
    BY DEF Claim, SignalBuy, SignalExit, TickExit, ReconcileExit, CanBuy, Assign
  <1>2. UNCHANGED <<pos, prot, gen, held, astray>> /\ k \notin inflight /\ ~Busy(w)
    BY DEF Claim, SignalBuy, SignalExit, TickExit, ReconcileExit, CanBuy, CanExit, StillExits,
           exchange, Busy
  <1>3. /\ worker'[w] = Task(k, label, b) /\ worker'[w].key = k /\ worker'[w].pc # "idle"
        /\ \A v \in Workers \ {w} : worker'[v] = worker[v]
    BY <1>0, <1>1 DEF Task
  <1>4. Idly'
    <2> SUFFICES ASSUME NEW j \in Keys,
                        \A v \in Workers : ~(worker'[v].pc # "idle" /\ worker'[v].key = j)
                 PROVE  Rested(astray[j], pos[j], prot[j], held[j])
      BY <1>2 DEF Idly, Working, Busy, AtPc, Key
    <2>1. \A v \in Workers : ~Working(v, j)
      BY <1>2, <1>3 DEF Working, Busy, AtPc, Key
    <2> QED  BY <2>1 DEF Sound, Idly
  <1>5. Stages'
    <2> SUFFICES ASSUME NEW v \in Workers, worker'[v].pc # "idle"
                 PROVE  LET j == worker'[v].key
                        IN  Staged(astray[j], worker'[v], pos[j], prot[j], gen[j], held[j])
      BY <1>2 DEF Stages, Busy, AtPc, Key
    <2>1. CASE v = w
      <3>1. CASE Sure(astray[k])
        <4>1. \A u \in Workers : ~Working(u, k)
          BY <1>2, <3>1 DEF IInv, Claimed, Robbed, Sure, Working
        <4>2. Rested(astray[k], pos[k], prot[k], held[k])
          BY <4>1 DEF Sound, Idly
        <4>3. Staged(astray[k], Task(k, label, b), pos[k], prot[k], gen[k], held[k])
          BY <1>1, <4>2, TaskStaged
        <4> QED  BY <1>3, <2>1, <4>3
      <3>2. CASE ~Sure(astray[k])
        <4>1. ~Clean(astray[k])
          BY <3>2 DEF Sure, Clean
        <4> QED  BY <1>3, <2>1, <3>2, <4>1 DEF Staged
      <3> QED  BY <3>1, <3>2
    <2>2. CASE v # w
      <3>1. worker'[v] = worker[v] /\ Busy(v) /\ worker'[v].key = Key(v)
        BY <1>3, <2>2 DEF Busy, AtPc, Key
      <3> QED  BY <3>1 DEF Sound, Stages
    <2> QED  BY <2>1, <2>2
  <1> QED  BY <1>4, <1>5 DEF Sound

LEMMA FinishSound ==
  ASSUME IInv, Sound, NEW w \in Workers, Finish(w)
  PROVE  Sound'
  <1>0. worker \in [Workers -> Worker]  BY DEF IInv, TypeOK
  <1>1. /\ worker[w].pc = "finish" /\ UNCHANGED <<pos, prot, gen, held, astray>>
    BY DEF Finish, AtPc, exchange
  <1>2. worker'[w].pc = "idle" /\ \A v \in Workers \ {w} : worker'[v] = worker[v]
    BY <1>0, IdleType DEF Finish
  <1>3. Idly'
    <2> SUFFICES ASSUME NEW j \in Keys,
                        \A v \in Workers : ~(worker'[v].pc # "idle" /\ worker'[v].key = j)
                 PROVE  Rested(astray[j], pos[j], prot[j], held[j])
      BY <1>1 DEF Idly, Working, Busy, AtPc, Key
    <2>1. \A v \in Workers \ {w} : ~Working(v, j)
      BY <1>2 DEF Working, Busy, AtPc, Key
    <2>2. CASE j = Key(w)
      <3>1. Staged(astray[j], worker[w], pos[j], prot[j], gen[j], held[j])
        BY <1>1, <2>2 DEF Sound, Stages, Busy, AtPc
      <3> QED  BY <1>1, <3>1 DEF Staged, Rested, Protected, Kept
    <2>3. CASE j # Key(w)
      BY <2>1, <2>3 DEF Sound, Idly, Working
    <2> QED  BY <2>2, <2>3
  <1>4. Stages'
    <2> SUFFICES ASSUME NEW v \in Workers, worker'[v].pc # "idle"
                 PROVE  LET j == worker'[v].key
                        IN  Staged(astray[j], worker'[v], pos[j], prot[j], gen[j], held[j])
      BY <1>1 DEF Stages, Busy, AtPc, Key
    <2>1. worker'[v] = worker[v] /\ Busy(v) /\ worker'[v].key = Key(v)
      BY <1>2 DEF Busy, AtPc, Key
    <2> QED  BY <2>1 DEF Sound, Stages
  <1> QED  BY <1>3, <1>4 DEF Sound

\* A protective that triggers no longer rests.
LEMMA TriggerProtected ==
  ASSUME NEW m \in [Entries -> [Sides -> Resting]], NEW g \in Entries, NEW s \in Sides,
         m[g][s] = "NEW", NEW next, Sets(next, m, g, s, "FILLED"),
         NEW p, p.entry \in Entries
  PROVE  /\ Tracked(p, m) => Tracked(p, next)
         /\ \A r \in Worker, n \in Entries : Protected(r, p, m, n) => Protected(r, p, next, n)
  <1>1. Live(next) = Live(m) \ {<<g, s>>} /\ next[g][s] = "FILLED"
        /\ \A f \in Entries, a \in Sides : m[f][a] = "FILLED" => next[f][a] = "FILLED"
    <2>1. "FILLED" \in Resting \ {"NEW"}
      BY DEF Resting
    <2>2. /\ Live(next) = Live(m) \ {<<g, s>>} /\ next[g][s] = "FILLED"
          /\ \A f \in Entries, a \in Sides : f # g \/ a # s => next[f][a] = m[f][a]
      BY <2>1, LiveEnds
    <2> QED  BY <2>2
  <1>2. Tracked(p, m) => Tracked(p, next)
    BY <1>1 DEF Tracked
  <1>3. ASSUME NEW r \in Worker, FoundTrue(r, p, m)
        PROVE  FoundTrue(r, p, next)
    BY <1>1, <1>3 DEF FoundTrue, Worker
  <1>4. ASSUME NEW r \in Worker, NEW n \in Entries, Protected(r, p, m, n)
        PROVE  Protected(r, p, next, n)
    BY <1>1, <1>2, <1>3, <1>4 DEF Protected
  <1> QED  BY <1>2, <1>4

\* It sells the lot it rested on, and its sibling has not.
LEMMA TriggerAccount ==
  ASSUME NEW m \in [Entries -> [Sides -> Resting]], NEW g \in Entries, NEW s \in Sides,
         m[g][s] = "NEW", NEW next, Sets(next, m, g, s, "FILLED"),
         \A other \in Sides \ {s} : m[g][other] # "FILLED",
         NEW p \in Position, NEW h
  PROVE  /\ Tracked(p, m) /\ Account(p, m, h) => Account(p, next, h - Lot)
         /\ \A r \in Worker, n \in Entries :
              Protected(r, p, m, n) /\ Kept(r, p, m, n, h) => Kept(r, p, next, n, h - Lot)
  <1>1. /\ next[g][s] = "FILLED" /\ <<g, s>> \in Live(m)
        /\ \A f \in Entries, a \in Sides : f # g \/ a # s => next[f][a] = m[f][a]
    <2>1. "FILLED" \in Resting \ {"NEW"}
      BY DEF Resting
    <2>2. <<g, s>> \in Live(m)
      BY DEF Live
    <2> QED  BY <2>1, <2>2, LiveEnds
  <1>2. Lot \in Nat \ {0} /\ Sides = {"SL", "TP"} /\ Lot - Lot = 0
    BY BoundAssumption DEF Sides
  <1>3. ASSUME Tracked(p, m), Account(p, m, h)
        PROVE  Account(p, next, h - Lot)
    <2>1. p.open /\ g = p.entry /\ HasId(p, s) /\ p.qty = Lot
      <3>1. p.open /\ g = p.entry /\ HasId(p, s)
        BY <1>1, <1>3 DEF Tracked
      <3> QED  BY <1>2, <1>3, <3>1 DEF Account, HasId
    <2>2. ~Sold(p, m) /\ Sold(p, next)
      BY <1>1, <1>2, <2>1 DEF Sold
    <2>3. h = Lot
      BY <1>3, <2>1, <2>2 DEF Account
    <2>4. h - Lot = 0
      BY <1>2, <2>3
    <2> QED  BY <1>3, <2>1, <2>2, <2>4 DEF Account
  <1>4. ASSUME NEW n \in Entries, NEW take \in BOOLEAN, Bought(m, n, h, take),
               Live(m) \subseteq Own("SL", n) \cup (IF take THEN Own("TP", n) ELSE {})
        PROVE  Bought(next, n, h - Lot, take)
    <2>1. g = n /\ (s = "TP" => take)
      BY <1>1, <1>2, <1>4 DEF Own
    <2>2. h = Lot
      BY <1>2, <1>4, <2>1 DEF Bought
    <2>3. h - Lot = 0
      BY <1>2, <2>2
    <2>4. CASE s = "SL"
      <3>1. next[n]["SL"] = "FILLED" /\ next[n]["TP"] = m[n]["TP"] /\ m[n]["TP"] # "FILLED"
        BY <1>1, <1>2, <2>1, <2>4
      <3> QED  BY <1>4, <2>3, <3>1 DEF Bought
    <2>5. CASE s = "TP"
      <3>1. next[n]["TP"] = "FILLED" /\ next[n]["SL"] = m[n]["SL"] /\ m[n]["SL"] # "FILLED" /\ take
        BY <1>1, <1>2, <2>1, <2>5
      <3> QED  BY <1>4, <2>3, <3>1 DEF Bought
    <2> QED  BY <1>2, <2>4, <2>5
  <1>5. ASSUME NEW r \in Worker, NEW n \in Entries, Protected(r, p, m, n), Kept(r, p, m, n, h)
        PROVE  Kept(r, p, next, n, h - Lot)
    <2>1. Live(m) # {} /\ r.take \in BOOLEAN
      BY <1>1 DEF Worker
    <2>2. r.pc \notin {"buy", "stop", "unwind", "sell", "book"}
      BY <1>5, <2>1 DEF Protected
    <2>3. r.pc \in {"take", "open"} => Bought(next, n, h - Lot, r.take)
      <3>1. r.pc \in {"take", "open"} =>
              /\ Bought(m, n, h, r.take)
              /\ Live(m) \subseteq Own("SL", n) \cup (IF r.take THEN Own("TP", n) ELSE {})
        BY <1>5 DEF Kept, Protected
      <3> QED  BY <1>4, <2>1, <3>1
    <2>4. r.pc \in {"start", "query", "cancel", "saveEntry", "saveExit", "finish"} =>
             Account(p, next, h - Lot)
      BY <1>3, <1>5 DEF Kept, Protected
    <2> QED  BY <1>5, <2>2, <2>3, <2>4 DEF Kept
  <1> QED  BY <1>3, <1>5

LEMMA TriggerSound ==
  ASSUME IInv, Sound, NEW k \in Keys, NEW g \in Entries, NEW s \in Sides, Trigger(k, g, s)
  PROVE  Sound'
  <1>0. /\ worker \in [Workers -> Worker] /\ pos \in [Keys -> Position] /\ gen \in [Keys -> Entries]
        /\ prot \in [Keys -> [Entries -> [Sides -> Resting]]] /\ held \in [Keys -> Int]
        /\ astray \in [Keys -> SUBSET Reasons]
    BY DEF IInv, TypeOK, Resting
  <1> DEFINE m == prot[k]
             next == prot'[k]
             p == pos[k]
             h == held[k]
  <1>1. /\ m[g][s] = "NEW" /\ Sets(next, m, g, s, "FILLED") /\ held'[k] = h - Lot
        /\ \A j \in Keys \ {k} : prot'[j] = prot[j] /\ held'[j] = held[j] /\ astray'[j] = astray[j]
        /\ UNCHANGED <<pos, gen, worker>>
    BY <1>0 DEF Trigger, Sets, Strays
  <1>2. m \in [Entries -> [Sides -> Resting]] /\ p \in Position /\ p.entry \in Entries
    BY <1>0 DEF Position
  <1>3. /\ astray[k] \subseteq astray'[k]
        /\ Clean(astray'[k]) => \A other \in Sides \ {s} : m[g][other] # "FILLED"
    BY <1>0 DEF Trigger, Strays, Clean
  <1>4. /\ Sure(astray'[k]) => Sure(astray[k])
        /\ Clean(astray'[k]) => Clean(astray[k]) /\ Sure(astray[k])
    BY <1>3, Excused
  <1> HIDE DEF m, next, p, h
  <1>5. /\ Tracked(p, m) => Tracked(p, next)
        /\ \A r \in Worker, n \in Entries : Protected(r, p, m, n) => Protected(r, p, next, n)
    BY <1>1, <1>2, TriggerProtected
  <1>6. Clean(astray'[k]) =>
          /\ Tracked(p, m) /\ Account(p, m, h) => Account(p, next, h - Lot)
          /\ \A r \in Worker, n \in Entries :
               Protected(r, p, m, n) /\ Kept(r, p, m, n, h) => Kept(r, p, next, n, h - Lot)
    BY <1>1, <1>2, <1>3, TriggerAccount
  <1>7. Rested(astray[k], p, m, h) => Rested(astray'[k], p, next, h - Lot)
    BY <1>4, <1>5, <1>6 DEF Rested
  <1>8. \A r \in Worker, n \in Entries :
          Staged(astray[k], r, p, m, n, h) => Staged(astray'[k], r, p, next, n, h - Lot)
    BY <1>4, <1>5, <1>6 DEF Staged
  <1>9. Idly'
    <2> SUFFICES ASSUME NEW j \in Keys, \A v \in Workers : ~Working(v, j)
                 PROVE  Rested(astray'[j], pos[j], prot'[j], held'[j])
      BY <1>1 DEF Idly, Working, Busy, AtPc, Key
    <2>1. Rested(astray[j], pos[j], prot[j], held[j])
      BY DEF Sound, Idly
    <2>2. CASE j = k
      BY <1>1, <1>7, <2>1, <2>2 DEF m, next, p, h
    <2>3. CASE j # k
      BY <1>1, <2>1, <2>3
    <2> QED  BY <2>2, <2>3
  <1>10. Stages'
    <2> SUFFICES ASSUME NEW v \in Workers, Busy(v)
                 PROVE  Staged(astray'[Key(v)], worker[v], pos[Key(v)], prot'[Key(v)], gen[Key(v)],
                               held'[Key(v)])
      BY <1>1 DEF Stages, Busy, AtPc, Key
    <2>1. Staged(astray[Key(v)], worker[v], pos[Key(v)], prot[Key(v)], gen[Key(v)], held[Key(v)])
      BY DEF Sound, Stages
    <2>2. worker[v] \in Worker /\ Key(v) \in Keys /\ gen[Key(v)] \in Entries
      BY WorkerFields
    <2>3. CASE Key(v) = k
      BY <1>1, <1>8, <2>1, <2>2, <2>3 DEF m, next, p, h
    <2>4. CASE Key(v) # k
      BY <1>1, <2>1, <2>2, <2>4
    <2> QED  BY <2>3, <2>4
  <1> QED  BY <1>9, <1>10 DEF Sound

\* Steps that concern neither the orders nor the positions of a key.
LEMMA SameSound ==
  ASSUME IInv, Sound, Grows, UNCHANGED <<pos, prot, gen, held, worker>>
  PROVE  Sound'
  <1>1. \A k \in Keys : /\ Sure(astray'[k]) => Sure(astray[k])
                        /\ Clean(astray'[k]) => Clean(astray[k])
    BY Excused DEF Grows
  <1>2. Idly'
    <2> SUFFICES ASSUME NEW j \in Keys, \A v \in Workers : ~Working(v, j)
                 PROVE  Rested(astray'[j], pos[j], prot[j], held[j])
      BY DEF Idly, Working, Busy, AtPc, Key
    <2>1. Rested(astray[j], pos[j], prot[j], held[j])
      BY DEF Sound, Idly
    <2> QED  BY <1>1, <2>1 DEF Rested
  <1>3. Stages'
    <2> SUFFICES ASSUME NEW v \in Workers, Busy(v)
                 PROVE  Staged(astray'[Key(v)], worker[v], pos[Key(v)], prot[Key(v)], gen[Key(v)],
                               held[Key(v)])
      BY DEF Stages, Busy, AtPc, Key
    <2>1. Staged(astray[Key(v)], worker[v], pos[Key(v)], prot[Key(v)], gen[Key(v)], held[Key(v)])
          /\ Key(v) \in Keys
      BY WorkerFields DEF Sound, Stages
    <2> QED  BY <1>1, <2>1 DEF Staged
  <1> QED  BY <1>2, <1>3 DEF Sound

\* After a restart a key is at rest: either it was, or it lost something.
LEMMA CrashSound ==
  ASSUME IInv, Sound, Crash
  PROVE  Sound'
  <1>1. worker' = [w \in Workers |-> Idle] /\ pos' = saved /\ UNCHANGED <<prot, gen, held>>
    BY DEF Crash, exchange
  <1>2. \A k \in Keys : astray'[k] = astray[k] \cup IF Unstored(k) THEN {"crashed"} ELSE {}
    BY DEF Crash
  <1>3. \A v \in Workers : worker'[v].pc = "idle"
    BY <1>1, IdleType
  <1>4. Idly'
    <2> SUFFICES ASSUME NEW k \in Keys
                 PROVE  Rested(astray'[k], saved[k], prot[k], held[k])
      BY <1>1 DEF Idly
    <2>1. CASE Unstored(k)
      <3>1. ~Sure(astray'[k]) /\ ~Clean(astray'[k])
        BY <1>2, <2>1 DEF Sure, Clean
      <3> QED  BY <3>1 DEF Rested
    <2>2. CASE ~Unstored(k)
      <3>1. astray'[k] = astray[k] /\ saved[k] = pos[k]
        BY <1>2, <2>2 DEF Unstored
      <3>2. CASE \A v \in Workers : ~Working(v, k)
        BY <3>1, <3>2 DEF Sound, Idly
      <3>3. CASE \E v \in Workers : Working(v, k)
        <4>1. PICK v \in Workers : Busy(v) /\ Key(v) = k
          BY <3>3 DEF Working
        <4> DEFINE r == worker[v]
        <4>2. Staged(astray[k], r, pos[k], prot[k], gen[k], held[k])
          BY <4>1 DEF Sound, Stages
        <4>3. r.pc \in {"buy", "start", "query", "cancel", "sell", "saveEntry", "saveExit",
                        "finish"}
          BY <2>2, <4>1, WorkerFields DEF Unstored, Worker, EntryPc, ExitPc, Busy, AtPc
        <4> HIDE DEF r
        <4>4. Sure(astray[k]) => Tracked(pos[k], prot[k])
          BY <4>2, <4>3 DEF Staged, Protected, Tracked
        <4>5. Clean(astray[k]) => Account(pos[k], prot[k], held[k])
          BY <4>2, <4>3 DEF Staged, Kept, Account, Entering
        <4> QED  BY <3>1, <4>4, <4>5 DEF Rested
      <3> QED  BY <3>2, <3>3
    <2> QED  BY <2>1, <2>2
  <1>5. Stages'
    BY <1>3 DEF Stages, Busy, AtPc
  <1> QED  BY <1>4, <1>5 DEF Sound

LEMMA SoundInductive ==
  ASSUME IInv, Sound, [Next]_vars
  PROVE  Sound'
  <1>0. astray \in [Keys -> SUBSET Reasons]
    BY DEF IInv, TypeOK
  <1>1. ASSUME NEW w \in Workers, Run(w)  PROVE Sound'
    BY <1>1, MovingSound, FinishSound DEF Run
  <1>2. ASSUME NEW w \in Workers, NEW k \in Keys, Claim(w, k)  PROVE Sound'
    BY <1>2, ClaimSound
  <1>3. ASSUME NEW k \in Keys, ReconcileExit(k)  PROVE Sound'
    BY <1>3, ClaimSound, BoundAssumption
  <1>4. ASSUME NEW k \in Keys, ReconcileSkip(k)  PROVE Sound'
    <2>1. \E why \in SUBSET Reasons : Strays(k, why)
      BY <1>4 DEF ReconcileSkip, Reasons
    <2>2. Grows
      BY <1>0, <2>1, StraysGrows
    <2> QED  BY <1>4, <2>2, SameSound DEF ReconcileSkip, exchange
  <1>5. ASSUME NEW k \in Keys, NEW g \in Entries, NEW s \in Sides, Trigger(k, g, s)
        PROVE  Sound'
    BY <1>5, TriggerSound
  <1>6. CASE \/ \E k \in Keys : Flip(k) \/ SignalDropped(k) \/ ReconcileLook(k)
             \/ ReconcileBegin \/ SetAutomation \/ Logout \/ Login \/ UNCHANGED vars
    <2>1. UNCHANGED <<pos, prot, gen, held, worker, astray>>
      BY <1>6 DEF Flip, SignalDropped, ReconcileLook, ReconcileBegin, SetAutomation, Logout, Login,
                  vars, exchange
    <2> QED  BY <1>0, <2>1, SameSound, UnchangedGrows
  <1>7. CASE Crash
    BY <1>7, CrashSound
  <1> QED  BY <1>1, <1>2, <1>3, <1>4, <1>5, <1>6, <1>7 DEF Next, Quiet, Reconcile

LEMMA InitSound == Init => Sound
  <1> SUFFICES ASSUME Init  PROVE Sound
    OBVIOUS
  <1>1. \A k \in Keys : Live(prot[k]) = {} /\ ~pos[k].open /\ held[k] = 0
    BY DEF Init, Live, NoPosition
  <1>2. \A w \in Workers : ~Busy(w)
    BY IdleType DEF Init, Busy, AtPc
  <1> QED  BY <1>1, <1>2 DEF Sound, Idly, Stages, Rested, Tracked, Account

\* Away from work in progress a key has no task, unless its claim was discarded.
LEMMA AtRest ==
  ASSUME IInv, Sound, NEW k \in Keys \ inflight, Sure(astray[k])
  PROVE  Rested(astray[k], pos[k], prot[k], held[k])
  <1>1. \A w \in Workers : ~Working(w, k)
    BY DEF IInv, Claimed, Robbed, Sure, Working
  <1> QED  BY <1>1 DEF Sound, Idly

-------------------------------------------------------------------------------
(* Theorems *)

\* No sell is left resting for a later lot: away from work in progress every
\* resting protective is known to the open position it protects, whatever is
\* refused or fails, for any keys, tasks and entries, unless the key's claim was
\* discarded, a restart or an exception fell between an order and the position
\* that would know it, or a cancellation failed.
THEOREM RestingIsTracked == Spec => []LiveSellTracked
  <1>1. IInv /\ Sound => LiveSellTracked
    <2> SUFFICES ASSUME IInv, Sound, NEW k \in Keys \ inflight, NEW g \in Entries, NEW s \in Sides,
                        astray[k] \cap {"robbed", "crashed", "lost", "uncancelled"} = {},
                        prot[k][g][s] = "NEW"
                 PROVE  pos[k].open /\ pos[k].entry = g /\ HasId(pos[k], s)
      BY DEF LiveSellTracked
    <2>1. Sure(astray[k])
      BY DEF Sure
    <2>2. <<g, s>> \in Live(prot[k]) /\ Tracked(pos[k], prot[k])
      BY <2>1, AtRest DEF Live, Rested
    <2> QED  BY <2>2 DEF Tracked
  <1>2. IInv /\ Sound /\ [Next]_vars => Sound'
    BY SoundInductive
  <1> QED  BY InitInv, InitSound, Inductive, <1>1, <1>2, PTL DEF Spec

\* The books are true: away from work in progress an open position is what the
\* strategy holds, and without one it holds nothing, whatever is refused or fails,
\* until a key goes astray in one of the six ways listed with Reasons.
THEOREM BooksAreTrue == Spec => []BooksMatch
  <1>1. IInv /\ Sound => BooksMatch
    <2> SUFFICES ASSUME IInv, Sound, NEW k \in Keys \ inflight, astray[k] = {}
                 PROVE  LET filled == \E s \in Sides : /\ pos[k].open /\ HasId(pos[k], s)
                                                       /\ OrderState(k, pos[k], s) = "FILLED"
                        IN  held[k] = IF pos[k].open /\ ~filled THEN pos[k].qty ELSE 0
      BY DEF BooksMatch
    <2>1. Sure(astray[k]) /\ Clean(astray[k])
      BY DEF Sure, Clean
    <2>2. Account(pos[k], prot[k], held[k])
      BY <2>1, AtRest DEF Rested
    <2> QED  BY <2>2 DEF Account, Sold, OrderState
  <1>2. IInv /\ Sound /\ [Next]_vars => Sound'
    BY SoundInductive
  <1> QED  BY InitInv, InitSound, Inductive, <1>1, <1>2, PTL DEF Spec
===============================================================================
