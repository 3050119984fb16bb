--------------------------- MODULE PreTradeRiskProofs --------------------------
(***************************************************************************)
(* The safety of PreTradeRisk: the durability of reservations, the         *)
(* refinement of the lifecycle, and the ledger: it is exactly what it      *)
(* holds, and what is in transit never exceeds the exchange's balance.     *)
(*                                                                         *)
(* The invariant has three layers, each inductive given those before it:   *)
(* IInv (what tasks know of orders), Control (who holds the lock and which *)
(* reservations are counted) and Sound (the sums).                         *)
(***************************************************************************)
EXTENDS PreTradeRisk, FiniteSetTheorems, TLAPS

Ended == {"lost", "rejected", "FILLED", "CANCELED"}

\* A task about to acknowledge has an answer to acknowledge.
JobsPresent == \A t \in Tasks : pc[t] \in {"acquire", "writing"} => job[t] # NoJob

\* Answers are about orders that were sent; a terminal answer is about an
\* order that has ended, or an error that decided nothing: an ended order never
\* changes again, which is why a stale answer can retain a dead reservation but
\* never release a live one.
JobsTrue ==
    \A t \in Tasks : job[t] # NoJob =>
        /\ order[job[t].order] # "unsent"
        /\ job[t].status \in TERMINAL_STATUSES => order[job[t].order] \in Ended \/ job[t].order \in denied

\* An order has not left while reserve is at work on it, and has afterwards.
SentAfterReserve ==
    \A o \in Orders :
        /\ pc[o] \in {"idle", "loading", "checking", "saving"} => order[o] = "unsent"
        /\ pc[o] \in {"posting", "acquire", "writing", "query"} => order[o] # "unsent"

IInv == StateOK /\ JobsPresent /\ JobsTrue /\ SentAfterReserve /\ DurableWhileLive

LEMMA InitIInv == Init => IInv
  BY TaskAssumption, ValueAssumption
  DEF Init, IInv, StateOK, JobsPresent, JobsTrue, SentAfterReserve, DurableWhileLive,
      OrderState, Live, PlacePc, Job, NoJob, Tasks, Sweepers

\* place_order keeps the invariant: only SaveReservation sends, and it writes the row.
LEMMA PlaceStep ==
  ASSUME IInv, NEW o \in Orders, Place(o)
  PROVE  IInv'
  <1> USE TaskAssumption, ValueAssumption
      DEF IInv, StateOK, JobsPresent, JobsTrue, SentAfterReserve, DurableWhileLive,
          OrderState, Live, Ended, Known, PlacePc, SweepPc, UserPc, Job, NoJob, Status, TERMINAL_STATUSES, Tasks, Sweepers,
          At, Go, vars, exchange, ledger, progress, counters
  <1>1. CASE Refuse(o)
    BY <1>1 DEF Refuse
  <1>2. CASE ReserveBegin(o)
    BY <1>2 DEF ReserveBegin
  <1>3. CASE AccountAnswers(o)
    BY <1>3 DEF AccountAnswers
  <1>4. CASE AccountFails(o)
    BY <1>4 DEF AccountFails
  <1>5. CASE Admit(o)
    BY <1>5 DEF Admit
  <1>6. CASE Deny(o)
    BY <1>6 DEF Deny
  <1>7. CASE SaveReservation(o)
    BY <1>7 DEF SaveReservation
  <1>8. CASE SaveFails(o)
    BY <1>8 DEF SaveFails
  <1>9. CASE PostReturns(o)
    BY <1>9 DEF PostReturns
  <1>10. CASE PostTimesOut(o)
    BY <1>10 DEF PostTimesOut
  <1>11. CASE PostUnreadable(o)
    BY <1>11 DEF PostUnreadable
  <1>12. CASE QueryAnswers(o)
    BY <1>12 DEF QueryAnswers
  <1>13. CASE QueryFails(o)
    BY <1>13 DEF QueryFails
  <1>14. CASE GiveUp(o)
    BY <1>14 DEF GiveUp
  <1> QED  BY <1>1, <1>2, <1>3, <1>4, <1>5, <1>6, <1>7, <1>8, <1>9, <1>10, <1>11, <1>12, <1>13, <1>14 DEF Place

\* The exchange only ever moves an order towards its end.
LEMMA ExchangeStep ==
  ASSUME IInv, NEW o \in Orders, Exchange(o)
  PROVE  IInv'
  <1> USE TaskAssumption, ValueAssumption
      DEF IInv, StateOK, JobsPresent, JobsTrue, SentAfterReserve, DurableWhileLive,
          OrderState, Live, Ended, Known, PlacePc, SweepPc, UserPc, Job, NoJob, Status, TERMINAL_STATUSES, Tasks, Sweepers,
          At, Go, vars, exchange, ledger, progress, counters
  <1>1. CASE Accept(o)
    BY <1>1 DEF Accept, Reply
  <1>2. CASE Reject(o)
    BY <1>2 DEF Reject, Reply
  <1>3. CASE Lose(o)
    BY <1>3 DEF Lose
  <1>4. CASE Fill(o)
    BY <1>4 DEF Fill
  <1>5. CASE Expire(o)
    BY <1>5 DEF Expire
  <1>6. CASE ServerError(o)
    BY <1>6 DEF ServerError, Reply
  <1> QED  BY <1>1, <1>2, <1>3, <1>4, <1>5, <1>6 DEF Exchange

\* A row is deleted only after a terminal answer.
LEMMA AcknowledgeStep ==
  ASSUME IInv, NEW t \in Tasks, Acknowledge(t)
  PROVE  IInv'
  <1> USE TaskAssumption, ValueAssumption
      DEF IInv, StateOK, JobsPresent, JobsTrue, SentAfterReserve, DurableWhileLive,
          OrderState, Live, Ended, Known, PlacePc, SweepPc, UserPc, Job, NoJob, Status, TERMINAL_STATUSES, Tasks, Sweepers,
          At, Go, vars, exchange, ledger, progress, counters
  <1>1. CASE ReleaseBegin(t)
    BY <1>1 DEF ReleaseBegin, Terminal
  <1>2. CASE RetainBegin(t)
    BY <1>2 DEF RetainBegin, Terminal
  <1>3. CASE WriteDone(t)
    <2>1. job[t] \in Job /\ job[t].order \in Orders /\ job[t] # NoJob
      BY <1>3 DEF WriteDone
    <2>2. Resume(t) \in {"query", "done", "sweep", "idle"}
      BY DEF Resume
    <2>3. t \in Orders => Resume(t) \in {"query", "done"}
      BY DEF Resume
    <2>4. t \notin Orders => \A o \in Orders : pc'[o] = pc[o]
      BY <1>3 DEF WriteDone
    <2>5. StateOK'
      BY <1>3, <2>1, <2>2 DEF WriteDone
    <2>6. JobsPresent' /\ JobsTrue'
      BY <1>3, <2>1, <2>2 DEF WriteDone
    <2>7. SentAfterReserve'
      BY <1>3, <2>1, <2>3, <2>4 DEF WriteDone
    <2>8. DurableWhileLive'
      BY <1>3, <2>1 DEF WriteDone, Terminal
    <2> QED  BY <2>5, <2>6, <2>7, <2>8
  <1>4. CASE WriteFails(t)
    BY <1>4 DEF WriteFails, Abort
  <1> QED  BY <1>1, <1>2, <1>3, <1>4 DEF Acknowledge

\* A sweep reads orders the exchange knows.
LEMMA SweepStep ==
  ASSUME IInv, NEW s \in Sweepers, Sweep(s)
  PROVE  IInv'
  <1> USE TaskAssumption, ValueAssumption
      DEF IInv, StateOK, JobsPresent, JobsTrue, SentAfterReserve, DurableWhileLive,
          OrderState, Live, Ended, Known, PlacePc, SweepPc, UserPc, Job, NoJob, Status, TERMINAL_STATUSES, Tasks, Sweepers,
          At, Go, vars, exchange, ledger, progress, counters
  <1>1. CASE SweepBegin(s)
    BY <1>1 DEF SweepBegin
  <1>2. CASE SweepEnd(s)
    BY <1>2 DEF SweepEnd
  <1>3. CASE \E o \in Orders : SweepQuery(s, o)
    BY <1>3 DEF SweepQuery
  <1>4. CASE \E o \in Orders : SweepSkip(s, o)
    BY <1>4 DEF SweepSkip
  <1>5. CASE \E o \in Orders : SweepBreaks(s, o)
    BY <1>5 DEF SweepBreaks, Abort
  <1> QED  BY <1>1, <1>2, <1>3, <1>4, <1>5 DEF Sweep

\* A user reads or cancels orders the exchange knows.
LEMMA UserStep ==
  ASSUME IInv, NEW u \in Users, User(u)
  PROVE  IInv'
  <1> USE TaskAssumption, ValueAssumption
      DEF IInv, StateOK, JobsPresent, JobsTrue, SentAfterReserve, DurableWhileLive,
          OrderState, Live, Ended, Known, PlacePc, SweepPc, UserPc, Job, NoJob, Status, TERMINAL_STATUSES, Tasks, Sweepers,
          At, Go, vars, exchange, ledger, progress, counters
  <1>1. CASE AcknowledgeClient(u)
    BY <1>1 DEF AcknowledgeClient
  <1>2. CASE \E o \in Orders : UserQuery(u, o)
    BY <1>2 DEF UserQuery
  <1>3. CASE \E o \in Orders : UserCancel(u, o)
    BY <1>3 DEF UserCancel
  <1> QED  BY <1>1, <1>2, <1>3 DEF User

LEMMA NextIInv == IInv /\ [Next]_vars => IInv'
  <1> SUFFICES ASSUME IInv, [Next]_vars PROVE IInv'
    OBVIOUS
  <1>1. CASE \E o \in Orders : Place(o) \/ Exchange(o)
    BY <1>1, PlaceStep, ExchangeStep
  <1>2. CASE \E t \in Tasks : Acknowledge(t)
    BY <1>2, AcknowledgeStep
  <1>3. CASE \E s \in Sweepers : Sweep(s)
    BY <1>3, SweepStep
  <1>4. CASE \E u \in Users : User(u)
    BY <1>4, UserStep
  <1>5. CASE Crash
    BY <1>5, TaskAssumption, ValueAssumption
    DEF Crash, IInv, StateOK, JobsPresent, JobsTrue, SentAfterReserve, DurableWhileLive,
        PlacePc, Job, NoJob, Tasks, exchange
  <1>6. CASE Quiet \/ UNCHANGED vars
    BY <1>6
    DEF Quiet, IInv, StateOK, JobsPresent, JobsTrue, SentAfterReserve, DurableWhileLive,
        vars, exchange, ledger, progress, counters
  <1>7. CASE SessionChanges
    BY <1>7
    DEF SessionChanges, IInv, StateOK, JobsPresent, JobsTrue, SentAfterReserve, DurableWhileLive,
        exchange, ledger, counters
  <1> QED  BY <1>1, <1>2, <1>3, <1>4, <1>5, <1>6, <1>7 DEF Next

\* Every state the engine reaches satisfies the inductive invariant.
THEOREM Inductive == Spec => []IInv
  BY InitIInv, NextIInv, PTL DEF Spec

\* Every variable but the summed ledger keeps its type.
THEOREM StateTypes == Spec => []StateOK
  <1>1. IInv => StateOK  BY DEF IInv
  <1> QED  BY <1>1, Inductive, PTL

\* An order that may still take capital always has its row, unless it was
\* answered with an error that decided nothing: whatever crashes, a restart
\* restores its reservation (PreTradeRiskEngine._restore).
THEOREM Durability == Spec => []DurableWhileLive
  <1>1. IInv => DurableWhileLive  BY DEF IInv
  <1> QED  BY <1>1, Inductive, PTL

-------------------------------------------------------------------------------
(* Refinement of ReservationLifecycle *)

\* Steps that touch neither the rows nor the orders are invisible in the lifecycle.
LEMMA Invisible ==
  ASSUME UNCHANGED <<order, rows, denied>>
  PROVE  UNCHANGED Lifecycle!vars
  BY DEF Lifecycle!vars

\* An order that ends settles.
LEMMA Settles ==
  ASSUME StateOK, NEW o \in Orders, NEW status \in Ended, order[o] \in Live,
         order' = [order EXCEPT ![o] = status], rows' = rows, denied' = denied
  PROVE  Lifecycle!Settle(o)
  BY DEF StateOK, Lifecycle!Settle, Lifecycle!Live, Live, Ended, OrderState

\* An accepted order that rests at the exchange is as live as it was in transit.
LEMMA Rests ==
  ASSUME StateOK, NEW o \in Orders, order[o] = "flying",
         order' = [order EXCEPT ![o] = "NEW"], rows' = rows, denied' = denied
  PROVE  UNCHANGED Lifecycle!vars
  BY DEF StateOK, Lifecycle!vars, Live, OrderState

LEMMA InitLifecycle == Init => Lifecycle!Init
  BY DEF Init, Lifecycle!Init, Live

LEMMA PlaceRefines ==
  ASSUME IInv, NEW o \in Orders, Place(o)
  PROVE  [Lifecycle!Next]_(Lifecycle!vars)
  <1>1. CASE SaveReservation(o)
    <2>1. order[o] = "unsent"
      BY <1>1 DEF SaveReservation, At, IInv, SentAfterReserve
    <2>2. order' = [order EXCEPT ![o] = "flying"] /\ rows' = rows \cup {o} /\ denied' = denied
      BY <1>1 DEF SaveReservation
    <2>3. Lifecycle!Submit(o)
      BY <2>1, <2>2 DEF Lifecycle!Submit, IInv, StateOK, Live
    <2> QED  BY <2>3 DEF Lifecycle!Next
  <1>2. CASE ~SaveReservation(o)
    <2>1. UNCHANGED <<order, rows, denied>>
      BY <1>2 DEF Place, exchange, Refuse, ReserveBegin, AccountAnswers, AccountFails, Admit, Deny,
                  SaveFails, PostReturns, PostTimesOut, PostUnreadable, QueryAnswers, QueryFails,
                  GiveUp
    <2> QED  BY <2>1, Invisible
  <1> QED  BY <1>1, <1>2

LEMMA ExchangeRefines ==
  ASSUME IInv, NEW o \in Orders, Exchange(o)
  PROVE  [Lifecycle!Next]_(Lifecycle!vars)
  <1> USE DEF IInv, Live, Ended
  <1>1. CASE Accept(o)
    <2>1. PICK status \in {"NEW", "FILLED"} : order' = [order EXCEPT ![o] = status]
      BY <1>1 DEF Accept
    <2>2. order[o] = "flying" /\ rows' = rows /\ denied' = denied
      BY <1>1 DEF Accept
    <2>3. CASE status = "NEW"
      BY <2>1, <2>2, <2>3, Rests
    <2>4. CASE status = "FILLED"
      BY <2>1, <2>2, <2>4, Settles DEF Lifecycle!Next
    <2> QED  BY <2>1, <2>3, <2>4
  <1>2. CASE Reject(o) \/ Lose(o) \/ Fill(o) \/ Expire(o)
    <2>1. order[o] \in Live /\ rows' = rows /\ denied' = denied
      BY <1>2 DEF Reject, Lose, Fill, Expire
    <2>2. \E status \in Ended : order' = [order EXCEPT ![o] = status]
      BY <1>2 DEF Reject, Lose, Fill, Expire
    <2> QED  BY <2>1, <2>2, Settles DEF Lifecycle!Next
  <1>3. CASE ServerError(o)
    <2>1. Lifecycle!Deny(o)
      BY <1>3 DEF ServerError, Lifecycle!Deny, Lifecycle!Live
    <2> QED  BY <2>1 DEF Lifecycle!Next
  <1> QED  BY <1>1, <1>2, <1>3 DEF Exchange

LEMMA AcknowledgeRefines ==
  ASSUME IInv, NEW t \in Tasks, Acknowledge(t)
  PROVE  [Lifecycle!Next]_(Lifecycle!vars)
  <1>1. CASE WriteDone(t)
    <2>1. job[t] # NoJob /\ order' = order /\ denied' = denied
      BY <1>1 DEF WriteDone, At, IInv, JobsPresent, exchange
    <2>2. PICK o \in Orders : o = job[t].order
      BY <2>1 DEF IInv, StateOK, Job
    <2>3. order[o] # "unsent" /\ (Terminal(t) => order[o] \in Ended \/ o \in denied)
      BY <2>1, <2>2 DEF IInv, JobsTrue, Terminal
    <2>4. CASE Terminal(t)
      <3>1. rows' = rows \ {o}
        BY <1>1, <2>2, <2>4 DEF WriteDone
      <3>2. Lifecycle!Release(o)
        BY <2>1, <2>3, <2>4, <3>1 DEF Lifecycle!Release, Live, Ended
      <3> QED  BY <3>2 DEF Lifecycle!Next
    <2>5. CASE ~Terminal(t)
      <3>1. rows' = rows \cup {o}
        BY <1>1, <2>2, <2>5 DEF WriteDone
      <3>2. Lifecycle!Retain(o)
        BY <2>1, <2>3, <3>1 DEF Lifecycle!Retain
      <3> QED  BY <3>2 DEF Lifecycle!Next
    <2> QED  BY <2>4, <2>5
  <1>2. CASE ReleaseBegin(t) \/ RetainBegin(t) \/ WriteFails(t)
    BY <1>2, Invisible DEF ReleaseBegin, RetainBegin, WriteFails, exchange
  <1> QED  BY <1>1, <1>2 DEF Acknowledge

LEMMA SweepRefines ==
  ASSUME NEW s \in Sweepers, Sweep(s)
  PROVE  UNCHANGED Lifecycle!vars
  BY Invisible
  DEF Sweep, SweepBegin, SweepEnd, SweepQuery, SweepSkip, SweepBreaks, exchange

LEMMA UserRefines ==
  ASSUME IInv, NEW u \in Users, User(u)
  PROVE  [Lifecycle!Next]_(Lifecycle!vars)
  <1>1. CASE AcknowledgeClient(u) \/ \E o \in Orders : UserQuery(u, o)
    BY <1>1, Invisible DEF AcknowledgeClient, UserQuery, exchange
  <1>2. ASSUME NEW o \in Orders, UserCancel(u, o)
        PROVE  Lifecycle!Settle(o)
    BY <1>2, Settles DEF UserCancel, IInv, Live, Ended
  <1> QED  BY <1>1, <1>2 DEF User, Lifecycle!Next

\* The engine implements the lifecycle: an order is sent at most once, only
\* with its row stored, and the row is deleted only after the order has ended
\* or was answered with an error
\* (SaveReservation, WriteDone against place_order 528-553 and release 99-111).
THEOREM ImplementsLifecycle == Spec => LifecycleSpec
  <1>1. IInv /\ [Next]_vars => [Lifecycle!Next]_(Lifecycle!vars)
    <2> SUFFICES ASSUME IInv, [Next]_vars PROVE [Lifecycle!Next]_(Lifecycle!vars)
      OBVIOUS
    <2>1. CASE \E o \in Orders : Place(o) \/ Exchange(o)
      BY <2>1, PlaceRefines, ExchangeRefines
    <2>2. CASE \E t \in Tasks : Acknowledge(t)
      BY <2>2, AcknowledgeRefines
    <2>3. CASE \E s \in Sweepers : Sweep(s)
      BY <2>3, SweepRefines
    <2>4. CASE \E u \in Users : User(u)
      BY <2>4, UserRefines
    <2>5. CASE SessionChanges \/ Crash \/ Quiet \/ UNCHANGED vars
      BY <2>5, Invisible DEF SessionChanges, Crash, Quiet, vars, exchange
    <2> QED  BY <2>1, <2>2, <2>3, <2>4, <2>5 DEF Next
  <1> QED  BY <1>1, InitLifecycle, Inductive, PTL DEF Spec, LifecycleSpec, Lifecycle!Spec

-------------------------------------------------------------------------------
(* Sums: SumFunctionOnSet of the community module is a recursive function on *)
(* the subsets of a finite set; induction on those subsets unfolds it.        *)

Chosen(s) == CHOOSE x \in s : TRUE

\* iter sums f along the choices from every subset of S.
Sums(iter, f, S) ==
  iter = [s \in SUBSET S |-> IF s = {} THEN 0 ELSE f[Chosen(s)] + iter[s \ {Chosen(s)}]]

\* Induction over the subsets of a finite set: a set of subsets that has every
\* subset whose proper subsets it has, has them all.
LEMMA SubsetInduction ==
  ASSUME NEW S, IsFiniteSet(S), NEW T,
         \A R \in SUBSET S : (\A Q \in SUBSET R : Q # R => Q \in T) => R \in T
  PROVE  \A R \in SUBSET S : R \in T
  <1> DEFINE Bad == {R \in SUBSET S : R \notin T}
  <1> SUFFICES ASSUME Bad # {} PROVE FALSE
    OBVIOUS
  <1>1. Bad \subseteq FiniteSubsetsOf(S)
    BY FS_Subset DEF FiniteSubsetsOf
  <1>2. \E R \in Bad : \A Q \in Bad : ~ (<<Q, R>> \in StrictSubsetOrdering(S))
    <2> HIDE DEF Bad
    <2> QED BY <1>1, FS_StrictSubsetOrderingWellFounded, WFMin
  <1>3. PICK R \in Bad : \A Q \in Bad : ~ (<<Q, R>> \in StrictSubsetOrdering(S))
    BY <1>2
  <1>4. \A Q \in SUBSET R : Q # R => Q \in T
    BY <1>3 DEF StrictSubsetOrdering
  <1> QED BY <1>3, <1>4

LEMMA ChosenIn == \A s : s # {} => Chosen(s) \in s
  BY DEF Chosen

\* Two such functions, for a set and a subset of it, agree on the subset.
LEMMA SumsAgree ==
  ASSUME NEW f, NEW S, IsFiniteSet(S), NEW g, Sums(g, f, S),
         NEW R \in SUBSET S, NEW h, Sums(h, f, R)
  PROVE  \A s \in SUBSET R : g[s] = h[s]
  <1> DEFINE T == {s \in SUBSET R : g[s] = h[s]}
  <1>1. IsFiniteSet(R)
    BY FS_Subset
  <1>2. ASSUME NEW s \in SUBSET R, \A q \in SUBSET s : q # s => q \in T
        PROVE  g[s] = h[s]
    <2>1. CASE s = {}
      BY <2>1 DEF Sums
    <2>2. CASE s # {}
      <3>1. Chosen(s) \in s /\ s \ {Chosen(s)} # s /\ s \ {Chosen(s)} \in SUBSET s
        BY <2>2, ChosenIn
      <3>2. g[s \ {Chosen(s)}] = h[s \ {Chosen(s)}]
        BY <1>2, <3>1
      <3>3. g[s] = f[Chosen(s)] + g[s \ {Chosen(s)}]
        BY <2>2 DEF Sums
      <3>4. h[s] = f[Chosen(s)] + h[s \ {Chosen(s)}]
        BY <2>2 DEF Sums
      <3> QED BY <3>2, <3>3, <3>4
    <2> QED BY <2>1, <2>2
  <1>3. \A s \in SUBSET R : s \in T
    <2>1. \A s \in SUBSET R : (\A q \in SUBSET s : q # s => q \in T) => s \in T
      BY <1>2
    <2> HIDE DEF T
    <2> QED BY <1>1, <2>1, SubsetInduction
  <1> QED BY <1>3

\* Such an iter exists.
LEMMA SumsExist ==
  ASSUME NEW f, NEW S, IsFiniteSet(S)
  PROVE  \E g : Sums(g, f, S)
  <1> DEFINE T == {R \in SUBSET S : \E g : Sums(g, f, R)}
             It(q) == CHOOSE g : Sums(g, f, q)
  <1>1. ASSUME NEW R \in SUBSET S, \A Q \in SUBSET R : Q # R => Q \in T
        PROVE  R \in T
    <2> DEFINE g == [s \in SUBSET R |-> IF s = {} THEN 0 ELSE f[Chosen(s)] + It(s \ {Chosen(s)})[s \ {Chosen(s)}]]
    <2>1. ASSUME NEW s \in SUBSET R, s # {}
          PROVE  g[s \ {Chosen(s)}] = It(s \ {Chosen(s)})[s \ {Chosen(s)}]
      <3> DEFINE q == s \ {Chosen(s)}
      <3>1. Chosen(s) \in s /\ q \in SUBSET R /\ q # R
        BY <2>1, ChosenIn
      <3>2. Sums(It(q), f, q)
        BY <1>1, <3>1
      <3>3. CASE q = {}
        BY <3>1, <3>2, <3>3 DEF Sums
      <3>4. CASE q # {}
        <4> DEFINE p == q \ {Chosen(q)}
        <4>1. Chosen(q) \in q /\ p \in SUBSET R /\ p # R /\ p \in SUBSET q
          BY <3>1, <3>4, ChosenIn
        <4>2. Sums(It(p), f, p)
          BY <1>1, <4>1
        <4>3. IsFiniteSet(q)
          BY <3>1, FS_Subset
        <4>4. It(q)[p] = It(p)[p]
          <5> HIDE DEF q, p, It
          <5> QED BY <3>2, <4>1, <4>2, <4>3, SumsAgree
        <4>5. It(q)[q] = f[Chosen(q)] + It(q)[p]
          <5> HIDE DEF It
          <5> QED BY <3>2, <3>4 DEF Sums
        <4>6. g[q] = f[Chosen(q)] + It(p)[p]
          BY <3>1, <3>4
        <4> QED BY <4>4, <4>5, <4>6
      <3> QED BY <3>3, <3>4
    <2>2. \A s \in SUBSET R : g[s] = IF s = {} THEN 0 ELSE f[Chosen(s)] + g[s \ {Chosen(s)}]
      <3> SUFFICES ASSUME NEW s \in SUBSET R
                   PROVE  g[s] = IF s = {} THEN 0 ELSE f[Chosen(s)] + g[s \ {Chosen(s)}]
        OBVIOUS
      <3>1. CASE s = {}
        BY <3>1
      <3>2. CASE s # {}
        <4>1. g[s] = f[Chosen(s)] + It(s \ {Chosen(s)})[s \ {Chosen(s)}]
          BY <3>2
        <4>2. g[s \ {Chosen(s)}] = It(s \ {Chosen(s)})[s \ {Chosen(s)}]
          BY <3>2, <2>1
        <4> HIDE DEF g, It
        <4> QED BY <3>2, <4>1, <4>2
      <3> QED BY <3>1, <3>2
    <2>3. g = [s \in SUBSET R |-> g[s]]
      OBVIOUS
    <2>4. Sums(g, f, R)
      <3> HIDE DEF g
      <3> QED BY <2>2, <2>3 DEF Sums
    <2> QED BY <2>4
  <1>2. \A R \in SUBSET S : R \in T
    <2>1. \A R \in SUBSET S : (\A Q \in SUBSET R : Q # R => Q \in T) => R \in T
      BY <1>1
    <2> HIDE DEF T
    <2> QED BY <2>1, SubsetInduction
  <1> QED BY <1>2

\* The community module's sum is the value of such a function.
LEMMA SumUnfolds ==
  ASSUME NEW f, NEW S, IsFiniteSet(S)
  PROVE  \E g : Sums(g, f, S) /\ SumFunctionOnSet(f, S) = g[S]
  <1> DEFINE g == CHOOSE iter : Sums(iter, f, S)
  <1>1. SumFunctionOnSet(f, S) = g[S]
    BY DEF SumFunctionOnSet, FoldFunctionOnSet, MapThenFoldSet, Sums, Chosen
  <1>2. Sums(g, f, S)
    BY SumsExist
  <1> QED BY <1>1, <1>2

LEMMA SumEmpty == ASSUME NEW f PROVE SumFunctionOnSet(f, {}) = 0
  <1>1. PICK g : Sums(g, f, {}) /\ SumFunctionOnSet(f, {}) = g[{}]
    BY SumUnfolds, FS_EmptySet
  <1> QED BY <1>1 DEF Sums

\* A sum is taken apart at the chosen element.
LEMMA SumStep ==
  ASSUME NEW f, NEW S, IsFiniteSet(S), S # {}
  PROVE  SumFunctionOnSet(f, S) = f[Chosen(S)] + SumFunctionOnSet(f, S \ {Chosen(S)})
  <1> DEFINE R == S \ {Chosen(S)}
  <1>1. IsFiniteSet(R) /\ R \in SUBSET S
    BY FS_Subset
  <1>2. PICK g : Sums(g, f, S) /\ SumFunctionOnSet(f, S) = g[S]
    BY SumUnfolds
  <1>3. PICK h : Sums(h, f, R) /\ SumFunctionOnSet(f, R) = h[R]
    <2> HIDE DEF R
    <2> QED BY <1>1, SumUnfolds
  <1>4. g[R] = h[R]
    <2> HIDE DEF R
    <2> QED BY <1>1, <1>2, <1>3, SumsAgree
  <1>5. g[S] = f[Chosen(S)] + g[R]
    BY <1>2 DEF Sums
  <1> QED BY <1>2, <1>3, <1>4, <1>5

\* The sum of naturals is a natural, and an element may be taken out of it first.
LEMMA SumRemove ==
  ASSUME NEW S, IsFiniteSet(S), NEW f, \A x \in S : f[x] \in Nat
  PROVE  /\ SumFunctionOnSet(f, S) \in Nat
         /\ \A x \in S : SumFunctionOnSet(f, S) = f[x] + SumFunctionOnSet(f, S \ {x})
  <1> DEFINE T == {R \in SUBSET S : SumFunctionOnSet(f, R) \in Nat /\ \A x \in R : SumFunctionOnSet(f, R) = f[x] + SumFunctionOnSet(f, R \ {x})}
  <1>1. ASSUME NEW R \in SUBSET S, \A Q \in SUBSET R : Q # R => Q \in T
        PROVE  R \in T
    <2>1. CASE R = {}
      BY <2>1, SumEmpty
    <2>2. CASE R # {}
      <3> DEFINE c == Chosen(R)
      <3>1. c \in R /\ f[c] \in Nat
        BY <2>2, ChosenIn
      <3>2. SumFunctionOnSet(f, R) = f[c] + SumFunctionOnSet(f, R \ {c})
        BY <2>2, FS_Subset, SumStep
      <3> HIDE DEF c
      <3>3. SumFunctionOnSet(f, R \ {c}) \in Nat
        BY <1>1, <3>1
      <3>4. ASSUME NEW x \in R, x # c
            PROVE  SumFunctionOnSet(f, R) = f[x] + SumFunctionOnSet(f, R \ {x})
        <4>1. SumFunctionOnSet(f, R \ {c}) = f[x] + SumFunctionOnSet(f, (R \ {c}) \ {x})
          BY <1>1, <3>1, <3>4
        <4>2. SumFunctionOnSet(f, R \ {x}) = f[c] + SumFunctionOnSet(f, (R \ {x}) \ {c})
          BY <1>1, <3>1, <3>4
        <4>3. (R \ {c}) \ {x} = (R \ {x}) \ {c} /\ (R \ {c}) \ {x} \in SUBSET R /\ (R \ {c}) \ {x} # R
          BY <3>1
        <4>4. SumFunctionOnSet(f, (R \ {c}) \ {x}) \in Nat /\ f[x] \in Nat
          BY <1>1, <4>3
        <4>5. \A p, q, z \in Nat : p + (q + z) = q + (p + z)
          OBVIOUS
        <4>6. SumFunctionOnSet(f, R) = f[c] + (f[x] + SumFunctionOnSet(f, (R \ {c}) \ {x}))
          BY <3>2, <4>1
        <4>7. SumFunctionOnSet(f, R \ {x}) = f[c] + SumFunctionOnSet(f, (R \ {c}) \ {x})
          BY <4>2, <4>3
        <4> QED BY <3>1, <4>4, <4>5, <4>6, <4>7
      <3> QED BY <3>1, <3>2, <3>3, <3>4
    <2> QED BY <2>1, <2>2
  <1>2. \A R \in SUBSET S : R \in T
    <2>1. \A R \in SUBSET S : (\A Q \in SUBSET R : Q # R => Q \in T) => R \in T
      BY <1>1
    <2> HIDE DEF T
    <2> QED BY <2>1, SubsetInduction
  <1> QED BY <1>2

\* A sum splits into the sums of two parts.
LEMMA SumSplit ==
  ASSUME NEW S, IsFiniteSet(S), NEW f, \A x \in S : f[x] \in Nat
  PROVE  \A R \in SUBSET S :
           SumFunctionOnSet(f, S) = SumFunctionOnSet(f, R) + SumFunctionOnSet(f, S \ R)
  <1> DEFINE T == {R \in SUBSET S : SumFunctionOnSet(f, S) = SumFunctionOnSet(f, R) + SumFunctionOnSet(f, S \ R)}
  <1>0. \A R \in SUBSET S : SumFunctionOnSet(f, R) \in Nat
    BY SumRemove, FS_Subset
  <1>1. ASSUME NEW R \in SUBSET S, \A Q \in SUBSET R : Q # R => Q \in T
        PROVE  R \in T
    <2>1. CASE R = {}
      BY <1>0, <2>1, SumEmpty
    <2>2. CASE R # {}
      <3>1. PICK x \in R : TRUE
        BY <2>2
      <3> DEFINE Q == R \ {x}
                 U == S \ Q
      <3>2. Q \in SUBSET S /\ U \in SUBSET S /\ x \in U /\ U \ {x} = S \ R
        BY <3>1
      <3>3. IsFiniteSet(R) /\ IsFiniteSet(U)
        BY FS_Subset
      <3>4. SumFunctionOnSet(f, S) = SumFunctionOnSet(f, Q) + SumFunctionOnSet(f, U)
        BY <1>1, <3>1
      <3>5. SumFunctionOnSet(f, R) = f[x] + SumFunctionOnSet(f, Q)
        BY <3>1, <3>3, SumRemove
      <3> HIDE DEF Q, U
      <3>6. SumFunctionOnSet(f, U) = f[x] + SumFunctionOnSet(f, S \ R)
        BY <3>2, <3>3, SumRemove
      <3>7. f[x] \in Nat /\ SumFunctionOnSet(f, Q) \in Nat /\ SumFunctionOnSet(f, S \ R) \in Nat
        BY <1>0, <3>2
      <3>8. \A p, q, z \in Nat : q + (p + z) = (p + q) + z
        OBVIOUS
      <3>9. SumFunctionOnSet(f, S) = SumFunctionOnSet(f, R) + SumFunctionOnSet(f, S \ R)
        BY <3>4, <3>5, <3>6, <3>7, <3>8
      <3> QED BY <3>9
    <2> QED BY <2>1, <2>2
  <1>2. \A R \in SUBSET S : R \in T
    <2>1. \A R \in SUBSET S : (\A Q \in SUBSET R : Q # R => Q \in T) => R \in T
      BY <1>1
    <2> HIDE DEF T
    <2> QED BY <2>1, SubsetInduction
  <1> QED BY <1>2

-------------------------------------------------------------------------------
(* Sums of amounts *)

\* A finite set of reservations adds up to a natural number ...
LEMMA TotalNat ==
  ASSUME NEW S \in SUBSET Orders, IsFiniteSet(S)
  PROVE  Total(S) \in Nat
  <1>1. \A o \in S : Amount[o] \in Nat
    BY ValueAssumption
  <1> QED  BY <1>1, SumRemove DEF Total

\* ... from which one reservation's amount can be taken out,
LEMMA TotalRemove ==
  ASSUME NEW S \in SUBSET Orders, IsFiniteSet(S), NEW o \in S
  PROVE  Total(S) = Amount[o] + Total(S \ {o}) /\ Total(S \ {o}) \in Nat
  <1>1. \A p \in S : Amount[p] \in Nat
    BY ValueAssumption
  <1>2. IsFiniteSet(S \ {o}) /\ S \ {o} \in SUBSET Orders
    BY FS_RemoveElement
  <1>3. Total(S \ {o}) \in Nat
    BY <1>2, TotalNat
  <1> QED  BY <1>1, <1>3, SumRemove DEF Total

\* ... to which another's can be added,
LEMMA TotalAdd ==
  ASSUME NEW S \in SUBSET Orders, IsFiniteSet(S), NEW o \in Orders, o \notin S
  PROVE  Total(S \cup {o}) = Amount[o] + Total(S)
  <1>1. IsFiniteSet(S \cup {o}) /\ (S \cup {o}) \ {o} = S
    BY FS_AddElement
  <1> QED  BY <1>1, TotalRemove

\* ... and which is the sum of any part and of the rest.
LEMMA TotalSplit ==
  ASSUME NEW S \in SUBSET Orders, IsFiniteSet(S), NEW R \in SUBSET S
  PROVE  /\ Total(S) = Total(R) + Total(S \ R)
         /\ Total(R) \in Nat /\ Total(S \ R) \in Nat
         /\ Total(R) <= Total(S)
  <1>1. \A p \in S : Amount[p] \in Nat
    BY ValueAssumption
  <1>2. Total(S) = Total(R) + Total(S \ R)
    BY <1>1, SumSplit DEF Total
  <1>3. IsFiniteSet(R) /\ IsFiniteSet(S \ R)
    BY FS_Subset
  <1>4. Total(R) \in Nat /\ Total(S \ R) \in Nat
    BY <1>3, TotalNat
  <1> QED  BY <1>2, <1>4
-------------------------------------------------------------------------------
(* The ledger *)

\* In transit, and not given up because of an error answer.
Flying == {o \in Orders : order[o] = "flying" /\ o \notin denied}
Admitted == Flying \cup {o \in Orders : pc[o] = "saving"}

\* Whoever is between taking the key's lock and releasing it holds it.
Exclusive ==
    \A t \in Tasks : pc[t] \in {"loading", "checking", "saving", "writing"} => lock = t

RowsSent == \A o \in rows : order[o] # "unsent"

\* A reservation is counted from its admission until its order has left transit.
Held ==
    \A o \in Orders :
        /\ pc[o] \in {"idle", "loading", "checking"} => o \notin holding
        /\ pc[o] = "saving" \/ (order[o] = "flying" /\ o \notin denied) => o \in holding

Control == Exclusive /\ RowsSent /\ Held

\* The account answer is stale only by what the exchange has taken since from
\* reservations the ledger still counts.
SnapshotCovers ==
    repeats = {} /\ denied = {} =>
        \A o \in Orders : pc[o] = "checking" => snapshot <= exchFree + Total(holding \ Flying)

\* The orders admitted but not yet at the exchange fit into what it has free.
Committed == repeats = {} /\ denied = {} => Total(Admitted) <= exchFree

Sound ==
    /\ reserved \in Nat /\ IsFiniteSet(rows) /\ IsFiniteSet(holding)
    /\ LedgerExact /\ SnapshotCovers /\ Committed

LEMMA InitControl == Init => Control
  BY TaskAssumption DEF Init, Control, Exclusive, RowsSent, Held, Tasks

\* reserve takes the lock before it reads and keeps it until the row is stored.
LEMMA PlaceControl ==
  ASSUME IInv, Control, NEW o \in Orders, Place(o)
  PROVE  Control'
  <1> USE TaskAssumption
      DEF IInv, StateOK, SentAfterReserve, Control, Exclusive, RowsSent, Held, Tasks, Sweepers,
          At, Go, exchange, ledger, progress, counters
  <1>1. CASE Refuse(o)
    BY <1>1 DEF Refuse
  <1>2. CASE ReserveBegin(o)
    BY <1>2 DEF ReserveBegin
  <1>3. CASE AccountAnswers(o)
    BY <1>3 DEF AccountAnswers
  <1>4. CASE AccountFails(o)
    BY <1>4 DEF AccountFails
  <1>5. CASE Admit(o)
    BY <1>5 DEF Admit
  <1>6. CASE Deny(o)
    BY <1>6 DEF Deny
  <1>7. CASE SaveReservation(o)
    BY <1>7 DEF SaveReservation
  <1>8. CASE SaveFails(o)
    BY <1>8 DEF SaveFails
  <1>9. CASE PostReturns(o)
    BY <1>9 DEF PostReturns
  <1>10. CASE PostTimesOut(o)
    BY <1>10 DEF PostTimesOut
  <1>11. CASE PostUnreadable(o)
    BY <1>11 DEF PostUnreadable
  <1>12. CASE QueryAnswers(o)
    BY <1>12 DEF QueryAnswers
  <1>13. CASE QueryFails(o)
    BY <1>13 DEF QueryFails
  <1>14. CASE GiveUp(o)
    BY <1>14 DEF GiveUp
  <1> QED  BY <1>1, <1>2, <1>3, <1>4, <1>5, <1>6, <1>7, <1>8, <1>9, <1>10, <1>11, <1>12, <1>13, <1>14 DEF Place

\* The exchange touches neither locks nor rows.
LEMMA ExchangeControl ==
  ASSUME IInv, Control, NEW o \in Orders, Exchange(o)
  PROVE  Control'
  <1> USE TaskAssumption
      DEF IInv, StateOK, SentAfterReserve, Control, Exclusive, RowsSent, Held, Tasks, Sweepers,
          At, Go, exchange, ledger, progress, counters
  <1>1. CASE Accept(o)
    BY <1>1 DEF Accept
  <1>2. CASE Reject(o)
    BY <1>2 DEF Reject
  <1>3. CASE Lose(o)
    BY <1>3 DEF Lose
  <1>4. CASE Fill(o)
    BY <1>4 DEF Fill
  <1>5. CASE Expire(o)
    BY <1>5 DEF Expire
  <1>6. CASE ServerError(o)
    BY <1>6 DEF ServerError, Reply
  <1> QED  BY <1>1, <1>2, <1>3, <1>4, <1>5, <1>6 DEF Exchange

\* A release is about an order that has ended: it is neither being saved nor in transit.
LEMMA AcknowledgeControl ==
  ASSUME IInv, Control, NEW t \in Tasks, Acknowledge(t)
  PROVE  Control'
  <1> USE TaskAssumption
      DEF IInv, StateOK, SentAfterReserve, JobsPresent, JobsTrue, Control, Exclusive, RowsSent, Held, Tasks, Sweepers,
          Job, Ended, At, Go, exchange, ledger, progress, counters
  <1>1. CASE ReleaseBegin(t)
    <2>1. /\ job[t].order \in Orders /\ order[job[t].order] # "unsent"
          /\ order[job[t].order] \in Ended \/ job[t].order \in denied
      BY <1>1 DEF ReleaseBegin, Terminal
    <2>2. Exclusive' /\ RowsSent'
      BY <1>1 DEF ReleaseBegin
    <2>3. Held'
      BY <1>1, <2>1 DEF ReleaseBegin
    <2> QED  BY <2>2, <2>3
  <1>2. CASE RetainBegin(t)
    BY <1>2 DEF RetainBegin
  <1>3. CASE WriteDone(t)
    <2>1. job[t].order \in Orders /\ order[job[t].order] # "unsent"
      BY <1>3 DEF WriteDone
    <2>2. Resume(t) \in {"query", "done", "sweep", "idle"} /\ (t \in Orders => Resume(t) \in {"query", "done"})
      BY DEF Resume
    <2>3. Exclusive' /\ RowsSent'
      BY <1>3, <2>1, <2>2 DEF WriteDone
    <2>4. Held'
      BY <1>3, <2>2 DEF WriteDone
    <2> QED  BY <2>3, <2>4
  <1>4. CASE WriteFails(t)
    BY <1>4 DEF WriteFails, Abort
  <1> QED  BY <1>1, <1>2, <1>3, <1>4 DEF Acknowledge

LEMMA SweepControl ==
  ASSUME IInv, Control, NEW s \in Sweepers, Sweep(s)
  PROVE  Control'
  <1> USE TaskAssumption
      DEF IInv, StateOK, SentAfterReserve, Control, Exclusive, RowsSent, Held, Tasks, Sweepers,
          At, Go, exchange, ledger, progress, counters
  <1>1. CASE SweepBegin(s) \/ SweepEnd(s)
    BY <1>1 DEF SweepBegin, SweepEnd
  <1>2. CASE \E o \in Orders : SweepQuery(s, o)
    BY <1>2 DEF SweepQuery
  <1>3. CASE \E o \in Orders : SweepSkip(s, o)
    BY <1>3 DEF SweepSkip
  <1>4. CASE \E o \in Orders : SweepBreaks(s, o)
    BY <1>4 DEF SweepBreaks, Abort
  <1> QED  BY <1>1, <1>2, <1>3, <1>4 DEF Sweep

LEMMA UserControl ==
  ASSUME IInv, Control, NEW u \in Users, User(u)
  PROVE  Control'
  <1> USE TaskAssumption
      DEF IInv, StateOK, SentAfterReserve, Control, Exclusive, RowsSent, Held, Tasks, Sweepers,
          At, Go, exchange, ledger, progress, counters
  <1>1. CASE AcknowledgeClient(u)
    BY <1>1 DEF AcknowledgeClient
  <1>2. CASE \E o \in Orders : UserQuery(u, o)
    BY <1>2 DEF UserQuery
  <1>3. CASE \E o \in Orders : UserCancel(u, o)
    BY <1>3 DEF UserCancel
  <1> QED  BY <1>1, <1>2, <1>3 DEF User

LEMMA NextControl == IInv /\ Control /\ [Next]_vars => Control'
  <1> SUFFICES ASSUME IInv, Control, [Next]_vars PROVE Control'
    OBVIOUS
  <1>1. CASE \E o \in Orders : Place(o) \/ Exchange(o)
    BY <1>1, PlaceControl, ExchangeControl
  <1>2. CASE \E t \in Tasks : Acknowledge(t)
    BY <1>2, AcknowledgeControl
  <1>3. CASE \E s \in Sweepers : Sweep(s)
    BY <1>3, SweepControl
  <1>4. CASE \E u \in Users : User(u)
    BY <1>4, UserControl
  <1>5. CASE Crash
    BY <1>5, TaskAssumption
    DEF Crash, IInv, SentAfterReserve, DurableWhileLive, Live, Control, Exclusive, RowsSent, Held, Tasks, exchange
  <1>6. CASE Quiet \/ UNCHANGED vars
    BY <1>6 DEF Quiet, Control, Exclusive, RowsSent, Held, vars, exchange, ledger
  <1>7. CASE SessionChanges
    BY <1>7 DEF SessionChanges, Control, Exclusive, RowsSent, Held, exchange, ledger
  <1> QED  BY <1>1, <1>2, <1>3, <1>4, <1>5, <1>6, <1>7 DEF Next

\* What is in transit or being saved is counted; the sums range over orders.
LEMMA SetsInOrders ==
  ASSUME IInv, Control
  PROVE  /\ rows \in SUBSET Orders /\ holding \in SUBSET Orders
         /\ Flying \subseteq Admitted /\ Admitted \subseteq holding
         /\ exchFree \in Int /\ snapshot \in Int
  BY DEF IInv, StateOK, Control, Held, Flying, Admitted

\* Steps that leave the ledger alone, take nothing from the exchange's balance,
\* and admit or read nothing.
LEMMA SoundKept ==
  ASSUME IInv, Control, Sound, IInv', Control',
         UNCHANGED <<reserved, holding, repeats>>, denied \subseteq denied', IsFiniteSet(rows'),
         exchFree' >= exchFree, Flying' \subseteq Flying, Admitted' \subseteq Admitted,
         (\A o \in Orders : pc'[o] # "checking")
           \/ (snapshot' = snapshot /\ \A o \in Orders : pc'[o] = "checking" => pc[o] = "checking")
  PROVE  Sound'
  <1>0. /\ holding \in SUBSET Orders /\ Admitted \subseteq holding
        /\ exchFree \in Int /\ exchFree' \in Int /\ snapshot \in Int
    BY SetsInOrders DEF IInv, StateOK
  <1>1. LedgerExact'
    BY DEF Sound, LedgerExact, Total
  <1>2. SnapshotCovers'
    <2>1. SUFFICES ASSUME repeats = {}, denied' = {}, NEW o \in Orders, pc'[o] = "checking"
                   PROVE  snapshot' <= exchFree' + Total(holding \ Flying')
      BY DEF SnapshotCovers, Total
    <2>2. snapshot' = snapshot /\ snapshot <= exchFree + Total(holding \ Flying)
      BY <2>1 DEF Sound, SnapshotCovers
    <2>3. holding \ Flying \in SUBSET (holding \ Flying') /\ IsFiniteSet(holding \ Flying')
      BY FS_Difference DEF Sound
    <2>4. /\ Total(holding \ Flying) <= Total(holding \ Flying')
          /\ Total(holding \ Flying) \in Nat /\ Total(holding \ Flying') \in Nat
      BY <1>0, <2>3, TotalSplit, TotalNat
    <2> QED  BY <1>0, <2>2, <2>4
  <1>3. Committed'
    <2>1. SUFFICES ASSUME repeats = {}, denied' = {} PROVE Total(Admitted') <= exchFree'
      BY DEF Committed, Total
    <2>2. Total(Admitted) <= exchFree
      BY <2>1 DEF Sound, Committed
    <2>3. Total(Admitted') <= Total(Admitted) /\ Total(Admitted') \in Nat /\ Total(Admitted) \in Nat
      BY <1>0, FS_Subset, TotalSplit, TotalNat DEF Sound
    <2> QED  BY <1>0, <2>2, <2>3
  <1> QED  BY <1>1, <1>2, <1>3 DEF Sound

LEMMA InitSound == Init => Sound
  <1> SUFFICES ASSUME Init PROVE Sound
    OBVIOUS
  <1>1. holding = {} /\ Admitted = {} /\ Flying = {}
    BY TaskAssumption DEF Init, Admitted, Flying, Tasks
  <1>2. Total({}) = 0 /\ IsFiniteSet({})
    BY SumEmpty, FS_EmptySet DEF Total
  <1> QED  BY <1>1, <1>2, ValueAssumption
           DEF Init, Sound, LedgerExact, SnapshotCovers, Committed, Tasks

\* place_order keeps the sums: Admit charges within what is free, SaveFails
\* takes its own charge back, AccountAnswers reads a balance that is current.
LEMMA PlaceSound ==
  ASSUME IInv, Control, Sound, IInv', Control', NEW o \in Orders, Place(o)
  PROVE  Sound'
  <1>0. /\ rows \in SUBSET Orders /\ holding \in SUBSET Orders
        /\ Flying \subseteq Admitted /\ Admitted \subseteq holding
        /\ exchFree \in Int /\ snapshot \in Int /\ reserved \in Nat
        /\ IsFiniteSet(holding) /\ IsFiniteSet(rows) /\ Amount[o] \in Nat \ {0}
    BY SetsInOrders, ValueAssumption DEF Sound
  <1>1. CASE AccountAnswers(o)
    <2>1. /\ snapshot' = exchFree /\ exchFree' = exchFree /\ Flying' = Flying /\ Admitted' \subseteq Admitted
          /\ UNCHANGED <<reserved, holding, repeats, denied, rows>>
      BY <1>1 DEF AccountAnswers, Go, At, exchange, ledger, Flying, Admitted, IInv, StateOK
    <2>2. holding \ Flying \in SUBSET Orders /\ IsFiniteSet(holding \ Flying)
      BY <1>0, FS_Difference
    <2>3. Total(holding \ Flying) \in Nat
      BY <2>2, TotalNat
    <2>4. SnapshotCovers'
      BY <1>0, <2>1, <2>3 DEF SnapshotCovers, Total
    <2>5. Total(Admitted') <= Total(Admitted) /\ Total(Admitted') \in Nat /\ Total(Admitted) \in Nat
      BY <1>0, <2>1, FS_Subset, TotalSplit, TotalNat
    <2>6. Committed'
      BY <1>0, <2>1, <2>5 DEF Sound, Committed, Total
    <2> QED  BY <2>1, <2>4, <2>6 DEF Sound, LedgerExact, Total
  <1>2. CASE Admit(o)
    <2>1. /\ reserved' = reserved + Amount[o] /\ holding' = holding \cup {o}
          /\ UNCHANGED <<repeats, denied, exchFree, rows>> /\ Flying' = Flying
      BY <1>2 DEF Admit, exchange, Flying
    <2>2. lock = o /\ o \notin holding
      BY <1>2 DEF Admit, At, Control, Exclusive, Held, Tasks
    <2>3. \A p \in Orders : pc[p] # "saving" /\ pc'[p] # "checking" /\ (pc'[p] = "saving" => p = o)
      BY <1>2, <2>2, TaskAssumption DEF Admit, At, Go, Control, Exclusive, IInv, StateOK, Tasks
    <2>4. Admitted = Flying /\ Admitted' \subseteq Flying \cup {o}
      BY <2>1, <2>3 DEF Admitted, Flying
    <2>5. IsFiniteSet(holding') /\ Total(holding') = Amount[o] + Total(holding) /\ Total(holding) \in Nat
      BY <1>0, <2>1, <2>2, FS_AddElement, TotalAdd, TotalNat
    <2>6. LedgerExact'
      BY <1>0, <2>1, <2>5 DEF Sound, LedgerExact, Total
    <2>7. SnapshotCovers'
      BY <2>3 DEF SnapshotCovers
    <2>8. Committed'
      <3>1. SUFFICES ASSUME repeats = {}, denied = {} PROVE Total(Admitted') <= exchFree
        BY <2>1 DEF Committed, Total
      <3>2. reserved = Total(holding) /\ snapshot <= exchFree + Total(holding \ Flying)
        BY <1>2, <3>1 DEF Sound, LedgerExact, SnapshotCovers, Admit, At
      <3>3. /\ Total(holding) = Total(Flying) + Total(holding \ Flying)
            /\ Total(Flying) \in Nat /\ Total(holding \ Flying) \in Nat
        BY <1>0, <2>4, TotalSplit
      <3>4. Amount[o] <= snapshot - reserved
        BY <1>2 DEF Admit, Affordable
      <3>5. /\ IsFiniteSet(Flying) /\ o \notin Flying /\ Flying \in SUBSET Orders
            /\ IsFiniteSet(Flying \cup {o})
        BY <1>0, <2>2, FS_Subset, FS_AddElement
      <3>6. Total(Flying \cup {o}) = Amount[o] + Total(Flying)
        BY <3>5, TotalAdd
      <3>7. /\ Total(Admitted') <= Total(Flying \cup {o})
            /\ Total(Admitted') \in Nat /\ Total(Flying \cup {o}) \in Nat
        BY <2>4, <3>5, TotalSplit, TotalNat
      <3> QED  BY <1>0, <3>2, <3>3, <3>4, <3>6, <3>7
    <2> QED  BY <1>0, <2>1, <2>5, <2>6, <2>7, <2>8 DEF Sound
  <1>3. CASE SaveFails(o)
    <2>1. /\ reserved' = Monus(reserved, Amount[o]) /\ holding' = holding \ {o}
          /\ UNCHANGED <<repeats, denied, exchFree, rows>> /\ Flying' = Flying
      BY <1>3 DEF SaveFails, exchange, Flying
    <2>2. lock = o /\ o \in holding /\ order[o] = "unsent"
      BY <1>3 DEF SaveFails, At, Control, Exclusive, Held, Tasks, IInv, SentAfterReserve
    <2>3. \A p \in Orders : pc'[p] # "checking" /\ (pc'[p] = "saving" => pc[p] = "saving")
      BY <1>3, <2>2, TaskAssumption DEF SaveFails, At, Go, Control, Exclusive, IInv, StateOK, Tasks
    <2>4. Admitted' \subseteq Admitted
      BY <2>1, <2>3 DEF Admitted, Flying
    <2>5. /\ Total(holding) = Amount[o] + Total(holding')
          /\ Total(holding') \in Nat /\ IsFiniteSet(holding')
      BY <1>0, <2>1, <2>2, TotalRemove, FS_RemoveElement
    <2>6. LedgerExact'
      BY <1>0, <2>1, <2>5 DEF Sound, LedgerExact, Total, Monus
    <2>7. SnapshotCovers'
      BY <2>3 DEF SnapshotCovers
    <2>8. Total(Admitted') <= Total(Admitted) /\ Total(Admitted') \in Nat /\ Total(Admitted) \in Nat
      BY <1>0, <2>4, FS_Subset, TotalSplit, TotalNat
    <2>9. Committed'
      BY <1>0, <2>1, <2>8 DEF Sound, Committed, Total
    <2>10. reserved' \in Nat
      BY <1>0, <2>1 DEF Monus
    <2> QED  BY <1>0, <2>1, <2>5, <2>6, <2>7, <2>9, <2>10 DEF Sound
  <1>4. CASE SaveReservation(o)
    <2>1. /\ UNCHANGED <<reserved, holding, repeats, denied, exchFree>> /\ rows' = rows \cup {o}
      BY <1>4 DEF SaveReservation, ledger
    <2>2. lock = o
      BY <1>4 DEF SaveReservation, At, Control, Exclusive, Tasks
    <2>3. \A p \in Orders : pc'[p] # "checking"
      BY <1>4, <2>2, TaskAssumption DEF SaveReservation, At, Go, Control, Exclusive, IInv, StateOK, Tasks
    <2>4. Admitted' \subseteq Admitted
      BY <1>4 DEF SaveReservation, At, Go, Admitted, Flying, IInv, StateOK, Tasks
    <2>5. Total(Admitted') <= Total(Admitted) /\ Total(Admitted') \in Nat /\ Total(Admitted) \in Nat
      BY <1>0, <2>4, FS_Subset, TotalSplit, TotalNat
    <2>6. IsFiniteSet(rows')
      BY <1>0, <2>1, FS_AddElement
    <2>7. Committed' /\ SnapshotCovers' /\ LedgerExact'
      BY <1>0, <2>1, <2>3, <2>5 DEF Sound, Committed, SnapshotCovers, LedgerExact, Total
    <2> QED  BY <1>0, <2>1, <2>6, <2>7 DEF Sound
  <1>5. CASE Refuse(o) \/ ReserveBegin(o) \/ AccountFails(o) \/ Deny(o) \/ PostReturns(o) \/ PostTimesOut(o)
             \/ PostUnreadable(o) \/ QueryAnswers(o) \/ QueryFails(o) \/ GiveUp(o)
    <2>1. UNCHANGED <<reserved, holding, repeats, denied, exchFree, rows>> /\ Flying' = Flying
      BY <1>5 DEF Refuse, ReserveBegin, AccountFails, Deny, PostReturns, PostTimesOut,
                  PostUnreadable, QueryAnswers, QueryFails, GiveUp, exchange, ledger, Flying
    <2>2. \A p \in Orders : pc'[p] \in {"checking", "saving"} => pc'[p] = pc[p]
      BY <1>5 DEF Refuse, ReserveBegin, AccountFails, Deny, PostReturns, PostTimesOut,
                  PostUnreadable, QueryAnswers, QueryFails, GiveUp, Go, IInv, StateOK, Tasks
    <2>3. Admitted' \subseteq Admitted
      BY <2>1, <2>2 DEF Admitted
    <2>4. snapshot' = snapshot \/ \A p \in Orders : pc'[p] # "checking"
      <3>1. CASE Deny(o)
        BY <3>1, <2>2, TaskAssumption DEF Deny, At, Go, Control, Exclusive, IInv, StateOK, Tasks
      <3> QED  BY <1>5, <3>1 DEF Refuse, ReserveBegin, AccountFails, PostReturns, PostTimesOut,
                  PostUnreadable, QueryAnswers, QueryFails, GiveUp
    <2> QED  BY <1>0, <2>1, <2>2, <2>3, <2>4, SoundKept
  <1> QED  BY <1>1, <1>2, <1>3, <1>4, <1>5 DEF Place

\* Accept moves an amount from transit to the exchange: the balance falls by it
\* and the reservation, still counted, covers it for whoever holds an older answer.
LEMMA ExchangeSound ==
  ASSUME IInv, Control, Sound, IInv', Control', NEW o \in Orders, Exchange(o)
  PROVE  Sound'
  <1>0. /\ holding \in SUBSET Orders /\ Flying \subseteq Admitted /\ Admitted \subseteq holding
        /\ exchFree \in Int /\ exchFree' \in Int /\ snapshot \in Int /\ reserved \in Nat
        /\ IsFiniteSet(holding) /\ IsFiniteSet(rows) /\ Amount[o] \in Nat \ {0}
    BY SetsInOrders, ValueAssumption DEF Sound, IInv, StateOK
  <1>1. CASE Accept(o)
    <2>1. /\ exchFree' = exchFree - Amount[o] /\ order[o] = "flying"
          /\ UNCHANGED <<reserved, holding, repeats, denied, rows, snapshot, pc>>
      BY <1>1 DEF Accept, ledger
    <2>2. ASSUME denied = {}
          PROVE  SnapshotCovers' /\ Committed'
      <3>1. Flying' = Flying \ {o} /\ o \in Flying
        BY <1>1, <2>1, <2>2 DEF Accept, Flying, IInv, StateOK
      <3>2. pc[o] # "saving"
        BY <2>1 DEF IInv, SentAfterReserve
      <3>3. Admitted' = Admitted \ {o} /\ o \in Admitted
        BY <2>1, <3>1, <3>2 DEF Admitted
      <3>4. /\ o \in holding /\ o \notin holding \ Flying
            /\ holding \ Flying' = (holding \ Flying) \cup {o}
        BY <1>0, <3>1
      <3>5. IsFiniteSet(holding \ Flying)
        BY <1>0, FS_Difference
      <3>6. /\ Total(holding \ Flying') = Amount[o] + Total(holding \ Flying)
            /\ Total(holding \ Flying) \in Nat
        BY <1>0, <3>4, <3>5, TotalAdd, TotalNat
      <3>7. SnapshotCovers'
        BY <1>0, <2>1, <3>6 DEF Sound, SnapshotCovers, Total
      <3>8. Total(Admitted) = Amount[o] + Total(Admitted') /\ Total(Admitted') \in Nat
        BY <1>0, <3>3, FS_Subset, TotalRemove
      <3>9. Committed'
        BY <1>0, <2>1, <3>8 DEF Sound, Committed, Total
      <3> QED  BY <3>7, <3>9
    <2>3. SnapshotCovers' /\ Committed'
      BY <2>1, <2>2 DEF SnapshotCovers, Committed
    <2> QED  BY <1>0, <2>1, <2>3 DEF Sound, LedgerExact, Total
  <1>2. CASE Reject(o) \/ ServerError(o) \/ Lose(o) \/ Fill(o) \/ Expire(o)
    <2>1. /\ UNCHANGED <<reserved, holding, repeats, rows, snapshot, pc>> /\ denied \subseteq denied'
          /\ exchFree' >= exchFree
      BY <1>0, <1>2 DEF Reject, ServerError, Lose, Fill, Expire, exchange, ledger
    <2>2. Flying' \subseteq Flying /\ Admitted' \subseteq Admitted
      BY <1>2, <2>1 DEF Reject, ServerError, Lose, Fill, Expire, Flying, Admitted, IInv, StateOK
    <2> QED  BY <1>0, <2>1, <2>2, SoundKept
  <1> QED  BY <1>1, <1>2 DEF Exchange

\* The first release of a reservation subtracts what it added.
LEMMA AcknowledgeSound ==
  ASSUME IInv, Control, Sound, IInv', Control', NEW t \in Tasks, Acknowledge(t)
  PROVE  Sound'
  <1>0. /\ holding \in SUBSET Orders /\ Flying \subseteq Admitted /\ Admitted \subseteq holding
        /\ exchFree \in Int /\ snapshot \in Int /\ reserved \in Nat
        /\ IsFiniteSet(holding) /\ IsFiniteSet(rows)
    BY SetsInOrders DEF Sound
  <1>1. CASE ReleaseBegin(t)
    <2>1. PICK o \in Orders : o = job[t].order
      BY <1>1 DEF ReleaseBegin, At, IInv, JobsPresent, StateOK, Job
    <2>2. /\ reserved' = Monus(reserved, Amount[o]) /\ holding' = holding \ {o}
          /\ repeats' = IF o \in holding THEN repeats ELSE repeats \cup {o}
          /\ UNCHANGED <<denied, exchFree, rows>> /\ Flying' = Flying /\ lock = NoTask
      BY <1>1, <2>1 DEF ReleaseBegin, exchange, Flying
    <2>3. \A p \in Orders : pc[p] \notin {"checking", "saving"} /\ pc'[p] \notin {"checking", "saving"}
      BY <1>1, <2>2, TaskAssumption DEF ReleaseBegin, Go, Control, Exclusive, IInv, StateOK, Tasks
    <2>4. Admitted' = Admitted
      BY <2>2, <2>3 DEF Admitted
    <2>5. reserved' \in Nat /\ IsFiniteSet(holding') /\ Amount[o] \in Nat
      BY <1>0, <2>2, FS_RemoveElement, ValueAssumption DEF Monus
    <2>6. LedgerExact'
      <3>1. SUFFICES ASSUME repeats' = {} PROVE reserved' = Total(holding')
        BY DEF LedgerExact, Total
      <3>2. o \in holding /\ repeats = {}
        BY <2>2, <3>1
      <3>3. Total(holding) = Amount[o] + Total(holding') /\ Total(holding') \in Nat
        BY <1>0, <2>2, <3>2, TotalRemove
      <3>4. reserved = Total(holding)
        BY <3>2 DEF Sound, LedgerExact
      <3> QED  BY <2>2, <2>5, <3>3, <3>4 DEF Monus
    <2>7. SnapshotCovers'
      BY <2>3 DEF SnapshotCovers
    <2>8. Committed'
      BY <2>2, <2>4 DEF Sound, Committed, Total
    <2> QED  BY <1>0, <2>2, <2>5, <2>6, <2>7, <2>8 DEF Sound
  <1>2. CASE RetainBegin(t) \/ WriteDone(t) \/ WriteFails(t)
    <2>1. UNCHANGED <<reserved, holding, repeats, denied, exchFree, snapshot>> /\ Flying' = Flying
      BY <1>2 DEF RetainBegin, WriteDone, WriteFails, exchange, ledger, Flying
    <2>2. Resume(t) \in {"query", "done", "sweep", "idle"} /\ Abort(t) \in {"done", "dead", "idle"}
      BY DEF Resume, Abort
    <2>3. \A p \in Orders : pc'[p] \in {"checking", "saving"} => pc'[p] = pc[p]
      BY <1>2, <2>2 DEF RetainBegin, WriteDone, WriteFails, Go, IInv, StateOK, Tasks
    <2>4. Admitted' \subseteq Admitted
      BY <2>1, <2>3 DEF Admitted
    <2>5. IsFiniteSet(rows')
      <3>1. CASE RetainBegin(t) \/ WriteFails(t)
        BY <1>0, <3>1 DEF RetainBegin, WriteFails
      <3>2. CASE WriteDone(t)
        BY <1>0, <3>2, FS_AddElement, FS_RemoveElement DEF WriteDone
      <3> QED  BY <1>2, <3>1, <3>2
    <2> QED  BY <1>0, <2>1, <2>3, <2>4, <2>5, SoundKept
  <1> QED  BY <1>1, <1>2 DEF Acknowledge

\* Sweeps and users change the ledger only through Acknowledge.
LEMMA SweepUserSound ==
  ASSUME IInv, Control, Sound, IInv', Control',
         (\E s \in Sweepers : Sweep(s)) \/ (\E u \in Users : User(u))
  PROVE  Sound'
  <1>0. exchFree \in Int /\ IsFiniteSet(rows)
    BY DEF Sound, IInv, StateOK
  <1>1. CASE \E s \in Sweepers : Sweep(s)
    <2>1. PICK s \in Sweepers : Sweep(s)
      BY <1>1
    <2>2. UNCHANGED <<reserved, holding, repeats, denied, exchFree, rows, snapshot, order>>
      BY <2>1 DEF Sweep, SweepBegin, SweepEnd, SweepQuery, SweepSkip, SweepBreaks, exchange, ledger
    <2>3. Abort(s) \in {"done", "dead", "idle"}
      BY DEF Abort
    <2>4. \A p \in Orders : pc'[p] = pc[p]
      BY <2>1, <2>3, TaskAssumption
      DEF Sweep, SweepBegin, SweepEnd, SweepQuery, SweepSkip, SweepBreaks, Go, IInv, StateOK, Tasks
    <2>5. Flying' = Flying /\ Admitted' = Admitted
      BY <2>2, <2>4 DEF Flying, Admitted
    <2> QED  BY <1>0, <2>2, <2>4, <2>5, SoundKept
  <1>2. CASE \E u \in Users : User(u)
    <2>1. PICK u \in Users : User(u)
      BY <1>2
    <2>2. UNCHANGED <<reserved, holding, repeats, denied, rows, snapshot>> /\ exchFree' >= exchFree
      BY <1>0, <2>1, ValueAssumption DEF User, AcknowledgeClient, UserQuery, UserCancel, exchange, ledger
    <2>3. \A p \in Orders : pc'[p] = pc[p]
      BY <2>1, TaskAssumption
      DEF User, AcknowledgeClient, UserQuery, UserCancel, Go, IInv, StateOK, Tasks, Sweepers
    <2>4. \A p \in Orders : order'[p] = "flying" => order[p] = "flying"
      BY <2>1 DEF User, AcknowledgeClient, UserQuery, UserCancel, exchange, IInv, StateOK
    <2>5. Flying' \subseteq Flying /\ Admitted' \subseteq Admitted
      BY <2>2, <2>3, <2>4 DEF Flying, Admitted
    <2> QED  BY <1>0, <2>2, <2>3, <2>5, SoundKept
  <1> QED  BY <1>1, <1>2

\* A restart counts the rows, and every order in transit has one.
LEMMA CrashSound ==
  ASSUME IInv, Control, Sound, Crash
  PROVE  Sound'
  <1>0. /\ rows \in SUBSET Orders /\ Admitted \subseteq holding /\ holding \in SUBSET Orders
        /\ exchFree \in Int /\ IsFiniteSet(holding) /\ IsFiniteSet(rows)
    BY SetsInOrders DEF Sound
  <1>1. /\ reserved' = Total(rows) /\ holding' = rows
        /\ UNCHANGED <<exchFree, rows, repeats, denied, order>>
    BY DEF Crash, exchange
  <1>2. \A p \in Orders : pc'[p] \in {"done", "idle"}
    BY DEF Crash, Tasks
  <1>3. Admitted' \subseteq Admitted
    BY <1>1, <1>2 DEF Admitted, Flying
  <1>4. /\ Total(Admitted') <= Total(Admitted) /\ Total(Admitted') \in Nat /\ Total(Admitted) \in Nat
        /\ Total(rows) \in Nat
    BY <1>0, <1>3, FS_Subset, TotalSplit, TotalNat
  <1>5. Committed' /\ SnapshotCovers' /\ LedgerExact'
    BY <1>0, <1>1, <1>2, <1>4 DEF Sound, Committed, SnapshotCovers, LedgerExact, Total
  <1> QED  BY <1>0, <1>1, <1>4, <1>5 DEF Sound

LEMMA NextSound == IInv /\ Control /\ Sound /\ [Next]_vars => Sound'
  <1> SUFFICES ASSUME IInv, Control, Sound, [Next]_vars PROVE Sound'
    OBVIOUS
  <1>0. IInv' /\ Control'
    BY NextIInv, NextControl
  <1>1. CASE \E o \in Orders : Place(o) \/ Exchange(o)
    BY <1>0, <1>1, PlaceSound, ExchangeSound
  <1>2. CASE \E t \in Tasks : Acknowledge(t)
    BY <1>0, <1>2, AcknowledgeSound
  <1>3. CASE (\E s \in Sweepers : Sweep(s)) \/ (\E u \in Users : User(u))
    BY <1>0, <1>3, SweepUserSound
  <1>4. CASE Crash
    BY <1>4, CrashSound
  <1>5. CASE Quiet \/ SessionChanges \/ UNCHANGED vars
    BY <1>5 DEF Quiet, SessionChanges, Sound, LedgerExact, SnapshotCovers, Committed, Total, Flying, Admitted,
                vars, exchange, ledger
  <1> QED  BY <1>1, <1>2, <1>3, <1>4, <1>5 DEF Next

\* Every state the engine reaches satisfies the ledger's inductive invariant.
THEOREM LedgerInductive == Spec => [](IInv /\ Control /\ Sound)
  BY InitIInv, NextIInv, InitControl, NextControl, InitSound, NextSound, PTL DEF Spec

\* The state keeps its types; the ledger is a natural number, never negative.
THEOREM Types == Spec => []TypeOK
  <1>1. IInv /\ Sound => TypeOK  BY DEF IInv, Sound, TypeOK
  <1> QED  BY <1>1, LedgerInductive, PTL

\* As long as no reservation was released twice, the ledger is exactly the sum
\* of the reservations it holds.
THEOREM LedgerIsExact == Spec => []LedgerExact
  <1>1. Sound => LedgerExact  BY DEF Sound
  <1> QED  BY <1>1, LedgerInductive, PTL

\* Orders in transit never ask together for more than the exchange has free, as
\* long as no reservation was released twice or because of an undecided error.
THEOREM Overcommitment == Spec => []NoOvercommit
  <1>1. IInv /\ Control /\ Sound => NoOvercommit
    <2> SUFFICES ASSUME IInv, Control, Sound, repeats = {}, denied = {} PROVE Total(Flying) <= exchFree
      BY DEF NoOvercommit, Flying
    <2>1. Admitted \in SUBSET Orders /\ IsFiniteSet(Admitted) /\ Flying \in SUBSET Admitted
      BY SetsInOrders, FS_Subset DEF Sound
    <2>2. Total(Flying) <= Total(Admitted) /\ Total(Flying) \in Nat /\ Total(Admitted) \in Nat
      BY <2>1, TotalSplit, TotalNat
    <2>3. Total(Admitted) <= exchFree /\ exchFree \in Int
      BY DEF Sound, Committed, IInv, StateOK
    <2> QED  BY <2>2, <2>3
  <1> QED  BY <1>1, LedgerInductive, PTL

===============================================================================
