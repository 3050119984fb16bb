------------------------- MODULE SquareOffProofs ------------------------------
(***************************************************************************)
(* For any number of requests, orders and lots and through any failure:    *)
(* every claim on an order belongs to exactly one running square-off       *)
(* (Claims), and the exchange, the table and memory agree on what is left  *)
(* of an order, except where Astray says what went wrong.                  *)
(*                                                                         *)
(* The inductive invariant has five layers.  Inv is about claims.  Frame   *)
(* is about shape: orders are numbered as they execute, a task has its     *)
(* order and its closing order, and rows repeat what executed.  Guards is  *)
(* about the stops: while one rests, and until its execution is booked,    *)
(* its position is whole and no exit is past it.  Books says that a        *)
(* closing order has its row, a task that will store it, or lost it.  Lots *)
(* says how an order nothing happened to is closed, what is left of the    *)
(* position and what memory tracks.                                        *)
(*                                                                         *)
(* Each operation is first put in the form the proofs use (QueryForm,      *)
(* PostForm, ...); a layer has one lemma per form and one (FrameStep,      *)
(* BooksStep, LotsStep) that puts them together.                           *)
(***************************************************************************)
EXTENDS SquareOff, FiniteSetTheorems, TLAPS

Fields == {"pc", "exits", "order", "want", "exit"}

Shape ==
    /\ DOMAIN task = Tasks
    /\ \A t \in Tasks : DOMAIN task[t] = Fields

Inv == Shape /\ ClaimsHeld

\* A step that keeps what every task is about keeps the claims.
LEMMA Same ==
    ASSUME Inv, Shape', squaring' = squaring,
           \A t \in Tasks : /\ task'[t].pc = "idle" <=> task[t].pc = "idle"
                            /\ task'[t].exits = task[t].exits
                            /\ task'[t].order = task[t].order
    PROVE  Inv'
<1>1. Squares' = Squares
  BY DEF Squares
<1>2. {task'[t].order : t \in Squares} = {task[t].order : t \in Squares}
  BY DEF Squares
<1>3. \A t \in Squares : task'[t].order = task[t].order
  BY DEF Squares
<1> QED
  BY <1>1, <1>2, <1>3 DEF Inv, ClaimsHeld

\* End takes one claim with its task.
LEMMA Ends ==
    ASSUME Inv, NEW t \in Tasks, task[t].pc # "idle", End(t)
    PROVE  Inv'
<1>0. DOMAIN Idle = Fields /\ Idle.pc = "idle"
  BY DEF Idle, Doing, Fields
<1>2. \A u \in Tasks : task'[u] = IF u = t THEN Idle ELSE task[u]
  BY DEF Inv, Shape, End
<1>1. Shape'
  BY <1>0, <1>2 DEF Inv, Shape, End
<1>3. Squares' = Squares \ {t}
  BY <1>0, <1>2 DEF Squares
<1>4. squaring' = {task'[u].order : u \in Squares'}
  <2>1. CASE task[t].exits
    <3>1. t \notin Squares /\ squaring' = squaring
      BY <2>1 DEF Squares, End
    <3> QED
      BY <1>2, <1>3, <3>1 DEF Inv, ClaimsHeld, Squares
  <2>2. CASE ~task[t].exits
    <3>1. t \in Squares /\ squaring' = squaring \ {task[t].order}
      BY <2>2 DEF Squares, End
    <3>2. \A u \in Squares \ {t} : task[u].order # task[t].order
      BY <3>1 DEF Inv, ClaimsHeld
    <3>3. \A u \in Squares \ {t} : task'[u].order = task[u].order
      BY <1>2 DEF Squares
    <3> QED
      BY <1>3, <3>1, <3>2, <3>3 DEF Inv, ClaimsHeld
  <2> QED
    BY <2>1, <2>2
<1>5. \A u, v \in Squares' : task'[u].order = task'[v].order => u = v
  BY <1>2, <1>3 DEF Inv, ClaimsHeld, Squares
<1> QED
  BY <1>1, <1>4, <1>5 DEF Inv, ClaimsHeld

LEMMA Initial == Init => Inv
<1> SUFFICES ASSUME Init PROVE Inv
  OBVIOUS
<1>1. DOMAIN Idle = Fields /\ Idle.pc = "idle"
  BY DEF Idle, Doing, Fields
<1>2. Shape
  BY <1>1 DEF Init, Shape
<1>3. Squares = {} /\ squaring = {}
  BY <1>1 DEF Init, Squares
<1> QED
  BY <1>2, <1>3 DEF Inv, ClaimsHeld

\* Claim and StartExit: an idle task begins.
LEMMA Begins ==
    ASSUME Inv, NEW t \in Tasks, NEW o \in Ids, task[t].pc = "idle",
           Claim(t, o) \/ StartExit(t, o)
    PROVE  Inv'
<1>1. CASE Claim(t, o)
  <2> DEFINE new == Doing("query", FALSE, o, tracked[o])
  <2>1. DOMAIN new = Fields /\ new.pc = "query" /\ ~new.exits /\ new.order = o
    BY DEF Doing, Fields
  <2>2. task' = [task EXCEPT ![t] = new]
    BY <1>1 DEF Claim
  <2> HIDE DEF new
  <2>3. \A u \in Tasks : task'[u] = IF u = t THEN new ELSE task[u]
    BY <2>2 DEF Inv, Shape
  <2>4. Shape'
    BY <2>1, <2>2, <2>3 DEF Inv, Shape
  <2>5. t \notin Squares /\ Squares' = Squares \cup {t}
    BY <2>1, <2>3 DEF Squares
  <2>6. o \notin squaring /\ squaring' = squaring \cup {o}
    BY <1>1 DEF Claim
  <2>7. \A u \in Squares : task'[u].order = task[u].order /\ task[u].order # o
    BY <2>3, <2>5, <2>6 DEF Inv, ClaimsHeld, Squares
  <2>8. task'[t].order = o
    BY <2>1, <2>3
  <2>9. squaring' = {task'[u].order : u \in Squares'}
    BY <2>5, <2>6, <2>7, <2>8 DEF Inv, ClaimsHeld
  <2>10. \A u, v \in Squares' : task'[u].order = task'[v].order => u = v
    BY <2>5, <2>7, <2>8 DEF Inv, ClaimsHeld
  <2> QED
    BY <2>4, <2>9, <2>10 DEF Inv, ClaimsHeld
<1>2. CASE StartExit(t, o)
  <2> DEFINE pc == IF Stopped(o) THEN "look" ELSE "balance"
             new == Doing(pc, TRUE, o, position[o])
  <2>1. DOMAIN new = Fields /\ new.exits
    BY DEF Doing, Fields
  <2>2. task' = [task EXCEPT ![t] = new]
    BY <1>2 DEF StartExit
  <2> HIDE DEF new
  <2>3. \A u \in Tasks : task'[u] = IF u = t THEN new ELSE task[u]
    BY <2>2 DEF Inv, Shape
  <2>4. Shape'
    BY <2>1, <2>2, <2>3 DEF Inv, Shape
  <2>5. Squares' = Squares
    BY <2>1, <2>3 DEF Squares
  <2>6. squaring' = squaring /\ \A u \in Squares : task'[u] = task[u]
    BY <1>2, <2>1, <2>3, <2>5 DEF StartExit, memory, Squares
  <2> QED
    BY <2>4, <2>5, <2>6 DEF Inv, ClaimsHeld
<1> QED
  BY <1>1, <1>2

\* A step of a running task goes on with it ...
Continues(t) ==
    /\ squaring' = squaring
    /\ DOMAIN task' = Tasks /\ \A u \in Tasks \ {t} : task'[u] = task[u]
    /\ DOMAIN task'[t] = Fields /\ task'[t].pc # "idle"
    /\ task'[t].exits = task[t].exits /\ task'[t].order = task[t].order

LEMMA Runs ==
    ASSUME Inv, NEW t \in Tasks, task[t].pc # "idle", Continues(t)
    PROVE  Inv'
<1>1. Shape'
  BY DEF Inv, Shape, Continues
<1>2. \A u \in Tasks : /\ task'[u].pc = "idle" <=> task[u].pc = "idle"
                       /\ task'[u].exits = task[u].exits
                       /\ task'[u].order = task[u].order
  BY DEF Continues
<1> QED
  BY <1>1, <1>2, Same DEF Continues

\* ... in one of four forms.
LEMMA Forms ==
    ASSUME Inv, NEW t \in Tasks, squaring' = squaring, NEW pc, pc # "idle", NEW x, NEW y,
           \/ task' = [task EXCEPT ![t].pc = pc]
           \/ task' = [task EXCEPT ![t].pc = pc, ![t].want = x]
           \/ task' = [task EXCEPT ![t].pc = pc, ![t].exit = x]
           \/ task' = [task EXCEPT ![t].pc = pc, ![t].want = x, ![t].exit = y]
    PROVE  Continues(t)
<1>1. DOMAIN task = Tasks /\ DOMAIN task[t] = Fields
  BY DEF Inv, Shape
<1>2. CASE task' = [task EXCEPT ![t].pc = pc]
  BY <1>1, <1>2 DEF Continues, Fields
<1>3. CASE task' = [task EXCEPT ![t].pc = pc, ![t].want = x]
  BY <1>1, <1>3 DEF Continues, Fields
<1>4. CASE task' = [task EXCEPT ![t].pc = pc, ![t].exit = x]
  BY <1>1, <1>4 DEF Continues, Fields
<1>5. CASE task' = [task EXCEPT ![t].pc = pc, ![t].want = x, ![t].exit = y]
  BY <1>1, <1>5 DEF Continues, Fields
<1> QED
  BY <1>2, <1>3, <1>4, <1>5

LEMMA Steps ==
    ASSUME Inv, NEW t \in Tasks, Step(t)
    PROVE  Inv'
<1>1. task[t].pc # "idle"
  BY DEF Step, Query, Matches, Look, Cancel, Fails, Balance, Post, PostLost, Reconcile, Record,
         Match, Store, WriteFails
<1>2. ASSUME Continues(t) PROVE Inv'
  BY <1>1, <1>2, Runs
<1>3. ASSUME End(t) PROVE Inv'
  BY <1>1, <1>3, Ends
<1>4. ASSUME NEW pc, Goes(t, pc), pc # "idle", squaring' = squaring PROVE Inv'
  BY <1>2, <1>4, Forms DEF Goes
<1>5. CASE Query(t)
  BY <1>3, <1>4, <1>5 DEF Query
<1>6. CASE Matches(t)
  <2>1. CASE End(t)
    BY <1>3, <2>1
  <2>2. CASE /\ squaring' = squaring
             /\ task' = [task EXCEPT ![t].pc = "balance",
                                     ![t].want = ToClose(task[t].order, task[t].want)]
    BY <1>2, <2>2, Forms
  <2> QED
    BY <1>6, <2>1, <2>2 DEF Matches
<1>7. CASE Fails(t) \/ Store(t) \/ WriteFails(t)
  BY <1>3, <1>7 DEF Fails, Store, WriteFails
<1>8. CASE Balance(t)
  <2> DEFINE want == Min({task[t].want, Available(CloseSide(t))})
  <2>1. CASE End(t)
    BY <1>3, <2>1
  <2>2. CASE squaring' = squaring /\ task' = [task EXCEPT ![t].pc = "post", ![t].want = want]
    BY <1>2, <2>2, Forms
  <2> QED
    BY <1>8, <2>1, <2>2 DEF Balance
<1>9. CASE Post(t)
  <2>1. squaring' = squaring
    BY <1>9 DEF Post, memory
  <2>2. ASSUME NEW x, task' = [task EXCEPT ![t].pc = "record", ![t].exit = x]
        PROVE  Inv'
    BY <1>2, <2>1, <2>2, Forms
  <2>3. ASSUME NEW x, task' = [task EXCEPT ![t].pc = "unknown", ![t].exit = x]
        PROVE  Inv'
    BY <1>2, <2>1, <2>3, Forms
  <2> QED
    BY <1>9, <2>2, <2>3 DEF Post
<1>10. CASE PostLost(t)
  <2>1. Goes(t, "unknown") /\ squaring' = squaring
    BY <1>10 DEF PostLost, memory
  <2> QED
    BY <1>4, <2>1
<1>11. CASE Reconcile(t)
  <2>1. CASE End(t)
    BY <1>3, <2>1
  <2>2. CASE /\ squaring' = squaring
             /\ task' = [task EXCEPT ![t].pc = "record", ![t].exit = Max(SameClientId(t))]
    BY <1>2, <2>2, Forms
  <2> QED
    BY <1>11, <2>1, <2>2 DEF Reconcile
<1>12. CASE Record(t)
  <2> DEFINE want == IF task[t].exits THEN position[task[t].order]
                     ELSE orders[task[t].order].qty
  <2>1. squaring' = squaring /\ task' = [task EXCEPT ![t].pc = "match", ![t].want = want]
    BY <1>12 DEF Record
  <2> QED
    BY <1>2, <2>1, Forms
<1>13. CASE Match(t)
  <2>1. Goes(t, "row") /\ squaring' = squaring
    BY <1>13 DEF Match
  <2> QED
    BY <1>4, <2>1
<1>14. CASE Look(t)
  <2> DEFINE want == position[task[t].order]
             x == fill[task[t].order]
  <2>1. squaring' = squaring
    BY <1>14 DEF Look
  <2>2. CASE Goes(t, "cancel")
    BY <1>4, <2>1, <2>2
  <2>3. CASE task' = [task EXCEPT ![t].pc = "match", ![t].want = want, ![t].exit = x]
    BY <1>2, <2>1, <2>3, Forms
  <2> QED
    BY <1>14, <2>2, <2>3 DEF Look
<1>15. CASE Cancel(t)
  <2>1. Goes(t, "balance") /\ squaring' = squaring
    BY <1>15 DEF Cancel, memory
  <2> QED
    BY <1>4, <2>1
<1> QED
  BY <1>5, <1>6, <1>7, <1>8, <1>9, <1>10, <1>11, <1>12, <1>13, <1>14, <1>15 DEF Step

LEMMA Restarts == ASSUME Inv, Restart PROVE Inv'
<1>1. DOMAIN Idle = Fields /\ Idle.pc = "idle"
  BY DEF Idle, Doing, Fields
<1>2. task' = [t \in Tasks |-> Idle] /\ squaring' = {}
  BY DEF Restart
<1>3. Shape'
  BY <1>1, <1>2 DEF Shape
<1>4. Squares' = {}
  BY <1>1, <1>2 DEF Squares
<1> QED
  BY <1>2, <1>3, <1>4 DEF Inv, ClaimsHeld

LEMMA Preserved == Inv /\ [Next]_vars => Inv'
<1> SUFFICES ASSUME Inv, [Next]_vars PROVE Inv'
  OBVIOUS
<1>1. ASSUME UNCHANGED <<task, squaring>> PROVE Inv'
  BY <1>1 DEF Inv, Shape, ClaimsHeld, Squares
<1>2. CASE \E side \in Sides, entry \in BOOLEAN : Place(side, entry)
  BY <1>1, <1>2 DEF Place
<1>3. CASE \E o \in Ids : QueryOrder(o) \/ Trigger(o)
  BY <1>1, <1>3 DEF QueryOrder, Trigger, memory
<1>4. CASE \E t \in Tasks : Step(t)
  BY <1>4, Steps
<1>5. CASE \E t \in Tasks, o \in Ids : Claim(t, o) \/ StartExit(t, o)
  <2>1. PICK t \in Tasks, o \in Ids : Claim(t, o) \/ StartExit(t, o)
    BY <1>5
  <2>2. task[t].pc = "idle"
    BY <2>1 DEF Claim, StartExit
  <2> QED
    BY <2>1, <2>2, Begins
<1>6. CASE Restart
  BY <1>6, Restarts
<1>7. CASE UNCHANGED vars
  BY <1>1, <1>7 DEF vars, memory
<1> QED
  BY <1>2, <1>3, <1>4, <1>5, <1>6, <1>7 DEF Next

\* Every claim belongs to exactly one running square-off.
THEOREM Claims == Spec => []ClaimsHeld
<1>1. Inv => ClaimsHeld
  BY DEF Inv
<1> QED
  BY Initial, Preserved, <1>1, PTL DEF Spec
-------------------------------------------------------------------------------
(* The invariants the sums rest on                                            *)

\* Orders are numbered as they execute, so an order closes an earlier one; and
\* none closes more than the order it closes executed.
OrdersShaped ==
    /\ \A o \in Ids, p \in Ids : p < o /\ o \in Placed => p \in Placed
    /\ \A x \in Placed :
         /\ orders[x].qty > 0 /\ orders[x].closes < x
         /\ orders[x].closes # 0 => orders[x].qty <= orders[orders[x].closes].qty

Landed == {"record", "match", "row"}

\* A task's order and its closing order, from the execution to the row.
TasksShaped ==
    \A t \in Tasks :
      /\ task[t].pc = "idle" => task[t] = Idle
      /\ task[t].pc # "idle" => task[t].order \in Placed
      /\ task[t].pc \in Landed => task[t].exit # 0
      /\ task[t].exit # 0 =>
           /\ task[t].pc \in Landed \cup {"unknown"} /\ task[t].exit \in Placed
           /\ orders[task[t].exit].closes = task[t].order
           /\ orders[task[t].exit].square = ~task[t].exits
      /\ task[t].exits => task[t].pc \notin {"query", "matches"}
      /\ task[t].pc \in {"look", "cancel"} => task[t].exits

\* Like a square-off, an exit has its position to itself.
ExitsOnce ==
    \A t, u \in Tasks :
      task[t].exits /\ task[u].exits /\ task[t].order = task[u].order => t = u

\* Memory never has more of an order than it executed, and an exit that is not
\* recorded yet sells no more than its position still has.
Bounded ==
    /\ \A o \in Ids : /\ tracked[o] <= orders[o].qty /\ position[o] <= orders[o].qty
                      /\ position[o] > 0 => orders[o].closes = 0
                      /\ saved[o] <= orders[o].qty /\ (saved[o] > 0 => orders[o].closes = 0)
    /\ \A t \in Tasks :
         /\ task[t].pc # "idle" => task[t].want <= orders[task[t].order].qty
         /\ task[t].exits =>
              /\ orders[task[t].order].closes = 0
              /\ task[t].pc \in {"look", "cancel", "balance", "post", "unknown", "record"} =>
                   /\ task[t].want <= position[task[t].order]
                   /\ task[t].exit # 0 => orders[task[t].exit].qty <= task[t].want

\* A stop that rests is of a whole lot, and one that executed sold all of its entry.
StopsShaped ==
    /\ \A o \in resting :
         /\ o \in Placed /\ orders[o].qty = Lot /\ orders[o].closes = 0 /\ orders[o].filled
         /\ fill[o] = 0
    /\ \A o \in Ids : fill[o] # 0 =>
         /\ o \in Placed /\ orders[o].closes = 0 /\ orders[o].filled
         /\ fill[o] \in Placed /\ orders[fill[o]].closes = o /\ ~orders[fill[o]].square
         /\ orders[fill[o]].qty = orders[o].qty

\* Until something goes wrong with it, the stop of a lot is the only thing that
\* takes from its position.  An exit past its look has cancelled the stop, is about
\* to, or books its execution.
Marked(o) == <<o, "raced">> \in astray \/ <<o, "cut">> \in astray
Clear(t, o) ==
    /\ o \in resting => task[t].pc = "cancel"
    /\ fill[o] # 0 => task[t].pc \in {"match", "row"} /\ fill[o] = task[t].exit
Guarded(o) ==
    /\ o \in resting => position[o] = orders[o].qty /\ \A x \in Closings(o) : orders[x].square
    /\ fill[o] # 0 => /\ position[o] \in {0, orders[o].qty}
                      /\ \A x \in Closings(o) : orders[x].square \/ x = fill[o]
    /\ \A t \in Tasks : Past(t, o) => Clear(t, o)
StopsGuarded == \A o \in Placed : Marked(o) \/ Guarded(o)

\* An exit that looks at its stop has taken nothing from the position yet.
Looks == \A t \in Tasks : task[t].pc = "look" => Stopped(task[t].order)

\* The row of a position is behind only while an exit is about to save it, or for good.
SavedTells ==
    \A o \in Ids : \/ saved[o] = position[o] \/ <<o, "cut">> \in astray
                   \/ \E t \in Tasks : task[t].exits /\ task[t].order = o /\ task[t].pc = "match"

Guards == StopsGuarded /\ Looks /\ SavedTells

\* A row is about a closing order, with all it executed; a closing order has its
\* row, lost it, has a task that will store it, or is the execution of a stop that
\* an exit will find, or that raced one.
RowsTrue ==
    \A r \in rows : /\ r.exit \in Placed
                    /\ r.entry = orders[r.exit].closes /\ r.qty = orders[r.exit].qty
Booked ==
    \A x \in Placed : orders[x].closes # 0 =>
      \/ Row(orders[x].closes, x) # {}
      \/ <<orders[x].closes, "cut">> \in astray
      \/ \E t \in Tasks : task[t].exit = x
      \/ fill[orders[x].closes] = x
           /\ (Stopped(orders[x].closes) \/ <<orders[x].closes, "raced">> \in astray)

\* What reconcile_unknown finds for a square-off whose order executed is that order.
Newest ==
    \A t \in Tasks : task[t].exit # 0 /\ ~task[t].exits =>
      \A x \in Closings(task[t].order) : orders[x].square => x <= task[t].exit

\* An order nothing happened to is closed by one square-off, which found it
\* untouched, or by exits and the stop, ...
OneClose(o) ==
    /\ \A x, y \in Closings(o) : orders[x].square = orders[y].square /\ (orders[x].square => x = y)
    /\ \A t \in Tasks : task[t].order = o /\ task[t].pc # "query" =>
         /\ orders[o].closes = 0
         /\ task[t].exit = 0 /\ ~task[t].exits => Closings(o) = {}

\* What exits executed is what left the position, but for the one being recorded.
Recording(t) == task[t].pc \in {"unknown", "record"} /\ task[t].exit # 0
PositionTells(o) ==
    \/ \E x \in Closings(o) : orders[x].square
    \/ position[o] = 0 /\ Closings(o) = {}
    \/ \E t \in Tasks : /\ task[t].order = o /\ Recording(t)
                        /\ Closed(o) + position[o] = orders[o].qty + orders[task[t].exit].qty
    \/ /\ \A t \in Tasks : ~(task[t].order = o /\ Recording(t))
       /\ Closed(o) + position[o] = orders[o].qty

\* What memory tracks is open but for the close being matched, whose task has
\* what was open before; a closing order is tracked only until it is matched.
Matching(t) == Recording(t) \/ task[t].pc = "match"
Before(t, o) == orders[o].qty - Closed(o) + orders[task[t].exit].qty
ToMatch(o) == tracked[o] = 0 \/ \E t \in Tasks : task[t].exit = o /\ task[t].pc = "match"
TracksOpen(o) ==
    /\ orders[o].closes # 0 => ToMatch(o)
    /\ orders[o].closes = 0 =>
         /\ (\A t \in Tasks : task[t].order = o => ~Matching(t)) =>
              tracked[o] \in {0, orders[o].qty - Closed(o)}
         /\ \A t \in Tasks : task[t].order = o /\ Matching(t) =>
              /\ tracked[o] \in {0, Before(t, o)}
              /\ task[t].pc = "match" => task[t].want = Before(t, o)

Fine(o) == OneClose(o) /\ PositionTells(o) /\ TracksOpen(o)

\* ... or its stop sold it, and no exit found that yet.
Waits(o) ==
    /\ fill[o] # 0 /\ Row(o, fill[o]) = {} /\ Closings(o) = {fill[o]}
    /\ position[o] = orders[o].qty /\ tracked[o] \in {0, orders[o].qty}
    /\ \A t \in Tasks : task[t].order = o => task[t].pc \in {"query", "look"}

Lots == \A o \in Placed : Astray(o) \/ Fine(o) \/ Waits(o)

\* What the greater and the smaller of two numbers are.
LEMMA MaxTwo ==
  ASSUME NEW a \in Int, NEW b \in Int
  PROVE  Max({a, b}) = IF a >= b THEN a ELSE b
  <1> DEFINE m == IF a >= b THEN a ELSE b
  <1>1. m \in {a, b} /\ \A y \in {a, b} : m >= y
    OBVIOUS
  <1>2. \A n \in {a, b} : (\A y \in {a, b} : n >= y) => n = m
    OBVIOUS
  <1> HIDE DEF m
  <1>3. Max({a, b}) = m
    BY <1>1, <1>2 DEF Max
  <1> QED  BY <1>3 DEF m

LEMMA MinTwo ==
  ASSUME NEW a \in Int, NEW b \in Int
  PROVE  Min({a, b}) = IF a <= b THEN a ELSE b
  <1> DEFINE m == IF a <= b THEN a ELSE b
  <1>1. m \in {a, b} /\ \A y \in {a, b} : m <= y
    OBVIOUS
  <1>2. \A n \in {a, b} : (\A y \in {a, b} : n <= y) => n = m
    OBVIOUS
  <1> HIDE DEF m
  <1>3. Min({a, b}) = m
    BY <1>1, <1>2 DEF Min
  <1> QED  BY <1>3 DEF m

\* A set of orders has a newest one: the fewest are newer than it.
LEMMA GreatestOne ==
  ASSUME NEW S \in SUBSET Ids, S # {}
  PROVE  \E y \in S : \A z \in S : y >= z
  <1> DEFINE Newer(n) == {z \in S : z > n}
             T == {Newer(n) : n \in S}
  <1>1. IsFiniteSet(S) /\ S \subseteq Int
    <2>1. MaxOrders \in Int
      BY BoundAssumption
    <2>2. IsFiniteSet(Ids) /\ Ids \subseteq Int
      BY <2>1, FS_Interval DEF Ids
    <2> QED  BY <2>2, FS_Subset
  <1>2. T \subseteq FiniteSubsetsOf(S) /\ T # {}
    <2>1. \A n \in S : Newer(n) \in SUBSET S
      OBVIOUS
    <2> HIDE DEF Newer
    <2>2. \A n \in S : IsFiniteSet(Newer(n))
      BY <1>1, <2>1, FS_Subset
    <2> QED  BY <2>1, <2>2 DEF FiniteSubsetsOf
  <1>3. \E R \in T : \A Q \in T : ~ (<<Q, R>> \in StrictSubsetOrdering(S))
    <2> HIDE DEF T
    <2> QED  BY <1>1, <1>2, FS_StrictSubsetOrderingWellFounded, WFMin
  <1>4. PICK n \in S : \A Q \in T : ~ (<<Q, Newer(n)>> \in StrictSubsetOrdering(S))
    BY <1>3
  <1>5. ASSUME NEW z \in S, z > n PROVE FALSE
    <2>1. Newer(z) \in T /\ Newer(z) \in SUBSET S /\ Newer(n) \in SUBSET S
      OBVIOUS
    <2>2. z \in Newer(n) /\ z \notin Newer(z)
      BY <1>1, <1>5
    <2>3. Newer(z) \subseteq Newer(n)
      <3>1. \A i \in S : i > z => i > n
        BY <1>1, <1>5
      <3> QED  BY <3>1
    <2> HIDE DEF Newer, T
    <2> QED  BY <1>4, <2>1, <2>2, <2>3 DEF StrictSubsetOrdering
  <1> QED  BY <1>1, <1>5

\* The units of one order are as many as its quantity, up to a lot.
LEMMA UnitsOf ==
  ASSUME NEW x, NEW q \in 0 .. Lot
  PROVE  LET U == {u \in {x} \X (1 .. Lot) : u[2] <= q}
         IN IsFiniteSet(U) /\ Cardinality(U) = q
  <1> DEFINE U == {u \in {x} \X (1 .. Lot) : u[2] <= q}
  <1>0. q \in Nat /\ q <= Lot /\ Lot \in Nat
    BY BoundAssumption
  <1>1. U = {x} \X (1 .. q)
    BY <1>0
  <1>2. IsFiniteSet(1 .. q) /\ Cardinality(1 .. q) = q
    <2>1. /\ IsFiniteSet(1 .. q)
          /\ Cardinality(1 .. q) = IF 1 > q THEN 0 ELSE q - 1 + 1
      BY <1>0, FS_Interval
    <2> QED  BY <1>0, <2>1
  <1>3. IsFiniteSet({x}) /\ Cardinality({x}) = 1
    BY FS_Singleton
  <1>4. IsFiniteSet({x} \X (1 .. q)) /\ Cardinality({x} \X (1 .. q)) = 1 * q
    <2>1. /\ IsFiniteSet({x} \X (1 .. q))
          /\ Cardinality({x} \X (1 .. q)) = Cardinality({x}) * Cardinality(1 .. q)
      BY <1>2, <1>3, FS_Product
    <2> QED  BY <1>2, <1>3, <2>1
  <1>5. 1 * q = q
    BY <1>0
  <1> QED  BY <1>1, <1>4, <1>5

\* The pairs that units are taken from.
LEMMA PairsFinite ==
  ASSUME NEW S \in SUBSET Ids, NEW U \in SUBSET (S \X (1 .. Lot))
  PROVE  IsFiniteSet(U) /\ Cardinality(U) \in Nat
  <1>1. IsFiniteSet(Ids) /\ IsFiniteSet(1 .. Lot)
    BY FS_Interval, BoundAssumption DEF Ids
  <1>2. IsFiniteSet(S)
    BY <1>1, FS_Subset
  <1>3. IsFiniteSet(S \X (1 .. Lot))
    BY <1>1, <1>2, FS_Product
  <1> QED  BY <1>3, FS_Subset, FS_CardinalityType

Sold(S) == {u \in S \X (1 .. Lot) : u[2] <= orders[u[1]].qty}

LEMMA SoldNat ==
  ASSUME NEW S \in SUBSET Ids
  PROVE  IsFiniteSet(Sold(S)) /\ Cardinality(Sold(S)) \in Nat
  BY PairsFinite DEF Sold

\* One more order adds its quantity.
LEMMA SoldMore ==
  ASSUME NEW S \in SUBSET Ids, NEW x \in Ids \ S, orders[x].qty \in 0 .. Lot
  PROVE  Cardinality(Sold(S \cup {x})) = Cardinality(Sold(S)) + orders[x].qty
  <1> DEFINE U == {u \in {x} \X (1 .. Lot) : u[2] <= orders[x].qty}
  <1>1. IsFiniteSet(U) /\ Cardinality(U) = orders[x].qty
    BY UnitsOf
  <1>2. Sold(S \cup {x}) = Sold(S) \cup U /\ Sold(S) \cap U = {}
    BY DEF Sold
  <1>3. IsFiniteSet(Sold(S)) /\ Cardinality(Sold(S)) \in Nat
    BY SoldNat
  <1> HIDE DEF U
  <1>4. Cardinality(Sold(S) \cup U)
          = Cardinality(Sold(S)) + Cardinality(U) - Cardinality(Sold(S) \cap U)
    BY <1>1, <1>3, FS_Union
  <1>5. Cardinality(Sold(S) \cap U) = 0 /\ orders[x].qty \in Nat
    BY <1>2, FS_EmptySet, BoundAssumption
  <1>6. Cardinality(Sold(S \cup {x})) = Cardinality(Sold(S)) + orders[x].qty - 0
    BY <1>1, <1>2, <1>4, <1>5
  <1> QED  BY <1>3, <1>5, <1>6

LEMMA SoldNone == Cardinality(Sold({})) = 0
  <1>1. Sold({}) = {}
    BY DEF Sold
  <1> QED  BY <1>1, FS_EmptySet

\* What closes an order is a natural number; nothing for no closing order, one
\* order's quantity for one, and at least that for more.
LEMMA ClosedFacts ==
  ASSUME TypeOK, OrdersShaped, NEW o
  PROVE  /\ Closed(o) \in Nat
         /\ Closings(o) = {} => Closed(o) = 0
         /\ \A x \in Closings(o) :
              /\ Closed(o) >= orders[x].qty /\ Closed(o) > 0
              /\ Closings(o) = {x} => Closed(o) = orders[x].qty
  <1>1. Closings(o) \subseteq Ids /\ Closed(o) = Cardinality(Sold(Closings(o)))
    BY DEF Closings, Placed, Closed, Sold
  <1>2. Closed(o) \in Nat /\ (Closings(o) = {} => Closed(o) = 0)
    BY <1>1, SoldNat, SoldNone
  <1>3. ASSUME NEW x \in Closings(o)
        PROVE  /\ Closed(o) >= orders[x].qty /\ Closed(o) > 0
               /\ Closings(o) = {x} => Closed(o) = orders[x].qty
    <2> DEFINE S == Closings(o) \ {x}
    <2>1. S \in SUBSET Ids /\ x \in Ids \ S /\ Closings(o) = S \cup {x}
      BY <1>1
    <2>2. orders[x].qty \in 1 .. Lot
      BY <1>1, BoundAssumption DEF TypeOK, OrdersShaped, Closings, Amounts
    <2> HIDE DEF S
    <2>3. Closed(o) = Cardinality(Sold(S)) + orders[x].qty /\ Cardinality(Sold(S)) \in Nat
      BY <1>1, <2>1, <2>2, SoldMore, SoldNat, BoundAssumption
    <2>4. Closings(o) = {x} => Cardinality(Sold(S)) = 0
      BY SoldNone DEF S
    <2>5. orders[x].qty \in Nat /\ orders[x].qty > 0
      BY <2>2, BoundAssumption
    <2> QED  BY <2>3, <2>4, <2>5
  <1> QED  BY <1>2, <1>3

\* Closing o once more adds what executed.
LEMMA ClosedMore ==
  ASSUME NEW o, NEW x \in Ids, x \notin Closings(o), Closings(o)' = Closings(o) \cup {x},
         \A y \in Closings(o) : orders'[y] = orders[y], orders'[x].qty \in 0 .. Lot
  PROVE  Closed(o)' = Closed(o) + orders'[x].qty
  <1> DEFINE U == {u \in {x} \X (1 .. Lot) : u[2] <= orders'[x].qty}
             S == Sold(Closings(o))
  <1>1. IsFiniteSet(U) /\ Cardinality(U) = orders'[x].qty
    BY UnitsOf
  <1>2. Closings(o) \subseteq Ids
    BY DEF Closings, Placed
  <1>3. IsFiniteSet(S) /\ Cardinality(S) \in Nat /\ Closed(o) = Cardinality(S)
    BY <1>2, SoldNat DEF Closed, Sold
  <1>4. Sold(Closings(o))' = S \cup U /\ S \cap U = {}
    BY DEF Sold
  <1>5. Closed(o)' = Cardinality(Sold(Closings(o))')
    BY DEF Closed, Sold
  <1> HIDE DEF U, S
  <1>6. Cardinality(S \cup U) = Cardinality(S) + Cardinality(U) - Cardinality(S \cap U)
    BY <1>1, <1>3, FS_Union
  <1>7. Cardinality(S \cap U) = 0
    BY <1>4, FS_EmptySet
  <1> QED  BY <1>1, <1>3, <1>4, <1>5, <1>6, <1>7

-------------------------------------------------------------------------------
(* What the steps do to the tasks                                              *)

Order == [side : Sides \cup {"none"}, qty : Amounts, filled : BOOLEAN,
          closes : 0 .. MaxOrders, square : BOOLEAN]
Pc == {"idle", "query", "matches", "look", "cancel", "balance", "post", "unknown", "record",
       "match", "row"}
Task == [pc : Pc, exits : BOOLEAN, order : 0 .. MaxOrders, want : Amounts, exit : 0 .. MaxOrders]

\* t is over, or goes on with another pc, want and exit.
Done(t) == task' = [task EXCEPT ![t] = Idle]
Becomes(t, pc, want, exit) ==
    task' = [task EXCEPT ![t] = [pc |-> pc, exits |-> task[t].exits, order |-> task[t].order,
                                 want |-> want, exit |-> exit]]

LEMMA Numbers ==
  /\ Lot \in Nat \ {0} /\ Amounts = 0 .. Lot /\ Ids = 1 .. MaxOrders
  /\ {MaxOrders, Spare, Funds, MaxFaults} \subseteq Nat
  /\ MaxOrders \in Nat /\ Spare \in Nat /\ Funds \in Nat /\ MaxFaults \in Nat
  BY BoundAssumption DEF Amounts, Ids

LEMMA TypeFacts ==
  ASSUME TypeOK
  PROVE  /\ orders \in [Ids -> Order] /\ task \in [Tasks -> Task]
         /\ tracked \in [Ids -> Amounts] /\ position \in [Ids -> Amounts]
         /\ saved \in [Ids -> Amounts] /\ fill \in [Ids -> 0 .. MaxOrders] /\ resting \subseteq Ids
  BY DEF TypeOK, Order, Task, Pc

LEMMA IdleTask == /\ Idle \in Task /\ Idle.pc = "idle" /\ Idle.exits = FALSE
                  /\ Idle.order = 0 /\ Idle.want = 0 /\ Idle.exit = 0
  BY Numbers DEF Idle, Doing, Task, Pc

LEMMA NobodyOrder ==
  /\ Nobody \in Order /\ Nobody.qty = 0 /\ Nobody.closes = 0 /\ Nobody.square = FALSE
  /\ Nobody.filled = FALSE
  BY Numbers DEF Nobody, Order

LEMMA EndForm ==
  ASSUME TypeOK, NEW t \in Tasks, End(t)
  PROVE  Done(t)
  BY DEF End, Done

LEMMA GoesForm ==
  ASSUME TypeOK, NEW t \in Tasks, NEW pc, Goes(t, pc)
  PROVE  Becomes(t, pc, task[t].want, task[t].exit)
  <1>1. task \in [Tasks -> Task]
    BY TypeFacts
  <1>2. task' = [task EXCEPT ![t] = [task[t] EXCEPT !.pc = pc]]
    BY DEF Goes
  <1>3. task[t] \in Task
    BY <1>1
  <1>4. [task[t] EXCEPT !.pc = pc]
          = [pc |-> pc, exits |-> task[t].exits, order |-> task[t].order,
             want |-> task[t].want, exit |-> task[t].exit]
    BY <1>3 DEF Task
  <1> QED  BY <1>2, <1>4 DEF Becomes

LEMMA WantForm ==
  ASSUME TypeOK, NEW t \in Tasks, NEW pc, NEW want,
         task' = [task EXCEPT ![t].pc = pc, ![t].want = want]
  PROVE  Becomes(t, pc, want, task[t].exit)
  <1>1. task \in [Tasks -> Task]
    BY TypeFacts
  <1>2. task' = [task EXCEPT ![t] = [task[t] EXCEPT !.pc = pc, !.want = want]]
    BY <1>1 DEF Task
  <1>3. task[t] \in Task
    BY <1>1
  <1>4. [task[t] EXCEPT !.pc = pc, !.want = want] = [[task[t] EXCEPT !.pc = pc] EXCEPT !.want = want]
    BY <1>3 DEF Task
  <1>5. [task[t] EXCEPT !.pc = pc]
          = [pc |-> pc, exits |-> task[t].exits, order |-> task[t].order,
             want |-> task[t].want, exit |-> task[t].exit]
    BY <1>3 DEF Task
  <1>6. [[pc |-> pc, exits |-> task[t].exits, order |-> task[t].order,
          want |-> task[t].want, exit |-> task[t].exit] EXCEPT !.want = want]
          = [pc |-> pc, exits |-> task[t].exits, order |-> task[t].order,
             want |-> want, exit |-> task[t].exit]
    OBVIOUS
  <1> QED  BY <1>1, <1>2, <1>4, <1>5, <1>6 DEF Becomes

LEMMA ExitForm ==
  ASSUME TypeOK, NEW t \in Tasks, NEW pc, NEW x, task' = [task EXCEPT ![t].pc = pc, ![t].exit = x]
  PROVE  Becomes(t, pc, task[t].want, x)
  <1>1. task \in [Tasks -> Task]
    BY TypeFacts
  <1>2. task' = [task EXCEPT ![t] = [task[t] EXCEPT !.pc = pc, !.exit = x]]
    BY <1>1 DEF Task
  <1>3. task[t] \in Task
    BY <1>1
  <1>4. [task[t] EXCEPT !.pc = pc, !.exit = x] = [[task[t] EXCEPT !.pc = pc] EXCEPT !.exit = x]
    BY <1>3 DEF Task
  <1>5. [task[t] EXCEPT !.pc = pc]
          = [pc |-> pc, exits |-> task[t].exits, order |-> task[t].order,
             want |-> task[t].want, exit |-> task[t].exit]
    BY <1>3 DEF Task
  <1>6. [[pc |-> pc, exits |-> task[t].exits, order |-> task[t].order,
          want |-> task[t].want, exit |-> task[t].exit] EXCEPT !.exit = x]
          = [pc |-> pc, exits |-> task[t].exits, order |-> task[t].order,
             want |-> task[t].want, exit |-> x]
    OBVIOUS
  <1> QED  BY <1>1, <1>2, <1>4, <1>5, <1>6 DEF Becomes

LEMMA BookForm ==
  ASSUME TypeOK, NEW t \in Tasks, NEW pc, NEW want, NEW x,
         task' = [task EXCEPT ![t].pc = pc, ![t].want = want, ![t].exit = x]
  PROVE  Becomes(t, pc, want, x)
  <1>1. task \in [Tasks -> Task]
    BY TypeFacts
  <1>2. task' = [task EXCEPT ![t] = [task[t] EXCEPT !.pc = pc, !.want = want, !.exit = x]]
    BY <1>1 DEF Task
  <1>3. task[t] \in Task
    BY <1>1
  <1> DEFINE a == [task[t] EXCEPT !.pc = pc]
             b == [a EXCEPT !.want = want]
  <1>4. [task[t] EXCEPT !.pc = pc, !.want = want, !.exit = x] = [b EXCEPT !.exit = x]
    BY <1>3 DEF Task
  <1>5. a = [pc |-> pc, exits |-> task[t].exits, order |-> task[t].order,
             want |-> task[t].want, exit |-> task[t].exit]
    BY <1>3 DEF Task
  <1> HIDE DEF a
  <1>6. b = [pc |-> pc, exits |-> task[t].exits, order |-> task[t].order,
             want |-> want, exit |-> task[t].exit]
    BY <1>5
  <1> HIDE DEF b
  <1>7. [b EXCEPT !.exit = x] = [pc |-> pc, exits |-> task[t].exits, order |-> task[t].order,
                                 want |-> want, exit |-> x]
    BY <1>6
  <1> QED  BY <1>1, <1>2, <1>4, <1>7 DEF Becomes

\* The fields of a task that goes on.
LEMMA BecomesFields ==
  ASSUME TypeOK, NEW t \in Tasks, NEW pc, NEW want, NEW x, Becomes(t, pc, want, x)
  PROVE  /\ task'[t].pc = pc /\ task'[t].exits = task[t].exits /\ task'[t].order = task[t].order
         /\ task'[t].want = want /\ task'[t].exit = x
         /\ \A u \in Tasks \ {t} : task'[u] = task[u]
  BY TypeFacts DEF Becomes

LEMMA DoneFields ==
  ASSUME TypeOK, NEW t \in Tasks, Done(t)
  PROVE  /\ task'[t] = Idle /\ task'[t].pc = "idle" /\ task'[t].exits = FALSE
         /\ task'[t].order = 0 /\ task'[t].want = 0 /\ task'[t].exit = 0
         /\ \A u \in Tasks \ {t} : task'[u] = task[u]
  BY TypeFacts, IdleTask DEF Done

-------------------------------------------------------------------------------
(* Quantities                                                                  *)

\* What remains, and what a square-off asks for, is at most what the order executed.
LEMMA RemainingFacts ==
  ASSUME TypeOK, NEW o \in Ids
  PROVE  Remaining(o) \in 0 .. orders[o].qty
  <1>1. /\ MatchedBy(o) \in Nat /\ MatchedAs(o) \in Nat
    BY PairsFinite DEF MatchedBy, MatchedAs
  <1>2. orders[o].qty \in Nat
    BY TypeFacts, Numbers DEF Order
  <1>3. orders[o].qty - Matched(o) \in Int /\ orders[o].qty - Matched(o) <= orders[o].qty
    BY <1>1, <1>2 DEF Matched
  <1> QED  BY <1>2, <1>3, MaxTwo DEF Remaining

LEMMA ToCloseFacts ==
  ASSUME TypeOK, NEW o \in Ids, NEW known \in 0 .. orders[o].qty
  PROVE  ToClose(o, known) \in 0 .. orders[o].qty
  <1>1. Remaining(o) \in 0 .. orders[o].qty
    BY RemainingFacts
  <1>2. orders[o].qty \in Nat
    BY TypeFacts, Numbers DEF Order
  <1> DEFINE r == Remaining(o)
  <1> HIDE DEF r
  <1>3. CASE known = 0
    BY <1>1, <1>2, <1>3 DEF ToClose, r
  <1>4. CASE known # 0 /\ r = 0
    BY <1>1, <1>2, <1>4 DEF ToClose, r
  <1>5. CASE known # 0 /\ r # 0
    <2>1. ToClose(o, known) = Min({r, known})
      BY <1>5 DEF ToClose, r
    <2> QED  BY <1>1, <1>2, <2>1, MinTwo DEF r
  <1> QED  BY <1>3, <1>4, <1>5

-------------------------------------------------------------------------------
(* The steps, as the proofs use them                                           *)

Frame == TypeOK /\ OrdersShaped /\ TasksShaped /\ ExitsOnce /\ Bounded /\ RowsTrue /\ StopsShaped

\* query_order's record of o.
Reads(o) == tracked' = Noted(o) /\ astray' = astray \cup Resets(o)

\* A task that has not sent its order ends, or goes on without one, with less to
\* ask for.
Advance(t) ==
    /\ UNCHANGED <<orders, rows, position>>
    /\ task[t].pc \in {"query", "matches", "look", "cancel", "balance", "post"}
    /\ \/ Done(t)
       \/ \E pc \in {"matches", "cancel", "balance", "post", "unknown"}, want \in Amounts :
            /\ Becomes(t, pc, want, 0)
            /\ (task[t].exits => pc # "matches") /\ (pc = "cancel" => task[t].exits)
            /\ want <= orders[task[t].order].qty /\ (task[t].exits => want <= task[t].want)

\* The variables the tasks and the orders do not depend on.
Rest ==
    /\ base \in Nat /\ quote \in Nat /\ squaring \subseteq Ids /\ faults \in 0 .. MaxFaults
    /\ resting \subseteq Ids /\ fill \in [Ids -> 0 .. MaxOrders] /\ saved \in [Ids -> Amounts]

\* They keep their types: an order is sent for what is available.
LEMMA RestTypes ==
  ASSUME Frame, [Next]_vars
  PROVE  Rest'
  <1>0. /\ base \in Nat /\ quote \in Nat /\ squaring \subseteq Ids /\ faults \in 0 .. MaxFaults
        /\ resting \subseteq Ids /\ fill \in [Ids -> 0 .. MaxOrders] /\ saved \in [Ids -> Amounts]
        /\ position \in [Ids -> Amounts] /\ Lot \in Nat
    BY Numbers DEF Frame, TypeOK
  <1>1. ASSUME NEW side \in Sides, NEW qty \in Nat, Available(side) >= qty, NEW x \in Ids,
               NEW whole, NEW closes, NEW square, Execute(x, side, qty, whole, closes, square)
        PROVE  quote' \in Nat /\ (Moves(side, qty) => base' \in Nat)
    BY <1>0, <1>1 DEF Available, Sides, Execute, Moves
  <1>2. ASSUME NEW side \in Sides, NEW entry \in BOOLEAN, Place(side, entry)
        PROVE  Rest'
    <2>1. PICK x \in Ids :
            /\ Execute(x, side, Lot, TRUE, 0, FALSE)
            /\ \/ /\ saved' = [saved EXCEPT ![x] = Lot]
                  /\ resting' = resting \cup {x} /\ UNCHANGED base
               \/ Moves(side, Lot) /\ UNCHANGED <<saved, resting>>
      BY <1>2 DEF Place
    <2>2. Available(side) >= Lot /\ UNCHANGED <<fill, squaring, faults>>
      BY <1>2 DEF Place
    <2>3. quote' \in Nat /\ base' \in Nat
      BY <1>0, <1>1, <2>1, <2>2
    <2>4. Lot \in Amounts
      BY Numbers
    <2>5. saved' \in [Ids -> Amounts] /\ resting' \subseteq Ids
      BY <1>0, <2>1, <2>4
    <2> QED  BY <1>0, <2>2, <2>3, <2>5 DEF Rest
  <1>3. ASSUME NEW o \in Ids, Trigger(o)
        PROVE  Rest'
    <2>1. PICK x \in Ids :
            Execute(x, "SELL", Lot, TRUE, o, FALSE) /\ fill' = [fill EXCEPT ![o] = x]
      BY <1>3 DEF Trigger
    <2>2. resting' = resting \ {o} /\ UNCHANGED <<base, squaring, saved, faults>>
      BY <1>3 DEF Trigger, memory
    <2>3. quote' \in Nat
      BY <1>0, <2>1 DEF Execute
    <2>4. fill' \in [Ids -> 0 .. MaxOrders]
      BY <1>0, <2>1, Numbers
    <2> QED  BY <1>0, <2>2, <2>3, <2>4 DEF Rest
  <1>4. Fault => faults' \in 0 .. MaxFaults
    BY <1>0, Numbers DEF Fault
  <1>5. ASSUME NEW t \in Tasks, Post(t)
        PROVE  Rest'
    <2>1. CloseSide(t) \in Sides
      BY DEF CloseSide, Opposite, Sides
    <2>2. PICK x \in Ids, qty \in 1 .. task[t].want :
            /\ Execute(x, CloseSide(t), qty, qty = task[t].want, task[t].order, ~task[t].exits)
            /\ Moves(CloseSide(t), qty)
      BY <1>5 DEF Post
    <2>3. task[t].want \in Nat
      BY TypeFacts, Numbers DEF Task, Frame
    <2>4. qty \in Nat /\ Available(CloseSide(t)) >= qty
      BY <1>0, <1>5, <2>2, <2>3 DEF Post, Available
    <2>5. quote' \in Nat /\ base' \in Nat
      BY <1>1, <2>1, <2>2, <2>4
    <2>6. UNCHANGED <<resting, fill, saved, squaring>> /\ (UNCHANGED faults \/ Fault)
      BY <1>5 DEF Post, memory
    <2> QED  BY <1>0, <1>4, <2>5, <2>6 DEF Rest
  <1>6. ASSUME NEW t \in Tasks, Cancel(t)
        PROVE  Rest'
    <2>1. /\ UNCHANGED <<quote, fill, saved, squaring, faults>>
          /\ resting' \subseteq resting /\ base' \in {base, base + Lot}
      BY <1>6 DEF Cancel, memory
    <2> QED  BY <1>0, <2>1 DEF Rest
  <1>7. ASSUME NEW t \in Tasks, Match(t)
        PROVE  Rest'
    <2>1. task[t].order \in Ids
      BY <1>7 DEF Match, Frame, TasksShaped, Placed
    <2>2. /\ UNCHANGED <<base, quote, resting, fill, squaring, faults>>
          /\ saved' \in {saved, [saved EXCEPT ![task[t].order] = position[task[t].order]]}
      BY <1>7 DEF Match, exchange
    <2>3. saved' \in [Ids -> Amounts]
      BY <1>0, <2>1, <2>2
    <2> QED  BY <1>0, <2>2, <2>3 DEF Rest
  <1>8. ASSUME NEW t \in Tasks, Step(t), ~Post(t), ~Cancel(t), ~Match(t)
        PROVE  Rest'
    <2>1. /\ UNCHANGED <<base, quote, resting, fill, saved>> /\ squaring' \subseteq squaring
          /\ faults' = faults \/ Fault
      BY <1>8 DEF Step, Query, Matches, Look, Fails, Balance, PostLost, Reconcile, Record, Store,
           WriteFails, End, exchange, memory
    <2> QED  BY <1>0, <1>4, <2>1 DEF Rest
  <1>9. CASE \E t \in Tasks : Step(t)
    BY <1>5, <1>6, <1>7, <1>8, <1>9
  <1>10. CASE \E t \in Tasks, o \in Ids : Claim(t, o) \/ StartExit(t, o)
    BY <1>0, <1>10 DEF Claim, StartExit, exchange, memory, Rest
  <1>11. CASE Restart \/ \E o \in Ids : QueryOrder(o)
    BY <1>0, <1>4, <1>11 DEF Restart, QueryOrder, exchange, Rest
  <1>12. CASE UNCHANGED vars
    BY <1>0, <1>12 DEF vars, exchange, memory, Rest
  <1> QED  BY <1>2, <1>3, <1>9, <1>10, <1>11, <1>12 DEF Next

\* The rest of the type invariant.
LEMMA TypeParts ==
  ASSUME orders' \in [Ids -> Order], Rest', tracked' \in [Ids -> Amounts],
         position' \in [Ids -> Amounts], task' \in [Tasks -> Task],
         astray' \subseteq Ids \X Reasons,
         rows' \subseteq [entry : Ids, exit : Ids, qty : Amounts \ {0}],
         \A r, s \in rows' : r.entry = s.entry /\ r.exit = s.exit => r = s
  PROVE  TypeOK'
  BY DEF TypeOK, Order, Task, Pc, Rest

\* What a step does to the stops and to what is saved of the positions where
\* nothing executes: a stop may be cancelled, a position saved.
Stays == UNCHANGED <<resting, fill, saved>>

LEMMA StepStays ==
  ASSUME NEW t \in Tasks, Step(t), ~Post(t), ~Cancel(t), ~Match(t)
  PROVE  Stays
  BY DEF Stays, Step, Query, Matches, Look, Fails, Balance, PostLost, Reconcile, Record, Store,
     WriteFails, exchange

\* A task changes to one of its type.
LEMMA TaskChange ==
  ASSUME TypeOK, NEW t \in Tasks,
         \/ Done(t)
         \/ \E pc \in Pc, want \in Amounts, x \in 0 .. MaxOrders : Becomes(t, pc, want, x)
  PROVE  task' \in [Tasks -> Task]
  <1>1. task \in [Tasks -> Task]
    BY TypeFacts
  <1>2. CASE Done(t)
    BY <1>1, <1>2, IdleTask DEF Done
  <1>3. ASSUME NEW pc \in Pc, NEW want \in Amounts, NEW x \in 0 .. MaxOrders,
               Becomes(t, pc, want, x)
        PROVE  task' \in [Tasks -> Task]
    <2> DEFINE r == [pc |-> pc, exits |-> task[t].exits, order |-> task[t].order,
                     want |-> want, exit |-> x]
    <2>1. r \in Task
      BY <1>1 DEF Task
    <2> QED  BY <1>1, <1>3, <2>1 DEF Becomes
  <1> QED  BY <1>2, <1>3

LEMMA QueryForm ==
  ASSUME Frame, NEW t \in Tasks, Query(t)
  PROVE  /\ Advance(t) /\ task[t].pc = "query" /\ ~task[t].exits /\ Reads(task[t].order)
         /\ task[t].order \in Placed
         /\ orders[task[t].order].filled \/ Done(t)
  <1> DEFINE o == task[t].order
  <1>0. task \in [Tasks -> Task] /\ TypeOK
    BY TypeFacts DEF Frame
  <1>1. /\ UNCHANGED <<orders, rows, position>> /\ task[t].pc = "query" /\ Reads(o)
        /\ (orders[o].filled /\ Goes(t, "matches")) \/ (~orders[o].filled /\ End(t))
    BY DEF Query, exchange, Reads
  <1>2. ~task[t].exits /\ task[t].exit = 0 /\ o \in Placed
    BY <1>0, <1>1 DEF Frame, TasksShaped, Landed, Task
  <1>3. task[t].want \in Amounts /\ task[t].want <= orders[o].qty
    BY <1>0, <1>1 DEF Frame, Bounded, Task
  <1>4. CASE Goes(t, "matches") /\ orders[o].filled
    BY <1>0, <1>1, <1>2, <1>3, <1>4, GoesForm DEF Advance
  <1>5. CASE End(t)
    BY <1>0, <1>1, <1>2, <1>5, EndForm DEF Advance
  <1> QED  BY <1>1, <1>4, <1>5

\* Look: the stop executed, and is the exit's closing order, or the exit goes on.
Finds(t) ==
    LET o == task[t].order
    IN /\ task[t].pc = "look" /\ fill[o] # 0 /\ UNCHANGED <<orders, rows, astray>>
       /\ tracked' = Noted(fill[o]) /\ Becomes(t, "match", position[o], fill[o])
       /\ position' = [position EXCEPT ![o] = 0]
Passes(t) ==
    /\ task[t].pc = "look" /\ Goes(t, "cancel") /\ UNCHANGED <<orders, rows, position, tracked>>
    /\ astray' = IF fill[task[t].order] # 0 THEN astray \cup {<<task[t].order, "raced">>}
                 ELSE astray

LEMMA LookForm ==
  ASSUME Frame, NEW t \in Tasks, Look(t)
  PROVE  Finds(t) \/ Passes(t)
  <1> DEFINE o == task[t].order
             x == fill[o]
  <1>1. CASE Goes(t, "cancel") /\ UNCHANGED <<tracked, position>>
             /\ astray' = IF x # 0 THEN astray \cup {<<o, "raced">>} ELSE astray
    BY <1>1 DEF Look, Passes, exchange
  <1>2. CASE /\ x # 0
             /\ tracked' = Noted(x) /\ UNCHANGED astray
             /\ task' = [task EXCEPT ![t].pc = "match", ![t].want = position[o], ![t].exit = x]
             /\ position' = [position EXCEPT ![o] = Max({0, position[o] - orders[x].qty})]
    <2>1. TypeOK /\ o \in Placed /\ o \in Ids /\ task[t].pc = "look"
      BY <1>2 DEF Frame, TasksShaped, Placed, Look
    <2>2. orders[x].qty = orders[o].qty /\ position[o] <= orders[o].qty
      BY <1>2, <2>1 DEF Frame, StopsShaped, Bounded
    <2>3. position[o] \in Nat /\ orders[o].qty \in Nat
      BY <2>1, TypeFacts, Numbers DEF Order
    <2>4. Max({0, position[o] - orders[x].qty}) = 0
      <3> DEFINE d == position[o] - orders[x].qty
      <3>1. d \in Int /\ ~(0 < d)
        BY <2>2, <2>3
      <3> HIDE DEF d
      <3> QED  BY <3>1, MaxTwo DEF d
    <2>5. Becomes(t, "match", position[o], x)
      <3> DEFINE want == position[o]
      <3> HIDE DEF x, want
      <3>1. task' = [task EXCEPT ![t].pc = "match", ![t].want = want, ![t].exit = x]
        BY <1>2 DEF want
      <3> QED  BY <2>1, <3>1, BookForm DEF want
    <2> QED  BY <1>2, <2>1, <2>4, <2>5 DEF Look, Finds, exchange
  <1> QED  BY <1>1, <1>2 DEF Look

LEMMA AdvanceForm ==
  ASSUME Frame, NEW t \in Tasks,
         Matches(t) \/ Passes(t) \/ Cancel(t) \/ Fails(t) \/ Balance(t) \/ PostLost(t)
  PROVE  /\ Advance(t) /\ UNCHANGED tracked /\ (task[t].pc = "query" => Done(t))
         /\ astray \subseteq astray' /\ astray' \subseteq Ids \X Reasons
  <1> DEFINE o == task[t].order
  <1>0. task \in [Tasks -> Task] /\ TypeOK
    BY TypeFacts DEF Frame
  <1>1. /\ UNCHANGED <<orders, rows, position, tracked>>
        /\ task[t].pc \in {"query", "matches", "look", "cancel", "balance", "post"}
    BY DEF Matches, Passes, Cancel, Fails, Balance, PostLost, exchange, memory
  <1>1a. astray \subseteq astray' /\ astray' \subseteq Ids \X Reasons
    <2>1. astray \subseteq Ids \X Reasons
      BY <1>0 DEF TypeOK
    <2>2. o # 0 => o \in Ids
      BY <1>0, Numbers DEF Task
    <2>3. task[t].pc \in {"look", "cancel"} => o \in Ids
      BY DEF Frame, TasksShaped, Placed
    <2>4. o \in Ids => <<o, "raced">> \in Ids \X Reasons
      BY DEF Reasons
    <2> QED  BY <2>1, <2>3, <2>4 DEF Matches, Passes, Cancel, Fails, Balance, PostLost
  <1>2. task[t].exit = 0 /\ o \in Placed /\ (task[t].pc = "matches" => ~task[t].exits)
    BY <1>0, <1>1 DEF Frame, TasksShaped, Landed, Task
  <1>3. task[t].want \in Amounts /\ task[t].want <= orders[o].qty /\ orders[o].qty \in Amounts
    BY <1>0, <1>1, <1>2, TypeFacts DEF Frame, Bounded, Task, Placed, Order
  <1>4. CASE End(t)
    BY <1>0, <1>1, <1>4, <1>1a, EndForm DEF Advance
  <1>5. ASSUME NEW want \in Amounts, want <= orders[o].qty, task[t].exits => want <= task[t].want,
               NEW pc \in {"balance", "post", "unknown"}, task[t].pc # "query",
               task' = [task EXCEPT ![t].pc = pc, ![t].want = want]
        PROVE  Advance(t) /\ UNCHANGED tracked /\ (task[t].pc = "query" => Done(t))
    BY <1>0, <1>1, <1>2, <1>5, WantForm DEF Advance
  <1>6. CASE Matches(t)
    <2> DEFINE want == ToClose(o, task[t].want)
    <2>1. o \in Ids /\ task[t].want \in 0 .. orders[o].qty
      BY <1>2, <1>3, Numbers DEF Placed
    <2>2. want \in 0 .. orders[o].qty
      BY <1>0, <2>1, ToCloseFacts
    <2> HIDE DEF want
    <2>3. want \in Amounts /\ want <= orders[o].qty
      BY <1>3, <2>2, Numbers
    <2>4. CASE task' = [task EXCEPT ![t].pc = "balance", ![t].want = want]
      BY <1>2, <1>5, <1>6, <1>1a, <2>3, <2>4 DEF Matches
    <2> QED  BY <1>4, <1>6, <2>4 DEF Matches, want
  <1>7. CASE Fails(t)
    BY <1>4, <1>7 DEF Fails
  <1>8. CASE Balance(t)
    <2> DEFINE want == Min({task[t].want, Available(CloseSide(t))})
    <2>1. task[t].want \in Nat /\ Available(CloseSide(t)) \in Nat /\ orders[o].qty \in Nat
      BY <1>0, <1>3, Numbers DEF Available, TypeOK
    <2>2. want \in Nat /\ want <= task[t].want
      BY <2>1, MinTwo
    <2> HIDE DEF want
    <2>3. want \in Amounts /\ want <= orders[o].qty
      BY <1>3, <2>1, <2>2, Numbers
    <2>4. CASE task' = [task EXCEPT ![t].pc = "post", ![t].want = want]
      BY <1>5, <1>8, <1>1a, <2>2, <2>3, <2>4 DEF Balance
    <2> QED  BY <1>4, <1>8, <2>4 DEF Balance, want
  <1>9. CASE PostLost(t)
    <2>1. task[t].pc = "post" /\ Goes(t, "unknown")
      BY <1>9 DEF PostLost
    <2>2. Becomes(t, "unknown", task[t].want, 0)
      BY <1>0, <1>2, <2>1, GoesForm
    <2>3. task[t].exits => task[t].want <= task[t].want
      BY <1>3, Numbers
    <2> QED  BY <1>1, <1>3, <1>1a, <2>1, <2>2, <2>3 DEF Advance
  <1>10. CASE Passes(t) \/ Cancel(t)
    <2>1. PICK pc \in {"cancel", "balance"} :
            Goes(t, pc) /\ task[t].pc = IF pc = "cancel" THEN "look" ELSE "cancel"
      BY <1>10 DEF Passes, Cancel
    <2>2. Becomes(t, pc, task[t].want, 0) /\ task[t].exits
      BY <1>0, <1>2, <2>1, GoesForm DEF Frame, TasksShaped
    <2>3. task[t].want <= task[t].want
      BY <1>3, Numbers
    <2> QED  BY <1>1, <1>3, <1>1a, <2>1, <2>2, <2>3 DEF Advance
  <1> QED  BY <1>6, <1>7, <1>8, <1>9, <1>1a, <1>10

-------------------------------------------------------------------------------
(* Steps that execute nothing                                                  *)

LEMMA KeptOrders ==
  ASSUME UNCHANGED orders, OrdersShaped
  PROVE  /\ Placed' = Placed /\ OrdersShaped' /\ \A o : Closings(o)' = Closings(o)
         /\ \A o : Closed(o)' = Closed(o)
  BY DEF Placed, OrdersShaped, Closings, Closed

\* An order that is recorded is tracked with what it executed.
LEMMA NotedFacts ==
  ASSUME Frame, NEW o \in Placed, tracked' = Noted(o)
  PROVE  /\ tracked' \in [Ids -> Amounts] /\ \A p \in Ids : tracked'[p] <= orders[p].qty
         /\ \A p \in Ids : p # o => tracked'[p] = tracked[p]
         /\ tracked'[o] = IF orders[o].filled THEN orders[o].qty ELSE tracked[o]
  <1>0. o \in Ids /\ TypeOK
    BY DEF Placed, Frame
  <1>1. orders[o].qty \in Amounts /\ orders[o].qty <= orders[o].qty
    BY <1>0, TypeFacts, Numbers DEF Order
  <1>2. tracked' = IF orders[o].filled THEN [tracked EXCEPT ![o] = orders[o].qty] ELSE tracked
    BY DEF Noted
  <1>3. tracked \in [Ids -> Amounts] /\ \A p \in Ids : tracked[p] <= orders[p].qty
    BY <1>0, TypeFacts DEF Frame, Bounded
  <1> QED  BY <1>0, <1>1, <1>2, <1>3

LEMMA ReadsTypes ==
  ASSUME Frame, NEW o \in Placed, Reads(o)
  PROVE  astray' \subseteq Ids \X Reasons
  <1>1. Resets(o) \subseteq Ids \X Reasons
    BY DEF Resets, Reasons, Placed
  <1> QED  BY <1>1 DEF Reads, TypeOK, Frame

\* What a step on memory and the tables alone must respect: a stop is at most
\* cancelled, and a position that is saved is one the order may have.
Memorized ==
    /\ Rest' /\ resting' \subseteq resting /\ fill' = fill
    /\ tracked' \in [Ids -> Amounts] /\ \A o \in Ids : tracked'[o] <= orders[o].qty
    /\ \A o \in Ids : saved'[o] <= orders[o].qty /\ (saved'[o] > 0 => orders[o].closes = 0)
    /\ astray' \subseteq Ids \X Reasons

\* Most steps leave the stops and what is saved alone.
LEMMA Memorizes ==
  ASSUME Frame, Rest', Stays, tracked' \in [Ids -> Amounts],
         \A o \in Ids : tracked'[o] <= orders[o].qty, astray' \subseteq Ids \X Reasons
  PROVE  Memorized
  BY DEF Memorized, Stays, Frame, Bounded

LEMMA KeptStops ==
  ASSUME Frame, UNCHANGED orders, Memorized
  PROVE  StopsShaped'
  BY DEF Frame, StopsShaped, Memorized, Placed

\* RowsTrue and the types of rows are kept where rows and orders are.
LEMMA KeptRows ==
  ASSUME Frame, UNCHANGED <<orders, rows>>
  PROVE  /\ RowsTrue' /\ rows' \subseteq [entry : Ids, exit : Ids, qty : Amounts \ {0}]
         /\ \A r, s \in rows' : r.entry = s.entry /\ r.exit = s.exit => r = s
         /\ orders' \in [Ids -> Order]
  BY KeptOrders, TypeFacts DEF Frame, RowsTrue, TypeOK

LEMMA FrameAdvance ==
  ASSUME Frame, NEW t \in Tasks, Advance(t), Memorized
  PROVE  Frame'
  <1>0. /\ TypeOK /\ OrdersShaped /\ UNCHANGED <<orders, rows, position>>
        /\ task \in [Tasks -> Task] /\ position \in [Ids -> Amounts]
    BY TypeFacts DEF Frame, Advance
  <1>1. task' \in [Tasks -> Task]
    <2>1. {"matches", "cancel", "balance", "post", "unknown"} \subseteq Pc /\ 0 \in 0 .. MaxOrders
      BY Numbers DEF Pc
    <2> QED  BY <1>0, <2>1, TaskChange DEF Advance
  <1>2. TypeOK'
    BY <1>0, <1>1, KeptRows, TypeParts DEF Memorized
  <1>3. OrdersShaped' /\ RowsTrue' /\ StopsShaped' /\ Placed' = Placed
    BY <1>0, KeptOrders, KeptRows, KeptStops
  <1>4. CASE Done(t)
    <2>1. /\ task'[t] = Idle /\ task'[t].pc = "idle" /\ task'[t].exits = FALSE
          /\ task'[t].exit = 0
          /\ \A u \in Tasks \ {t} : task'[u] = task[u]
      BY <1>0, <1>4, DoneFields
    <2>2. TasksShaped' /\ ExitsOnce'
      BY <1>0, <1>3, <2>1 DEF Frame, TasksShaped, ExitsOnce, Landed
    <2>3. Bounded'
      BY <1>0, <2>1 DEF Frame, Bounded, Memorized
    <2> QED  BY <1>2, <1>3, <2>2, <2>3 DEF Frame
  <1>5. ASSUME NEW pc \in {"matches", "cancel", "balance", "post", "unknown"},
               NEW want \in Amounts, Becomes(t, pc, want, 0),
               task[t].exits => pc # "matches", pc = "cancel" => task[t].exits,
               want <= orders[task[t].order].qty, task[t].exits => want <= task[t].want
        PROVE  Frame'
    <2>1. /\ task'[t].pc = pc /\ task'[t].exits = task[t].exits /\ task'[t].order = task[t].order
          /\ task'[t].want = want /\ task'[t].exit = 0
          /\ \A u \in Tasks \ {t} : task'[u] = task[u]
      BY <1>0, <1>5, BecomesFields
    <2>2. task[t].pc \in {"query", "matches", "look", "cancel", "balance", "post"}
      BY DEF Advance
    <2>3. /\ task[t].order \in Placed
          /\ task[t].exits => task[t].pc \in {"look", "cancel", "balance", "post"}
      BY <2>2 DEF Frame, TasksShaped
    <2>4. TasksShaped' /\ ExitsOnce'
      BY <1>0, <1>3, <1>5, <2>1, <2>3 DEF Frame, TasksShaped, ExitsOnce, Landed
    <2>5. task[t].exits => want <= position[task[t].order] /\ orders[task[t].order].closes = 0
      <3>1. ASSUME task[t].exits
            PROVE  want <= task[t].want /\ task[t].want <= position[task[t].order]
                   /\ orders[task[t].order].closes = 0
        BY <1>5, <2>3, <3>1 DEF Frame, Bounded
      <3>2. want \in Nat /\ task[t].want \in Nat /\ position[task[t].order] \in Nat
        BY <1>0, <2>3, Numbers DEF Task, Placed
      <3> QED  BY <3>1, <3>2
    <2>6. Bounded'
      BY <1>0, <1>5, <2>1, <2>5 DEF Frame, Bounded, Memorized
    <2> QED  BY <1>2, <1>3, <2>4, <2>6 DEF Frame
  <1> QED  BY <1>4, <1>5 DEF Advance

\* QueryOrder and steps that change none of it.
LEMMA FrameSame ==
  ASSUME Frame, UNCHANGED <<orders, rows, position, task>>, Memorized
  PROVE  Frame'
  <1>0. /\ TypeOK /\ OrdersShaped
        /\ task \in [Tasks -> Task] /\ position \in [Ids -> Amounts]
    BY TypeFacts DEF Frame
  <1>1. TypeOK'
    BY <1>0, KeptRows, TypeParts DEF Memorized
  <1>2. OrdersShaped' /\ RowsTrue' /\ StopsShaped' /\ Placed' = Placed
    BY <1>0, KeptOrders, KeptRows, KeptStops
  <1>3. TasksShaped' /\ ExitsOnce'
    BY <1>2 DEF Frame, TasksShaped, ExitsOnce
  <1>4. Bounded'
    BY DEF Frame, Bounded, Memorized
  <1> QED  BY <1>1, <1>2, <1>3, <1>4 DEF Frame

\* A task ends, with or without its row.
LEMMA FrameDone ==
  ASSUME Frame, NEW t \in Tasks, Done(t), UNCHANGED <<orders, position>>, Memorized, RowsTrue',
         rows' \subseteq [entry : Ids, exit : Ids, qty : Amounts \ {0}],
         \A r, s \in rows' : r.entry = s.entry /\ r.exit = s.exit => r = s
  PROVE  Frame'
  <1>0. /\ TypeOK /\ OrdersShaped
        /\ task \in [Tasks -> Task] /\ position \in [Ids -> Amounts]
    BY TypeFacts DEF Frame
  <1>1. task' \in [Tasks -> Task] /\ orders' \in [Ids -> Order]
    BY <1>0, TaskChange, TypeFacts
  <1>2. TypeOK'
    BY <1>0, <1>1, TypeParts DEF Memorized
  <1>3. OrdersShaped' /\ StopsShaped' /\ Placed' = Placed
    BY <1>0, KeptOrders, KeptStops
  <1>4. /\ task'[t] = Idle /\ task'[t].pc = "idle" /\ task'[t].exits = FALSE
        /\ task'[t].exit = 0
        /\ \A u \in Tasks \ {t} : task'[u] = task[u]
    BY <1>0, DoneFields
  <1>5. TasksShaped' /\ ExitsOnce'
    BY <1>0, <1>3, <1>4 DEF Frame, TasksShaped, ExitsOnce, Landed
  <1>6. Bounded'
    BY <1>0, <1>4 DEF Frame, Bounded, Memorized
  <1> QED  BY <1>2, <1>3, <1>5, <1>6 DEF Frame

\* An idle task begins on an order.
Begin(t, o, pc, exits, want) == task' = [task EXCEPT ![t] = Doing(pc, exits, o, want)]

LEMMA FrameBegins ==
  ASSUME Frame, NEW t \in Tasks, task[t].pc = "idle", NEW o \in Placed, NEW want \in Amounts,
         want <= orders[o].qty, UNCHANGED <<orders, rows, position>>, Memorized,
         NEW exits \in BOOLEAN, NEW pc \in {"query", "look", "balance"}, exits <=> pc # "query",
         Begin(t, o, pc, exits, want),
         exits => /\ position[o] = want /\ orders[o].closes = 0
                  /\ ~\E u \in Tasks : task[u].exits /\ task[u].order = o
  PROVE  Frame'
  <1>0. /\ TypeOK /\ OrdersShaped /\ o \in 0 .. MaxOrders
        /\ task \in [Tasks -> Task] /\ position \in [Ids -> Amounts]
    BY TypeFacts, Numbers DEF Frame, Placed
  <1> DEFINE r == Doing(pc, exits, o, want)
  <1>1. r \in Task /\ task' = [task EXCEPT ![t] = r]
    BY <1>0, Numbers DEF Task, Pc, Begin, Doing
  <1>2. r.pc = pc /\ r.exits = exits /\ r.order = o /\ r.want = want /\ r.exit = 0
    BY DEF Doing
  <1> HIDE DEF r
  <1>3. task' \in [Tasks -> Task] /\ task'[t] = r /\ \A u \in Tasks \ {t} : task'[u] = task[u]
    BY <1>0, <1>1
  <1>4. TypeOK'
    BY <1>0, <1>3, KeptRows, TypeParts DEF Memorized
  <1>5. OrdersShaped' /\ RowsTrue' /\ StopsShaped' /\ Placed' = Placed
    BY <1>0, KeptOrders, KeptRows, KeptStops
  <1>6. TasksShaped'
    BY <1>2, <1>3, <1>5 DEF Frame, TasksShaped, Landed
  <1>7. ExitsOnce'
    BY <1>2, <1>3 DEF Frame, ExitsOnce
  <1>8. want \in Nat
    BY Numbers
  <1>9. Bounded'
    BY <1>2, <1>3, <1>8 DEF Frame, Bounded, Memorized
  <1> QED  BY <1>4, <1>5, <1>6, <1>7, <1>9 DEF Frame

LEMMA BeginForm ==
  ASSUME Frame, NEW t \in Tasks, NEW o \in Ids, Claim(t, o) \/ StartExit(t, o)
  PROVE  \E exits \in BOOLEAN, pc \in {"query", "look", "balance"}, want \in Amounts :
           /\ exits <=> pc # "query"
           /\ Begin(t, o, pc, exits, want) /\ want <= orders[o].qty
           /\ o \in Placed /\ task[t].pc = "idle"
           /\ UNCHANGED <<orders, rows, position, tracked, astray>> /\ Stays
           /\ pc = "look" => Stopped(o)
           /\ pc = "balance" => ~Stopped(o) /\ want > 0
           /\ exits => /\ position[o] = want /\ orders[o].closes = 0
                       /\ ~\E u \in Tasks : task[u].exits /\ task[u].order = o
  <1>0. /\ tracked[o] \in Amounts /\ tracked[o] <= orders[o].qty
        /\ position[o] \in Amounts /\ position[o] <= orders[o].qty
        /\ position[o] > 0 => orders[o].closes = 0
    BY TypeFacts DEF Frame, Bounded
  <1>1. CASE Claim(t, o)
    <2>2. /\ Begin(t, o, "query", FALSE, tracked[o]) /\ task[t].pc = "idle" /\ o \in Placed
          /\ UNCHANGED <<orders, rows, position, tracked, astray>> /\ Stays
      BY <1>1 DEF Claim, Begin, exchange, Stays
    <2> QED  BY <1>0, <2>2
  <1>2. CASE StartExit(t, o)
    <2>2. /\ Begin(t, o, IF Stopped(o) THEN "look" ELSE "balance", TRUE, position[o])
          /\ task[t].pc = "idle" /\ position[o] > 0
          /\ UNCHANGED <<orders, rows, position, tracked, astray>> /\ Stays
          /\ ~\E u \in Tasks : task[u].exits /\ task[u].order = o
      BY <1>2 DEF StartExit, Begin, exchange, memory, Stays
    <2>3. o \in Placed
      <3>1. orders[o].qty # 0
        BY <1>0, <2>2, TypeFacts, Numbers DEF Frame, Order
      <3> QED  BY <3>1, NobodyOrder DEF Placed
    <2>4. CASE Stopped(o)
      BY <1>0, <2>2, <2>3, <2>4
    <2>5. CASE ~Stopped(o)
      BY <1>0, <2>2, <2>3, <2>5
    <2> QED  BY <2>4, <2>5
  <1> QED  BY <1>1, <1>2

\* reconcile_unknown found the order: it closes the task's, and if the task's own
\* executed, or the task is an exit, it is that one.
LEMMA FrameAnswers ==
  ASSUME Frame, NEW t \in Tasks, task[t].pc = "unknown", NEW x \in Placed,
         orders[x].closes = task[t].order, orders[x].square = ~task[t].exits,
         task[t].exits => x = task[t].exit,
         Becomes(t, "record", task[t].want, x), UNCHANGED <<orders, rows, position>>, Memorized
  PROVE  Frame'
  <1>0. /\ TypeOK /\ OrdersShaped /\ x \in 0 .. MaxOrders /\ x # 0
        /\ task \in [Tasks -> Task] /\ position \in [Ids -> Amounts] /\ task[t].want \in Amounts
    <2>1. TypeOK /\ OrdersShaped
      BY DEF Frame
    <2>2. x \in 0 .. MaxOrders /\ x # 0
      BY Numbers DEF Placed
    <2>3. task \in [Tasks -> Task] /\ position \in [Ids -> Amounts]
      BY <2>1, TypeFacts
    <2>4. task[t].want \in Amounts
      BY <2>3 DEF Task
    <2> QED  BY <2>1, <2>2, <2>3, <2>4
  <1>1. task' \in [Tasks -> Task]
    BY <1>0, TaskChange DEF Pc
  <1>2. TypeOK'
    BY <1>0, <1>1, KeptRows, TypeParts DEF Memorized
  <1>3. OrdersShaped' /\ RowsTrue' /\ StopsShaped' /\ Placed' = Placed
    BY <1>0, KeptOrders, KeptRows, KeptStops
  <1>4. /\ task'[t].pc = "record" /\ task'[t].exits = task[t].exits
        /\ task'[t].order = task[t].order /\ task'[t].want = task[t].want /\ task'[t].exit = x
        /\ \A u \in Tasks \ {t} : task'[u] = task[u]
    BY <1>0, BecomesFields
  <1>5. TasksShaped' /\ ExitsOnce'
    BY <1>0, <1>3, <1>4 DEF Frame, TasksShaped, ExitsOnce, Landed
  <1>6. Bounded'
    BY <1>0, <1>4 DEF Frame, Bounded, Memorized
  <1> QED  BY <1>2, <1>3, <1>5, <1>6 DEF Frame

\* The closing order is recorded, or the stop found: what executed leaves the
\* exit's position.
LEMMA FrameRecord ==
  ASSUME Frame, NEW t \in Tasks, task[t].pc # "idle", NEW want \in Amounts, NEW x \in Placed,
         orders[x].closes = task[t].order, orders[x].square = ~task[t].exits,
         want <= orders[task[t].order].qty, Becomes(t, "match", want, x),
         UNCHANGED <<orders, rows>>, Memorized,
         position' \in [Ids -> Amounts], \A o \in Ids : position'[o] <= position[o],
         \A o \in Ids : position'[o] = position[o] \/ (task[t].exits /\ o = task[t].order)
  PROVE  Frame'
  <1>0. /\ TypeOK /\ OrdersShaped /\ task[t].order \in Placed
        /\ task \in [Tasks -> Task] /\ position \in [Ids -> Amounts]
        /\ x \in 0 .. MaxOrders /\ x # 0
    <2>1. x \in 0 .. MaxOrders /\ x # 0
      BY Numbers DEF Placed
    <2> QED  BY <2>1, TypeFacts DEF Frame, TasksShaped
  <1>1. task' \in [Tasks -> Task]
    BY <1>0, TaskChange DEF Pc
  <1>2. TypeOK'
    BY <1>0, <1>1, KeptRows, TypeParts DEF Memorized
  <1>3. OrdersShaped' /\ RowsTrue' /\ StopsShaped' /\ Placed' = Placed
    BY <1>0, KeptOrders, KeptRows, KeptStops
  <1>4. /\ task'[t].pc = "match" /\ task'[t].exits = task[t].exits
        /\ task'[t].order = task[t].order /\ task'[t].want = want /\ task'[t].exit = x
        /\ \A u \in Tasks \ {t} : task'[u] = task[u]
    BY <1>0, BecomesFields
  <1>5. TasksShaped' /\ ExitsOnce'
    BY <1>0, <1>3, <1>4 DEF Frame, TasksShaped, ExitsOnce, Landed
  <1>6. Bounded'
    <2>1. \A o \in Ids : /\ position'[o] <= orders[o].qty
                         /\ position'[o] > 0 => orders[o].closes = 0
      <3> SUFFICES ASSUME NEW o \in Ids
                   PROVE  /\ position'[o] <= orders[o].qty
                          /\ position'[o] > 0 => orders[o].closes = 0
        OBVIOUS
      <3>1. position[o] \in Nat /\ position'[o] \in Nat /\ orders[o].qty \in Nat
        <4>1. orders[o] \in Order /\ position[o] \in Amounts
          BY <1>0, TypeFacts
        <4>2. position'[o] \in Amounts
          BY <1>2, TypeFacts DEF TypeOK
        <4> QED  BY <4>1, <4>2, Numbers DEF Order
      <3>2. position'[o] <= position[o] /\ position[o] <= orders[o].qty
        BY DEF Frame, Bounded
      <3>3. position[o] > 0 => orders[o].closes = 0
        BY DEF Frame, Bounded
      <3> QED  BY <3>1, <3>2, <3>3
    <2>2. ASSUME NEW u \in Tasks, u # t, task[u].exits
          PROVE  position'[task[u].order] = position[task[u].order]
      <3>1. task[u].order \in Ids
        BY <2>2, IdleTask DEF Frame, TasksShaped, Placed
      <3>2. ~(task[t].exits /\ task[u].order = task[t].order)
        BY <2>2 DEF Frame, ExitsOnce
      <3> QED  BY <3>1, <3>2
    <2>3. \A u \in Tasks \ {t} : task[u].exits => position'[task[u].order] = position[task[u].order]
      BY <2>2
    <2>4. \A u \in Tasks \ {t} :
            /\ task'[u].pc # "idle" => task'[u].want <= orders'[task'[u].order].qty
            /\ task'[u].exits =>
                 /\ orders'[task'[u].order].closes = 0
                 /\ task'[u].pc \in {"look", "cancel", "balance", "post", "unknown", "record"} =>
                      /\ task'[u].want <= position'[task'[u].order]
                      /\ task'[u].exit # 0 => orders'[task'[u].exit].qty <= task'[u].want
      BY <1>4, <2>3 DEF Frame, Bounded
    <2>5. /\ task'[t].want <= orders'[task'[t].order].qty
          /\ task'[t].exits => orders'[task'[t].order].closes = 0
      BY <1>0, <1>4 DEF Frame, Bounded
    <2> QED  BY <1>4, <2>1, <2>4, <2>5 DEF Bounded, Memorized
  <1> QED  BY <1>2, <1>3, <1>5, <1>6 DEF Frame

LEMMA FrameMatch ==
  ASSUME Frame, NEW t \in Tasks, task[t].pc = "match",
         Becomes(t, "row", task[t].want, task[t].exit), UNCHANGED <<orders, rows, position>>,
         Memorized
  PROVE  Frame'
  <1>0. /\ TypeOK /\ OrdersShaped /\ task[t].order \in Placed
        /\ task \in [Tasks -> Task] /\ position \in [Ids -> Amounts]
        /\ task[t].exit \in 0 .. MaxOrders /\ task[t].want \in Amounts
    BY TypeFacts DEF Frame, TasksShaped, Task
  <1>1. task' \in [Tasks -> Task]
    BY <1>0, TaskChange DEF Pc
  <1>2. TypeOK'
    BY <1>0, <1>1, KeptRows, TypeParts DEF Memorized
  <1>3. OrdersShaped' /\ RowsTrue' /\ StopsShaped' /\ Placed' = Placed
    BY <1>0, KeptOrders, KeptRows, KeptStops
  <1>4. /\ task'[t].pc = "row" /\ task'[t].exits = task[t].exits
        /\ task'[t].order = task[t].order /\ task'[t].want = task[t].want
        /\ task'[t].exit = task[t].exit
        /\ \A u \in Tasks \ {t} : task'[u] = task[u]
    BY <1>0, BecomesFields
  <1>5. TasksShaped' /\ ExitsOnce'
    BY <1>0, <1>3, <1>4 DEF Frame, TasksShaped, ExitsOnce, Landed
  <1>6. Bounded'
    BY <1>0, <1>4 DEF Frame, Bounded, Memorized
  <1> QED  BY <1>2, <1>3, <1>5, <1>6 DEF Frame

\* Reconcile: an answer that is one of the task's orders, or the end.
LEMMA ReconcileForm ==
  ASSUME Frame, NEW t \in Tasks, Reconcile(t)
  PROVE  /\ task[t].pc = "unknown" /\ UNCHANGED <<orders, rows, tracked, position>>
         /\ \/ /\ Done(t) /\ astray' = astray \cup Cut(t)
            \/ /\ UNCHANGED astray
               /\ \E x \in Closings(task[t].order) :
                    /\ Becomes(t, "record", task[t].want, x)
                    /\ orders[x].square = ~task[t].exits
                    /\ task[t].exits => x = task[t].exit
                    /\ ~task[t].exits =>
                         \A y \in Closings(task[t].order) : orders[y].square => y <= x
  <1>0. TypeOK /\ task[t] \in Task
    BY TypeFacts DEF Frame
  <1>1. task[t].pc = "unknown" /\ UNCHANGED <<orders, rows, tracked, position>>
    BY DEF Reconcile, exchange
  <1>2. CASE End(t) /\ astray' = astray \cup Cut(t)
    BY <1>0, <1>1, <1>2, EndForm
  <1> DEFINE S == SameClientId(t)
             x == Max(S)
  <1>3. CASE /\ S # {} /\ UNCHANGED astray
             /\ task' = [task EXCEPT ![t].pc = "record", ![t].exit = x]
    <2>1. Becomes(t, "record", task[t].want, x)
      <3> HIDE DEF x
      <3> QED  BY <1>0, <1>3, ExitForm
    <2>2. CASE task[t].exits
      <3>1. task[t].exit # 0 /\ S = {task[t].exit}
        BY <1>3, <2>2 DEF SameClientId
      <3>2. task[t].exit \in Int
        BY <1>0, Numbers DEF Task
      <3>3. x = task[t].exit
        BY <3>1, <3>2 DEF Max
      <3>4. x \in Closings(task[t].order) /\ orders[x].square = ~task[t].exits
        BY <3>1, <3>3 DEF Frame, TasksShaped, Closings
      <3> HIDE DEF x
      <3> QED  BY <1>1, <1>3, <2>1, <2>2, <3>3, <3>4
    <2>3. CASE ~task[t].exits
      <3>1. S = {y \in Closings(task[t].order) : orders[y].square} /\ S \subseteq Ids
        BY <2>3 DEF SameClientId, Closings, Placed
      <3> HIDE DEF S
      <3>2. \E y \in S : \A z \in S : y >= z
        BY <1>3, <3>1, GreatestOne
      <3>3. x \in S /\ \A z \in S : x >= z
        BY <3>2 DEF Max
      <3>4. \A y \in Closings(task[t].order) : orders[y].square => y <= x
        BY <3>1, <3>3, Numbers
      <3> HIDE DEF x
      <3> QED  BY <1>1, <1>3, <2>1, <2>3, <3>1, <3>3, <3>4
    <2> QED  BY <2>2, <2>3
  <1> QED  BY <1>1, <1>2, <1>3 DEF Reconcile

\* Record: what is tracked of the closing order, and the position of an exit.
LEMMA RecordForm ==
  ASSUME Frame, NEW t \in Tasks, Record(t)
  PROVE  /\ task[t].pc = "record" /\ UNCHANGED <<orders, rows, astray>>
         /\ tracked' = Noted(task[t].exit)
         /\ Becomes(t, "match", IF task[t].exits THEN position[task[t].order]
                                ELSE orders[task[t].order].qty, task[t].exit)
         /\ task[t].exits =>
              /\ orders[task[t].exit].qty <= position[task[t].order]
              /\ position' = [position EXCEPT ![task[t].order] = @ - orders[task[t].exit].qty]
         /\ ~task[t].exits => position' = position
  <1> DEFINE o == task[t].order
             q == orders[task[t].exit].qty
             want == IF task[t].exits THEN position[o] ELSE orders[o].qty
  <1>0. TypeOK /\ task[t] \in Task
    BY TypeFacts DEF Frame
  <1>1. /\ task[t].pc = "record" /\ UNCHANGED <<orders, rows, astray>>
        /\ tracked' = Noted(task[t].exit)
        /\ task' = [task EXCEPT ![t].pc = "match", ![t].want = want]
    BY DEF Record, exchange
  <1>2. Becomes(t, "match", want, task[t].exit)
    <2> HIDE DEF want
    <2> QED  BY <1>0, <1>1, WantForm
  <1>3. o \in Placed /\ task[t].exit \in Placed
    BY <1>1 DEF Frame, TasksShaped, Landed
  <1>4. q \in Nat /\ position[o] \in Nat /\ task[t].want \in Nat
    BY <1>0, <1>3, TypeFacts, Numbers DEF Placed, Order, Task
  <1>5. task[t].exits => q <= task[t].want /\ task[t].want <= position[o]
    BY <1>1 DEF Frame, TasksShaped, Bounded, Landed
  <1>6. task[t].exits => q <= position[o]
    BY <1>4, <1>5
  <1>7. task[t].exits => Max({0, position[o] - q}) = position[o] - q
    BY <1>4, <1>6, MaxTwo
  <1>8. task[t].exits => position' = [position EXCEPT ![o] = Max({0, position[o] - q})]
    BY DEF Record
  <1>9. ~task[t].exits => position' = position
    BY DEF Record
  <1> QED  BY <1>1, <1>2, <1>6, <1>7, <1>8, <1>9

\* Match: what is left of the entry, as memory knew it or as the caller passed it.
LEMMA MatchForm ==
  ASSUME Frame, NEW t \in Tasks, Match(t)
  PROVE  /\ task[t].pc = "match" /\ UNCHANGED <<orders, rows, position, astray>>
         /\ Becomes(t, "row", task[t].want, task[t].exit)
         /\ saved' = IF task[t].exits
                     THEN [saved EXCEPT ![task[t].order] = position[task[t].order]] ELSE saved
         /\ \E known \in Nat :
              /\ known <= orders[task[t].order].qty
              /\ known = IF tracked[task[t].order] # 0 THEN tracked[task[t].order] ELSE task[t].want
              /\ tracked' = [tracked EXCEPT
                               ![task[t].order] = IF known > orders[task[t].exit].qty
                                                  THEN known - orders[task[t].exit].qty ELSE 0,
                               ![task[t].exit] = 0]
  <1> DEFINE o == task[t].order
             q == orders[task[t].exit].qty
             known == IF tracked[o] # 0 THEN tracked[o] ELSE task[t].want
  <1>0. TypeOK /\ task[t] \in Task
    BY TypeFacts DEF Frame
  <1>1. /\ task[t].pc = "match" /\ UNCHANGED <<orders, rows, position, astray>> /\ Goes(t, "row")
        /\ saved' = IF task[t].exits THEN [saved EXCEPT ![o] = position[o]] ELSE saved
        /\ tracked' = [tracked EXCEPT ![o] = Max({0, known - q}), ![task[t].exit] = 0]
    BY DEF Match, exchange
  <1>2. Becomes(t, "row", task[t].want, task[t].exit)
    BY <1>0, <1>1, GoesForm
  <1>3. o \in Placed /\ task[t].exit \in Placed
    BY <1>1 DEF Frame, TasksShaped, Landed
  <1>4. q \in Nat /\ tracked[o] \in Nat /\ task[t].want \in Nat
    BY <1>0, <1>3, TypeFacts, Numbers DEF Placed, Order, Task
  <1>5. known \in Nat /\ known <= orders[o].qty
    BY <1>1, <1>3, <1>4 DEF Frame, Bounded, Placed
  <1> HIDE DEF known
  <1>6. Max({0, known - q}) = IF known > q THEN known - q ELSE 0
    BY <1>4, <1>5, MaxTwo
  <1> QED  BY <1>1, <1>2, <1>5, <1>6 DEF known

\* The row of a close that is recorded in memory.
LEMMA FrameStore ==
  ASSUME Frame, NEW t \in Tasks, Store(t), Memorized
  PROVE  Frame'
  <1> DEFINE row == [entry |-> task[t].order, exit |-> task[t].exit, qty |-> orders[task[t].exit].qty]
  <1>0. TypeOK /\ OrdersShaped
    BY DEF Frame
  <1>1. /\ task[t].pc = "row" /\ Done(t) /\ UNCHANGED <<orders, position>>
        /\ rows' = IF Row(row.entry, row.exit) # {} THEN rows ELSE rows \cup {row}
    BY <1>0, EndForm DEF Store, exchange
  <1>2. /\ row.entry = task[t].order /\ row.exit = task[t].exit
        /\ row.qty = orders[task[t].exit].qty
    OBVIOUS
  <1>3. /\ row.exit \in Placed /\ row.entry = orders[row.exit].closes /\ row.entry \in Placed
        /\ row.qty = orders[row.exit].qty
    BY <1>1 DEF Frame, TasksShaped, Landed
  <1>4. row \in [entry : Ids, exit : Ids, qty : Amounts \ {0}]
    <2>1. row.entry \in Ids /\ row.exit \in Ids
      BY <1>3 DEF Placed
    <2>2. row.qty \in Amounts /\ row.qty > 0
      BY <1>0, <1>3, <2>1, TypeFacts DEF Order, OrdersShaped
    <2>3. row.qty # 0
      BY <2>2
    <2> QED  BY <2>1, <2>2, <2>3
  <1> HIDE DEF row
  <1>5. rows' \subseteq [entry : Ids, exit : Ids, qty : Amounts \ {0}]
    BY <1>0, <1>1, <1>4 DEF TypeOK
  <1>6. \A r, s \in rows' : r.entry = s.entry /\ r.exit = s.exit => r = s
    BY <1>0, <1>1 DEF TypeOK, Row
  <1>7. RowsTrue'
    <2>1. Placed' = Placed
      BY <1>0, <1>1, KeptOrders
    <2> QED  BY <1>1, <1>3, <2>1 DEF Frame, RowsTrue
  <1> QED  BY <1>1, <1>5, <1>6, <1>7, FrameDone

\* A restart drops what memory had of orders and tasks.
LEMMA FrameRestart ==
  ASSUME Frame, task' = [t \in Tasks |-> Idle], UNCHANGED <<orders, rows>>, position' = saved,
         Memorized
  PROVE  Frame'
  <1>0. /\ TypeOK /\ OrdersShaped /\ position' \in [Ids -> Amounts]
    BY TypeFacts DEF Frame
  <1>1. /\ task' \in [Tasks -> Task] /\ \A t \in Tasks : task'[t] = Idle
    BY IdleTask
  <1>2. TypeOK'
    BY <1>0, <1>1, KeptRows, TypeParts DEF Memorized
  <1>3. OrdersShaped' /\ RowsTrue' /\ StopsShaped' /\ Placed' = Placed
    BY <1>0, KeptOrders, KeptRows, KeptStops
  <1>4. TasksShaped' /\ ExitsOnce' /\ Bounded'
    BY <1>1, IdleTask DEF Frame, TasksShaped, ExitsOnce, Bounded, Memorized, Landed
  <1> QED  BY <1>2, <1>3, <1>4 DEF Frame

-------------------------------------------------------------------------------
(* Steps that execute an order                                                 *)

\* x is the next order, and r what it is.
Adds(x, r) ==
    /\ x \notin Placed /\ \A p \in Ids : p < x => p \in Placed
    /\ orders' = [orders EXCEPT ![x] = r]
    /\ r.closes # 0 => r.closes \in Placed /\ r.qty <= orders[r.closes].qty

LEMMA AddsFacts ==
  ASSUME Frame, NEW x \in Ids, NEW r \in Order, r.qty > 0, Adds(x, r)
  PROVE  /\ orders' \in [Ids -> Order] /\ Placed' = Placed \cup {x} /\ orders'[x] = r
         /\ \A y \in Ids \ {x} : orders'[y] = orders[y]
         /\ OrdersShaped' /\ orders[x].qty = 0 /\ r.closes < x
         /\ \A o \in Ids : Closings(o)' = IF o = r.closes THEN Closings(o) \cup {x} ELSE Closings(o)
         /\ \A o \in Ids : x \notin Closings(o)
         /\ \A o \in Ids : o # r.closes => Closed(o)' = Closed(o)
         /\ r.closes # 0 => Closed(r.closes)' = Closed(r.closes) + r.qty
  <1>0. orders \in [Ids -> Order] /\ OrdersShaped
    BY TypeFacts DEF Frame
  <1>1. orders' \in [Ids -> Order] /\ orders'[x] = r /\ \A y \in Ids \ {x} : orders'[y] = orders[y]
    BY <1>0 DEF Adds
  <1>2. r # Nobody /\ orders[x] = Nobody
    BY NobodyOrder DEF Adds, Placed
  <1>3. Placed' = Placed \cup {x}
    BY <1>1, <1>2 DEF Placed
  <1>4. r.closes < x
    <2>1. ASSUME r.closes # 0, ~(r.closes < x) PROVE FALSE
      <3>1. r.closes \in Placed /\ x \notin Placed
        BY <2>1 DEF Adds
      <3>2. r.closes \in Ids /\ x < r.closes
        BY <2>1, <3>1, Numbers DEF Placed
      <3> QED  BY <1>0, <3>1, <3>2 DEF OrdersShaped
    <2> QED  BY <2>1, Numbers
  <1>5. OrdersShaped'
    <2>1. \A o \in Ids, p \in Ids : p < o /\ o \in Placed' => p \in Placed'
      BY <1>0, <1>3 DEF OrdersShaped, Adds
    <2>2. ASSUME NEW y \in Placed'
          PROVE  /\ orders'[y].qty > 0 /\ orders'[y].closes < y
                 /\ orders'[y].closes # 0 => orders'[y].qty <= orders'[orders'[y].closes].qty
      <3>1. CASE y = x
        <4>1. r.closes # 0 => r.closes \in Placed /\ r.closes # x
          BY DEF Adds
        <4> QED  BY <1>1, <1>4, <3>1, <4>1 DEF Adds, Placed
      <3>2. CASE y # x
        <4>1. y \in Placed /\ orders'[y] = orders[y]
          BY <1>1, <1>3, <3>2 DEF Placed
        <4>2. orders[y].closes # 0 => orders[y].closes \in Ids /\ orders[y].closes < y
          BY <1>0, <4>1, Numbers DEF OrdersShaped, Order, Placed
        <4>3. orders[y].closes # 0 => orders[y].closes \in Placed
          BY <1>0, <4>1, <4>2 DEF OrdersShaped, Placed
        <4>4. orders[y].closes # 0 => orders'[orders[y].closes] = orders[orders[y].closes]
          BY <1>1, <4>3 DEF Adds, Placed
        <4> QED  BY <1>0, <4>1, <4>4 DEF OrdersShaped
      <3> QED  BY <3>1, <3>2
    <2> QED  BY <2>1, <2>2 DEF OrdersShaped
  <1>6. \A o \in Ids : /\ Closings(o)' = IF o = r.closes THEN Closings(o) \cup {x} ELSE Closings(o)
                       /\ x \notin Closings(o)
                       /\ \A y \in Closings(o) : orders'[y] = orders[y]
    BY <1>1, <1>3 DEF Closings, Placed, Adds
  <1>7. ASSUME NEW o \in Ids, o # r.closes PROVE Closed(o)' = Closed(o)
    <2>1. Closings(o)' = Closings(o) /\ \A y \in Closings(o) : orders'[y] = orders[y]
      BY <1>6, <1>7
    <2> QED  BY <2>1 DEF Closed
  <1>8. ASSUME r.closes # 0 PROVE Closed(r.closes)' = Closed(r.closes) + r.qty
    <2> DEFINE o == r.closes
    <2>1. o \in Ids
      BY <1>8 DEF Adds, Placed
    <2>2. x \notin Closings(o) /\ Closings(o)' = Closings(o) \cup {x}
          /\ \A y \in Closings(o) : orders'[y] = orders[y]
      BY <1>6, <2>1
    <2>3. orders'[x].qty \in 0 .. Lot
      BY <1>1, Numbers DEF Order
    <2> HIDE DEF o
    <2>4. Closed(o)' = Closed(o) + orders'[x].qty
      BY <2>2, <2>3, ClosedMore
    <2> QED  BY <1>1, <2>4 DEF o
  <1> QED  BY <1>1, <1>2, <1>3, <1>4, <1>5, <1>6, <1>7, <1>8, NobodyOrder

\* Place: a whole lot that closes nothing.
LEMMA PlaceForm ==
  ASSUME Frame, NEW side \in Sides, NEW entry \in BOOLEAN, Place(side, entry)
  PROVE  \E x \in Ids, r \in Order :
           /\ Adds(x, r) /\ r.qty = Lot /\ r.closes = 0 /\ r.filled
           /\ tracked' = [tracked EXCEPT ![x] = Lot]
           /\ \/ /\ position' = [position EXCEPT ![x] = Lot]
                 /\ saved' = [saved EXCEPT ![x] = Lot] /\ resting' = resting \cup {x}
              \/ UNCHANGED <<position, saved, resting>>
           /\ UNCHANGED <<fill, rows, task, astray>>
  <1>1. PICK x \in Ids :
          /\ Execute(x, side, Lot, TRUE, 0, FALSE)
          /\ tracked' = [tracked EXCEPT ![x] = Lot]
          /\ \/ /\ position' = [position EXCEPT ![x] = Lot]
                /\ saved' = [saved EXCEPT ![x] = Lot] /\ resting' = resting \cup {x}
             \/ UNCHANGED <<position, saved, resting>>
    BY DEF Place
  <1> DEFINE r == [side |-> side, qty |-> Lot, filled |-> TRUE, closes |-> 0, square |-> FALSE]
  <1>2. r \in Order /\ r.qty = Lot /\ r.closes = 0 /\ r.filled
    BY Numbers DEF Order
  <1>3. Adds(x, r)
    BY <1>1 DEF Execute, Adds
  <1>4. UNCHANGED <<fill, rows, task, astray>>
    BY DEF Place
  <1> HIDE DEF r
  <1> QED  BY <1>1, <1>2, <1>3, <1>4

\* Post: the closing order, of no more than was asked for.
LEMMA PostForm ==
  ASSUME Frame, NEW t \in Tasks, Post(t)
  PROVE  /\ task[t].pc = "post" /\ task[t].exit = 0 /\ task[t].order \in Placed
         /\ UNCHANGED <<rows, tracked, position>> /\ Stays
         /\ astray' = astray \cup Shared(task[t].order, ~task[t].exits)
         /\ \E x \in Ids, r \in Order, pc \in {"record", "unknown"} :
              /\ Adds(x, r) /\ r.qty > 0 /\ r.qty <= task[t].want
              /\ r.closes = task[t].order /\ r.square = ~task[t].exits
              /\ Becomes(t, pc, task[t].want, x)
  <1> DEFINE o == task[t].order
  <1>0. TypeOK /\ task[t] \in Task
    BY TypeFacts DEF Frame
  <1>1. /\ task[t].pc = "post" /\ UNCHANGED <<rows, tracked, position>> /\ Stays
        /\ astray' = astray \cup Shared(o, ~task[t].exits)
    BY DEF Post, memory, Stays
  <1>2. PICK x \in Ids, qty \in 1 .. task[t].want :
          /\ Execute(x, CloseSide(t), qty, qty = task[t].want, o, ~task[t].exits)
          /\ \/ task' = [task EXCEPT ![t].pc = "record", ![t].exit = x]
             \/ task' = [task EXCEPT ![t].pc = "unknown", ![t].exit = x]
    BY DEF Post
  <1>3. o \in Placed /\ task[t].exit = 0
    BY <1>1 DEF Frame, TasksShaped, Landed
  <1>4. task[t].want \in Amounts /\ task[t].want <= orders[o].qty
    BY <1>0, <1>1 DEF Frame, Bounded, Task
  <1>5. qty \in Amounts /\ qty > 0 /\ qty <= task[t].want /\ qty <= orders[o].qty
    <2>1. orders[o].qty \in Nat /\ task[t].want \in Nat /\ task[t].want <= Lot
      BY <1>3, <1>4, TypeFacts, Numbers, <1>0 DEF Placed, Order
    <2> QED  BY <1>2, <1>4, <2>1, Numbers
  <1> DEFINE r == [side |-> CloseSide(t), qty |-> qty, filled |-> qty = task[t].want,
                   closes |-> o, square |-> ~task[t].exits]
  <1>6. r \in Order
    <2>1. CloseSide(t) \in Sides
      BY DEF CloseSide, Opposite, Sides
    <2>2. o \in 0 .. MaxOrders
      BY <1>0 DEF Task
    <2> QED  BY <1>5, <2>1, <2>2 DEF Order
  <1>7. Adds(x, r) /\ r.qty > 0 /\ r.qty <= task[t].want /\ r.closes = o /\ r.square = ~task[t].exits
    BY <1>2, <1>3, <1>5 DEF Execute, Adds
  <1> HIDE DEF r
  <1>8. CASE task' = [task EXCEPT ![t].pc = "record", ![t].exit = x]
    <2>1. Becomes(t, "record", task[t].want, x)
      BY <1>0, <1>8, ExitForm
    <2> QED  BY <1>1, <1>3, <1>6, <1>7, <2>1
  <1>9. CASE task' = [task EXCEPT ![t].pc = "unknown", ![t].exit = x]
    <2>1. Becomes(t, "unknown", task[t].want, x)
      BY <1>0, <1>9, ExitForm
    <2> QED  BY <1>1, <1>3, <1>6, <1>7, <2>1
  <1> QED  BY <1>2, <1>8, <1>9

\* Trigger: a whole lot, of the entry whose stop rested.
LEMMA TriggerForm ==
  ASSUME Frame, NEW o \in Ids, Trigger(o)
  PROVE  /\ o \in resting /\ o \in Placed /\ resting' = resting \ {o}
         /\ UNCHANGED <<rows, tracked, position, saved, task>>
         /\ astray' = astray \cup Shared(o, FALSE)
                        \cup (IF \E u \in Tasks : Past(u, o) THEN {<<o, "raced">>} ELSE {})
         /\ \E x \in Ids, r \in Order :
              /\ Adds(x, r) /\ r.qty = Lot /\ r.closes = o /\ ~r.square
              /\ fill' = [fill EXCEPT ![o] = x]
  <1>1. PICK x \in Ids :
          Execute(x, "SELL", Lot, TRUE, o, FALSE) /\ fill' = [fill EXCEPT ![o] = x]
    BY DEF Trigger
  <1> DEFINE r == [side |-> "SELL", qty |-> Lot, filled |-> TRUE, closes |-> o, square |-> FALSE]
  <1>2. /\ o \in resting /\ resting' = resting \ {o}
        /\ UNCHANGED <<rows, tracked, position, saved, task>>
        /\ astray' = astray \cup Shared(o, FALSE)
                       \cup (IF \E u \in Tasks : Past(u, o) THEN {<<o, "raced">>} ELSE {})
    BY DEF Trigger, memory
  <1>3. o \in Placed /\ orders[o].qty = Lot
    BY <1>2 DEF Frame, StopsShaped
  <1>4. r \in Order /\ r.qty = Lot /\ r.closes = o /\ ~r.square
    <2>1. o \in 0 .. MaxOrders /\ Lot \in Amounts /\ "SELL" \in Sides
      BY Numbers DEF Sides
    <2> QED  BY <2>1 DEF Order
  <1>5. Lot <= Lot
    BY Numbers
  <1>6. Adds(x, r)
    BY <1>1, <1>3, <1>5 DEF Execute, Adds
  <1> HIDE DEF r
  <1> QED  BY <1>1, <1>2, <1>3, <1>4, <1>6

LEMMA RowsKept ==
  ASSUME Frame, NEW x \in Ids, NEW r \in Order, r.qty > 0, Adds(x, r), UNCHANGED rows
  PROVE  /\ RowsTrue' /\ rows' \subseteq [entry : Ids, exit : Ids, qty : Amounts \ {0}]
         /\ \A s, u \in rows' : s.entry = u.entry /\ s.exit = u.exit => s = u
  <1>1. Placed' = Placed \cup {x} /\ \A y \in Ids \ {x} : orders'[y] = orders[y]
    BY AddsFacts
  <1>2. RowsTrue'
    BY <1>1 DEF Frame, RowsTrue, Adds, Placed
  <1> QED  BY <1>2 DEF Frame, TypeOK

\* A new order, and stops that executed as it.
LEMMA StopsAdded ==
  ASSUME Frame, NEW x \in Ids, NEW r \in Order, r.qty > 0, Adds(x, r),
         resting' \subseteq resting \cup {x},
         x \in resting' => r.qty = Lot /\ r.closes = 0 /\ r.filled,
         \A o \in Ids : \/ fill'[o] = fill[o]
                        \/ /\ o \in resting /\ o \notin resting' /\ fill'[o] = x
                           /\ r.closes = o /\ ~r.square /\ r.qty = Lot
  PROVE  StopsShaped'
  <1>1. /\ Placed' = Placed \cup {x} /\ orders'[x] = r /\ x \notin Placed
        /\ \A y \in Ids \ {x} : orders'[y] = orders[y]
    BY AddsFacts DEF Adds
  <1>2. \A y \in Placed : orders'[y] = orders[y]
    BY <1>1 DEF Placed
  <1>3. x \notin resting /\ fill[x] = 0 /\ resting \subseteq Placed
    BY <1>1 DEF Frame, StopsShaped
  <1>4. ASSUME NEW o \in resting'
        PROVE  /\ o \in Placed' /\ orders'[o].qty = Lot /\ orders'[o].closes = 0 /\ orders'[o].filled
               /\ fill'[o] = 0
    <2>1. o \in Ids
      BY <1>3, <1>4 DEF Placed
    <2>2. CASE o = x
      BY <1>1, <1>3, <1>4, <2>2
    <2>3. CASE o # x
      <3>1. o \in resting /\ o \in Placed /\ orders'[o] = orders[o]
        BY <1>2, <1>3, <1>4, <2>3
      <3>2. fill'[o] = fill[o]
        BY <1>4, <2>1
      <3> QED  BY <1>1, <3>1, <3>2 DEF Frame, StopsShaped
    <2> QED  BY <2>2, <2>3
  <1>5. ASSUME NEW o \in Ids, fill'[o] # 0
        PROVE  /\ o \in Placed' /\ orders'[o].closes = 0 /\ orders'[o].filled
               /\ fill'[o] \in Placed' /\ orders'[fill'[o]].closes = o
               /\ ~orders'[fill'[o]].square /\ orders'[fill'[o]].qty = orders'[o].qty
    <2>1. CASE fill'[o] = fill[o]
      BY <1>1, <1>2, <1>5, <2>1 DEF Frame, StopsShaped
    <2>2. CASE o \in resting /\ fill'[o] = x /\ r.closes = o /\ ~r.square /\ r.qty = Lot
      BY <1>1, <1>2, <2>2 DEF Frame, StopsShaped
    <2> QED  BY <2>1, <2>2
  <1> QED  BY <1>4, <1>5 DEF StopsShaped

\* Place and Trigger: an order executes that no task is about.
LEMMA FrameAdds ==
  ASSUME Frame, NEW x \in Ids, NEW r \in Order, r.qty > 0, Adds(x, r), UNCHANGED <<rows, task>>,
         Rest', StopsShaped', astray' \subseteq Ids \X Reasons,
         tracked' \in [Ids -> Amounts], position' \in [Ids -> Amounts],
         \A o \in Ids \ {x} : /\ tracked'[o] = tracked[o] /\ position'[o] = position[o]
                              /\ saved'[o] = saved[o],
         tracked'[x] <= r.qty, position'[x] <= r.qty, saved'[x] <= r.qty,
         position'[x] > 0 \/ saved'[x] > 0 => r.closes = 0
  PROVE  Frame'
  <1>0. /\ TypeOK
        /\ task \in [Tasks -> Task] /\ position \in [Ids -> Amounts] /\ tracked \in [Ids -> Amounts]
    BY TypeFacts DEF Frame
  <1>1. /\ orders' \in [Ids -> Order] /\ Placed' = Placed \cup {x} /\ orders'[x] = r
        /\ \A y \in Ids \ {x} : orders'[y] = orders[y]
        /\ OrdersShaped' /\ orders[x].qty = 0
    BY AddsFacts
  <1>2. /\ RowsTrue' /\ rows' \subseteq [entry : Ids, exit : Ids, qty : Amounts \ {0}]
        /\ \A s, u \in rows' : s.entry = u.entry /\ s.exit = u.exit => s = u
    BY RowsKept
  <1>4. TypeOK'
    BY <1>0, <1>1, <1>2, TypeParts
  <1>5. TasksShaped' /\ ExitsOnce'
    BY <1>0, <1>1 DEF Frame, TasksShaped, ExitsOnce, Adds, Placed
  <1>6. \A t \in Tasks : task[t].pc # "idle" => orders'[task[t].order] = orders[task[t].order]
                                               /\ position'[task[t].order] = position[task[t].order]
    BY <1>0, <1>1 DEF Frame, TasksShaped, Adds, Placed
  <1>7. \A t \in Tasks : task[t].exit # 0 => orders'[task[t].exit] = orders[task[t].exit]
    BY <1>1 DEF Frame, TasksShaped, Adds, Placed
  <1>8. \A o \in Ids : /\ tracked'[o] <= orders'[o].qty /\ position'[o] <= orders'[o].qty
                       /\ position'[o] > 0 => orders'[o].closes = 0
                       /\ saved'[o] <= orders'[o].qty /\ (saved'[o] > 0 => orders'[o].closes = 0)
    BY <1>0, <1>1 DEF Frame, Bounded
  <1>9. \A t \in Tasks : task[t].exits => task[t].pc # "idle"
    BY IdleTask DEF Frame, TasksShaped
  <1>10. Bounded'
    BY <1>6, <1>7, <1>8, <1>9 DEF Frame, Bounded
  <1> QED  BY <1>1, <1>2, <1>4, <1>5, <1>10 DEF Frame

LEMMA FramePlace ==
  ASSUME Frame, Rest', NEW side \in Sides, NEW entry \in BOOLEAN, Place(side, entry)
  PROVE  Frame'
  <1>1. PICK x \in Ids, r \in Order :
          /\ Adds(x, r) /\ r.qty = Lot /\ r.closes = 0 /\ r.filled
          /\ tracked' = [tracked EXCEPT ![x] = Lot]
          /\ \/ /\ position' = [position EXCEPT ![x] = Lot]
                /\ saved' = [saved EXCEPT ![x] = Lot] /\ resting' = resting \cup {x}
             \/ UNCHANGED <<position, saved, resting>>
          /\ UNCHANGED <<fill, rows, task, astray>>
    BY PlaceForm
  <1>0. /\ TypeOK /\ r.qty > 0 /\ Lot \in Amounts /\ Lot <= Lot
        /\ position \in [Ids -> Amounts] /\ tracked \in [Ids -> Amounts]
        /\ saved \in [Ids -> Amounts] /\ astray \subseteq Ids \X Reasons
    <2>1. r.qty > 0 /\ Lot \in Amounts /\ Lot <= Lot
      BY <1>1, Numbers
    <2> QED  BY <2>1, TypeFacts DEF Frame, TypeOK
  <1>2. orders[x].qty = 0
    BY <1>0, <1>1, AddsFacts
  <1>3. position[x] <= Lot /\ saved[x] <= Lot
    BY <1>0, Numbers
  <1>4. StopsShaped'
    BY <1>0, <1>1, StopsAdded
  <1>5. tracked'[x] = Lot /\ tracked' \in [Ids -> Amounts]
        /\ \A o \in Ids \ {x} : tracked'[o] = tracked[o]
    BY <1>0, <1>1
  <1>6. /\ position'[x] <= Lot /\ saved'[x] <= Lot /\ position' \in [Ids -> Amounts]
        /\ \A o \in Ids \ {x} : position'[o] = position[o] /\ saved'[o] = saved[o]
    <2>1. CASE position' = [position EXCEPT ![x] = Lot] /\ saved' = [saved EXCEPT ![x] = Lot]
      BY <1>0, <2>1
    <2>2. CASE UNCHANGED <<position, saved>>
      BY <1>0, <1>3, <2>2
    <2> QED  BY <1>1, <2>1, <2>2
  <1> QED  BY <1>0, <1>1, <1>4, <1>5, <1>6, FrameAdds

\* Of a new order nothing is tracked, and nothing is open.
LEMMA NewOrder ==
  ASSUME Frame, NEW x \in Ids, NEW r \in Order, r.qty > 0, Adds(x, r)
  PROVE  tracked[x] = 0 /\ position[x] = 0 /\ saved[x] = 0
  <1>1. orders[x].qty = 0
    BY AddsFacts
  <1>2. tracked[x] \in Nat /\ position[x] \in Nat /\ saved[x] \in Nat
    BY TypeFacts, Numbers DEF Frame
  <1>3. tracked[x] <= 0 /\ position[x] <= 0 /\ saved[x] <= 0
    BY <1>1 DEF Frame, Bounded
  <1> QED  BY <1>2, <1>3

LEMMA FrameTrigger ==
  ASSUME Frame, Rest', NEW o \in Ids, Trigger(o)
  PROVE  Frame'
  <1>1. /\ o \in resting /\ resting' = resting \ {o}
        /\ UNCHANGED <<rows, tracked, position, saved, task>>
        /\ astray' = astray \cup Shared(o, FALSE)
                       \cup (IF \E u \in Tasks : Past(u, o) THEN {<<o, "raced">>} ELSE {})
    BY TriggerForm
  <1>2. PICK x \in Ids, r \in Order :
          /\ Adds(x, r) /\ r.qty = Lot /\ r.closes = o /\ ~r.square
          /\ fill' = [fill EXCEPT ![o] = x]
    BY TriggerForm
  <1>3. r.qty > 0 /\ r.qty \in Nat
    BY <1>2, Numbers
  <1>4. tracked[x] = 0 /\ position[x] = 0 /\ saved[x] = 0
    BY <1>2, <1>3, NewOrder
  <1>5. \A p \in Ids : fill'[p] = fill[p] \/ (p = o /\ fill'[p] = x)
    BY <1>2, TypeFacts DEF Frame
  <1>6. x \notin resting'
    BY <1>1, <1>2 DEF Frame, StopsShaped, Adds
  <1>7. StopsShaped'
    BY <1>1, <1>2, <1>3, <1>5, <1>6, StopsAdded
  <1>8. astray' \subseteq Ids \X Reasons
    <2>1. astray \subseteq Ids \X Reasons
      BY DEF Frame, TypeOK
    <2>2. Shared(o, FALSE) \subseteq {<<o, "shared">>}
      BY DEF Shared
    <2>3. <<o, "shared">> \in Ids \X Reasons /\ <<o, "raced">> \in Ids \X Reasons
      BY DEF Reasons
    <2> QED  BY <1>1, <2>1, <2>2, <2>3
  <1>9. tracked' \in [Ids -> Amounts] /\ position' \in [Ids -> Amounts]
    BY <1>1, TypeFacts DEF Frame
  <1>10. tracked'[x] <= r.qty /\ position'[x] <= r.qty /\ saved'[x] <= r.qty
         /\ ~(position'[x] > 0) /\ ~(saved'[x] > 0)
    BY <1>1, <1>3, <1>4
  <1> QED  BY <1>1, <1>2, <1>3, <1>7, <1>8, <1>9, <1>10, FrameAdds

LEMMA FramePost ==
  ASSUME Frame, NEW t \in Tasks, NEW x \in Ids, NEW r \in Order, NEW pc \in {"record", "unknown"},
         task[t].pc = "post", task[t].order \in Placed,
         Adds(x, r), r.qty > 0, r.qty <= task[t].want, r.closes = task[t].order,
         r.square = ~task[t].exits, Becomes(t, pc, task[t].want, x),
         UNCHANGED <<rows, tracked, position>>, Stays, Rest', astray' \subseteq Ids \X Reasons
  PROVE  Frame'
  <1>0. /\ TypeOK /\ x \in 0 .. MaxOrders /\ x # 0 /\ task[t].want \in Amounts
        /\ task \in [Tasks -> Task] /\ position \in [Ids -> Amounts] /\ tracked \in [Ids -> Amounts]
    BY TypeFacts, Numbers DEF Frame, Task
  <1>1. /\ orders' \in [Ids -> Order] /\ Placed' = Placed \cup {x} /\ orders'[x] = r
        /\ \A y \in Ids \ {x} : orders'[y] = orders[y]
        /\ OrdersShaped' /\ orders[x].qty = 0
    BY AddsFacts
  <1>2. /\ RowsTrue' /\ rows' \subseteq [entry : Ids, exit : Ids, qty : Amounts \ {0}]
        /\ \A s, u \in rows' : s.entry = u.entry /\ s.exit = u.exit => s = u
    BY RowsKept
  <1>3. task' \in [Tasks -> Task]
    BY <1>0, TaskChange DEF Pc
  <1>4. TypeOK'
    BY <1>0, <1>1, <1>2, <1>3, TypeParts
  <1>4a. StopsShaped'
    <2>1. x \notin resting
      BY DEF Frame, StopsShaped, Adds
    <2> QED  BY <2>1, StopsAdded DEF Stays
  <1>5. /\ task'[t].pc = pc /\ task'[t].exits = task[t].exits /\ task'[t].order = task[t].order
        /\ task'[t].want = task[t].want /\ task'[t].exit = x
        /\ \A u \in Tasks \ {t} : task'[u] = task[u]
    BY <1>0, BecomesFields
  <1>6. x \notin Placed
    BY DEF Adds
  <1>7. TasksShaped'
    <2>1. \A u \in Tasks \ {t} :
            /\ task[u].pc # "idle" => task[u].order \in Placed'
            /\ task[u].exit # 0 => /\ task[u].exit \in Placed'
                                   /\ orders'[task[u].exit] = orders[task[u].exit]
      BY <1>1, <1>6 DEF Frame, TasksShaped, Placed
    <2>2. \A u \in Tasks \ {t} :
            /\ task[u].pc = "idle" => task[u] = Idle
            /\ task[u].pc \in Landed => task[u].exit # 0
            /\ task[u].exit # 0 =>
                 /\ task[u].pc \in Landed \cup {"unknown"}
                 /\ orders[task[u].exit].closes = task[u].order
                 /\ orders[task[u].exit].square = ~task[u].exits
            /\ task[u].exits => task[u].pc \notin {"query", "matches"}
            /\ task[u].pc \in {"look", "cancel"} => task[u].exits
      BY DEF Frame, TasksShaped
    <2>3. /\ pc # "idle" /\ pc \in Landed \cup {"unknown"}
          /\ pc \notin {"query", "matches", "look", "cancel"}
      BY DEF Landed
    <2> QED  BY <1>0, <1>1, <1>5, <2>1, <2>2, <2>3 DEF TasksShaped
  <1>8. ExitsOnce'
    BY <1>5 DEF Frame, ExitsOnce
  <1>9. \A u \in Tasks : task[u].pc # "idle" => orders'[task[u].order] = orders[task[u].order]
    BY <1>1, <1>6 DEF Frame, TasksShaped, Placed
  <1>10. \A u \in Tasks : task[u].exit # 0 => orders'[task[u].exit] = orders[task[u].exit]
    BY <1>1, <1>6 DEF Frame, TasksShaped, Placed
  <1>11. \A o \in Ids : /\ tracked'[o] <= orders'[o].qty /\ position'[o] <= orders'[o].qty
                        /\ position'[o] > 0 => orders'[o].closes = 0
                        /\ saved'[o] <= orders'[o].qty /\ (saved'[o] > 0 => orders'[o].closes = 0)
    <2>1. tracked[x] = 0 /\ position[x] = 0 /\ saved[x] = 0
      BY NewOrder
    <2>2. r.qty >= 0
      BY Numbers DEF Order
    <2> QED  BY <1>1, <2>1, <2>2 DEF Frame, Bounded, Stays
  <1>12. \A u \in Tasks : task[u].exits => task[u].pc # "idle"
    BY IdleTask DEF Frame, TasksShaped
  <1>13. Bounded'
    <2>1. \A u \in Tasks \ {t} :
            /\ task'[u].pc # "idle" => task'[u].want <= orders'[task'[u].order].qty
            /\ task'[u].exits =>
                 /\ orders'[task'[u].order].closes = 0
                 /\ task'[u].pc \in {"look", "cancel", "balance", "post", "unknown", "record"} =>
                      /\ task'[u].want <= position'[task'[u].order]
                      /\ task'[u].exit # 0 => orders'[task'[u].exit].qty <= task'[u].want
      BY <1>5, <1>9, <1>10, <1>12 DEF Frame, Bounded
    <2>2. /\ task'[t].want <= orders'[task'[t].order].qty
          /\ task'[t].exits => /\ orders'[task'[t].order].closes = 0
                               /\ task'[t].want <= position'[task'[t].order]
          /\ orders'[task'[t].exit].qty <= task'[t].want
      BY <1>1, <1>5, <1>9 DEF Frame, Bounded
    <2> QED  BY <1>11, <2>1, <2>2 DEF Bounded
  <1> QED  BY <1>1, <1>2, <1>4, <1>4a, <1>7, <1>8, <1>13 DEF Frame

-------------------------------------------------------------------------------
(* The stops                                                                   *)

\* A lot keeps its guard while its orders and its position stay, and the exits past
\* their look stay clear of its stop.
LEMMA GuardKept ==
  ASSUME NEW o \in Placed, Guarded(o), orders'[o] = orders[o], fill'[o] = fill[o],
         o \in resting' => o \in resting, position'[o] = position[o],
         Closings(o)' = Closings(o), \A x \in Closings(o) : orders'[x] = orders[x],
         \A u \in Tasks : Past(u, o)' =>
           \/ Past(u, o) /\ task'[u] = task[u]
           \/ Clear(u, o)'
  PROVE  Guarded(o)'
  <1>1. ASSUME NEW u \in Tasks, Past(u, o)' PROVE Clear(u, o)'
    BY <1>1 DEF Guarded, Clear
  <1> QED  BY <1>1 DEF Guarded

LEMMA MarkedGrows ==
  ASSUME astray \subseteq astray', NEW o, Marked(o)
  PROVE  Marked(o)'
  BY DEF Marked

\* Most steps of a task touch no position.
LEMMA GuardsTask ==
  ASSUME Frame, Guards, NEW t \in Tasks, UNCHANGED <<orders, fill, position, saved>>,
         resting' \subseteq resting, astray \subseteq astray',
         \A u \in Tasks \ {t} : task'[u] = task[u],
         task[t].pc = "match" /\ task[t].exits => <<task[t].order, "cut">> \in astray',
         task'[t].pc = "look" => Stopped(task'[t].order),
         \A o \in Placed : Guarded(o) /\ Past(t, o)' => Clear(t, o)' \/ Marked(o)'
  PROVE  Guards'
  <1>1. Placed' = Placed /\ \A o : Closings(o)' = Closings(o)
    BY KeptOrders DEF Frame
  <1>2. ASSUME NEW o \in Placed, ~Marked(o)' PROVE Guarded(o)'
    <2>1. Guarded(o)
      BY <1>2, MarkedGrows DEF Guards, StopsGuarded
    <2>2. ASSUME NEW u \in Tasks, Past(u, o)'
          PROVE  (Past(u, o) /\ task'[u] = task[u]) \/ Clear(u, o)'
      BY <1>2, <2>1, <2>2 DEF Past
    <2> QED  BY <1>1, <2>1, <2>2, GuardKept
  <1>3. Looks'
    BY DEF Guards, Looks, Stopped
  <1>4. SavedTells'
    <2>1. ASSUME NEW o \in Ids, NEW u \in Tasks, task[u].exits, task[u].order = o,
                 task[u].pc = "match"
          PROVE  \/ <<o, "cut">> \in astray'
                 \/ task'[u].exits /\ task'[u].order = o /\ task'[u].pc = "match"
      BY <2>1
    <2> QED  BY <2>1 DEF Guards, SavedTells
  <1> QED  BY <1>1, <1>2, <1>3, <1>4 DEF Guards, StopsGuarded

LEMMA GuardsSame ==
  ASSUME Frame, Guards, UNCHANGED <<orders, fill, position, saved, resting, task>>,
         astray \subseteq astray'
  PROVE  Guards'
  <1>1. Placed' = Placed /\ \A o : Closings(o)' = Closings(o)
    BY KeptOrders DEF Frame
  <1>2. ASSUME NEW o \in Placed, ~Marked(o)' PROVE Guarded(o)'
    <2>1. Guarded(o)
      BY <1>2, MarkedGrows DEF Guards, StopsGuarded
    <2> QED  BY <1>1, <2>1, GuardKept DEF Past
  <1>3. Looks' /\ SavedTells'
    BY DEF Guards, Looks, Stopped, SavedTells
  <1> QED  BY <1>1, <1>2, <1>3 DEF Guards, StopsGuarded

\* Before its order is sent.
LEMMA GuardsAdvance ==
  ASSUME Frame, Guards, NEW t \in Tasks, Advance(t),
         ~task[t].exits \/ Passes(t) \/ Cancel(t) \/ task[t].pc \notin {"look", "cancel"} \/ Done(t),
         UNCHANGED <<fill, saved>>, resting' \subseteq resting, astray \subseteq astray'
  PROVE  Guards'
  <1>0. TypeOK
    BY DEF Frame
  <1>1. /\ UNCHANGED <<orders, position>>
        /\ task[t].pc \in {"query", "matches", "look", "cancel", "balance", "post"}
    BY DEF Advance
  <1>2. CASE Done(t)
    <2>1. /\ task'[t].pc = "idle" /\ task'[t].exits = FALSE
          /\ \A u \in Tasks \ {t} : task'[u] = task[u]
      BY <1>0, <1>2, DoneFields
    <2> QED  BY <1>1, <2>1, GuardsTask DEF Past
  <1>3. ASSUME ~Done(t), NEW pc \in {"matches", "cancel", "balance", "post", "unknown"}, NEW want,
               Becomes(t, pc, want, 0)
        PROVE  Guards'
    <2>1. /\ task'[t].pc = pc /\ task'[t].exits = task[t].exits /\ task'[t].order = task[t].order
          /\ \A u \in Tasks \ {t} : task'[u] = task[u]
      BY <1>0, <1>3, BecomesFields
    <2>2. ASSUME NEW o \in Placed, Guarded(o), Past(t, o)'
          PROVE  Clear(t, o)' \/ Marked(o)'
      <3>1. task[t].exits /\ task[t].order = o
        BY <2>1, <2>2 DEF Past
      <3>2. CASE task[t].pc \notin {"look", "cancel"}
        <4>1. Past(t, o)
          BY <1>1, <3>1, <3>2 DEF Past
        <4>2. o \notin resting /\ fill[o] = 0
          BY <1>1, <2>2, <3>2, <4>1 DEF Guarded, Clear
        <4> QED  BY <4>2 DEF Clear
      <3>3. CASE Passes(t)
        <4>1. task'[t].pc = "cancel"
          BY <1>0, <3>3, GoesForm, BecomesFields DEF Passes
        <4>2. fill[o] # 0 => <<o, "raced">> \in astray'
          BY <3>1, <3>3 DEF Passes
        <4> QED  BY <4>1, <4>2 DEF Clear, Marked
      <3>4. CASE Cancel(t)
        <4>1. task[t].pc = "cancel" /\ Past(t, o)
          BY <3>1, <3>4 DEF Cancel, Past
        <4>2. fill[o] = 0
          BY <2>2, <4>1 DEF Guarded, Clear
        <4>3. o \in resting' => <<o, "raced">> \in astray'
          BY <3>1, <3>4 DEF Cancel
        <4> QED  BY <4>2, <4>3 DEF Clear, Marked
      <3> QED  BY <1>3, <3>1, <3>2, <3>3, <3>4
    <2>3. task'[t].pc # "look"
      BY <2>1
    <2>4. task[t].pc # "match"
      BY <1>1
    <2> QED  BY <1>1, <2>1, <2>2, <2>3, <2>4, GuardsTask
  <1> QED  BY <1>2, <1>3 DEF Advance

LEMMA GuardsDone ==
  ASSUME Frame, Guards, NEW t \in Tasks, Done(t), UNCHANGED <<orders, position>>, Stays,
         astray \subseteq astray',
         task[t].pc = "match" /\ task[t].exits => <<task[t].order, "cut">> \in astray'
  PROVE  Guards'
  <1>0. TypeOK
    BY DEF Frame
  <1>1. /\ task'[t].pc = "idle" /\ task'[t].exits = FALSE
        /\ \A u \in Tasks \ {t} : task'[u] = task[u]
    BY <1>0, DoneFields
  <1> QED  BY <1>1, GuardsTask DEF Past, Stays

\* The answer to a task that was past its look.
LEMMA GuardsAnswers ==
  ASSUME Frame, Guards, NEW t \in Tasks, task[t].pc = "unknown", NEW x,
         Becomes(t, "record", task[t].want, x), UNCHANGED <<orders, position, astray>>, Stays
  PROVE  Guards'
  <1>0. TypeOK
    BY DEF Frame
  <1>1. /\ task'[t].pc = "record" /\ task'[t].exits = task[t].exits
        /\ task'[t].order = task[t].order /\ \A u \in Tasks \ {t} : task'[u] = task[u]
    BY <1>0, BecomesFields
  <1>2. ASSUME NEW o \in Placed, Guarded(o), Past(t, o)' PROVE Clear(t, o)'
    <2>1. Past(t, o)
      BY <1>1, <1>2 DEF Past
    <2>2. o \notin resting /\ fill[o] = 0
      BY <1>2, <2>1 DEF Guarded, Clear
    <2> QED  BY <2>2 DEF Clear, Stays
  <1> QED  BY <1>1, <1>2, GuardsTask DEF Stays

\* An exit begins with a look, unless a part of its position was sold already.
LEMMA GuardsBegins ==
  ASSUME Frame, Guards, NEW t \in Tasks, task[t].pc = "idle", NEW p \in Placed,
         NEW exits \in BOOLEAN, NEW pc \in {"query", "look", "balance"}, NEW want,
         exits <=> pc # "query", Begin(t, p, pc, exits, want),
         UNCHANGED <<orders, position, astray>>, Stays,
         pc = "look" => Stopped(p), pc = "balance" => ~Stopped(p) /\ position[p] > 0
  PROVE  Guards'
  <1>1. /\ task'[t] = Doing(pc, exits, p, want) /\ \A u \in Tasks \ {t} : task'[u] = task[u]
    BY TypeFacts DEF Begin, Frame
  <1>2. task'[t].pc = pc /\ task'[t].exits = exits /\ task'[t].order = p
    BY <1>1 DEF Doing
  <1>3. ASSUME NEW o \in Placed, Guarded(o), Past(t, o)' PROVE Clear(t, o)'
    <2>1. o = p /\ pc = "balance"
      BY <1>2, <1>3 DEF Past
    <2>2. position[o] # orders[o].qty /\ position[o] # 0
      <3>1. position[o] \in Nat
        BY TypeFacts, Numbers DEF Frame, Placed
      <3> QED  BY <2>1, <3>1 DEF Stopped
    <2>3. o \notin resting /\ fill[o] = 0
      BY <1>3, <2>2 DEF Guarded
    <2> QED  BY <2>3 DEF Clear, Stays
  <1> QED  BY <1>1, <1>2, <1>3, GuardsTask DEF Stays

\* What executed leaves the position of an exit: it has cancelled the stop, or this
\* is the stop.
LEMMA GuardsTakes ==
  ASSUME Frame, Guards, NEW t \in Tasks, NEW want, NEW x, Becomes(t, "match", want, x),
         UNCHANGED <<orders, astray>>, Stays, position' \in [Ids -> Amounts],
         \A o \in Ids : position'[o] = position[o] \/ (task[t].exits /\ o = task[t].order),
         \/ task[t].pc = "record"
         \/ /\ task[t].pc = "look" /\ fill[task[t].order] = x /\ x # 0
            /\ position'[task[t].order] = 0
  PROVE  Guards'
  <1> DEFINE p == task[t].order
  <1>0. TypeOK /\ p \in Placed /\ (task[t].pc = "look" => task[t].exits)
    BY DEF Frame, TasksShaped
  <1>1. /\ task'[t].pc = "match" /\ task'[t].exits = task[t].exits /\ task'[t].order = p
        /\ task'[t].exit = x /\ \A u \in Tasks \ {t} : task'[u] = task[u]
    BY <1>0, BecomesFields
  <1>2. Placed' = Placed /\ \A o : Closings(o)' = Closings(o)
    BY KeptOrders DEF Frame
  <1>3. ASSUME NEW o \in Placed, Guarded(o) PROVE Guarded(o)'
    <2>1. o \in Ids
      BY DEF Placed
    <2>2. \A u \in Tasks \ {t} : Past(u, o)' => Past(u, o) /\ task'[u] = task[u]
      BY <1>1 DEF Past
    <2>3. CASE o # p \/ ~task[t].exits
      <3>1. ~Past(t, o)' /\ position'[o] = position[o]
        BY <1>1, <2>1, <2>3 DEF Past
      <3> QED  BY <1>2, <1>3, <2>2, <3>1, GuardKept DEF Stays
    <2>4. CASE o = p /\ task[t].exits /\ task[t].pc = "record"
      <3>1. Past(t, o)
        BY <2>4 DEF Past
      <3>2. o \notin resting /\ fill[o] = 0
        BY <1>3, <2>4, <3>1 DEF Guarded, Clear
      <3> QED  BY <3>2 DEF Guarded, Clear, Stays
    <2>5. CASE o = p /\ task[t].pc = "look"
      <3>1. fill[o] = x /\ x # 0 /\ o \notin resting /\ position'[o] = 0
        BY <2>5 DEF Frame, StopsShaped
      <3>2. \A y \in Closings(o) : orders[y].square \/ y = fill[o]
        BY <1>3, <3>1 DEF Guarded
      <3>3. Clear(t, o)'
        BY <1>1, <3>1 DEF Clear, Stays
      <3>4. \A u \in Tasks : Past(u, o)' => Clear(u, o)'
        <4>1. ASSUME NEW u \in Tasks \ {t}, Past(u, o)' PROVE Clear(u, o)'
          <5>1. Past(u, o) /\ task'[u] = task[u]
            BY <2>2, <4>1
          <5> QED  BY <1>3, <5>1 DEF Guarded, Clear, Stays
        <4> QED  BY <3>3, <4>1
      <3> QED  BY <1>2, <3>1, <3>2, <3>4 DEF Guarded, Stays
    <2> QED  BY <2>3, <2>4, <2>5
  <1>4. Looks'
    <2>1. ASSUME NEW u \in Tasks, task'[u].pc = "look"
          PROVE  position'[task'[u].order] = orders'[task'[u].order].qty
      <3>1. u # t /\ task[u].pc = "look" /\ task'[u].order = task[u].order
        BY <1>1, <2>1
      <3>2. task[u].exits /\ task[u].order \in Ids
        BY <3>1 DEF Frame, TasksShaped, Placed
      <3>3. ~(task[t].exits /\ task[u].order = p)
        BY <3>1, <3>2 DEF Frame, ExitsOnce
      <3>4. position'[task[u].order] = position[task[u].order]
        BY <3>2, <3>3
      <3> QED  BY <3>1, <3>4 DEF Guards, Looks, Stopped
    <2> QED  BY <2>1 DEF Looks, Stopped
  <1>5. SavedTells'
    <2>1. ASSUME NEW o \in Ids
          PROVE  \/ saved'[o] = position'[o] \/ <<o, "cut">> \in astray'
                 \/ \E u \in Tasks : task'[u].exits /\ task'[u].order = o /\ task'[u].pc = "match"
      <3>1. CASE task[t].exits /\ o = p
        BY <1>1, <3>1
      <3>2. CASE ~(task[t].exits /\ o = p)
        <4>1. position'[o] = position[o] /\ saved'[o] = saved[o]
          BY <3>2 DEF Stays
        <4>2. \A u \in Tasks : task[u].exits /\ task[u].order = o => task'[u] = task[u]
          BY <1>1, <3>2
        <4> QED  BY <4>1, <4>2 DEF Guards, SavedTells
      <3> QED  BY <3>1, <3>2
    <2> QED  BY <2>1 DEF SavedTells
  <1> QED  BY <1>2, <1>3, <1>4, <1>5 DEF Guards, StopsGuarded, Marked

\* An exit saves its position.
LEMMA GuardsMatch ==
  ASSUME Frame, Guards, NEW t \in Tasks, task[t].pc = "match",
         Becomes(t, "row", task[t].want, task[t].exit), UNCHANGED <<orders, position, astray>>,
         UNCHANGED <<resting, fill>>,
         saved' = IF task[t].exits THEN [saved EXCEPT ![task[t].order] = position[task[t].order]]
                  ELSE saved
  PROVE  Guards'
  <1> DEFINE p == task[t].order
  <1>0. TypeOK /\ p \in Ids /\ saved \in [Ids -> Amounts]
    BY TypeFacts DEF Frame, TasksShaped, Placed
  <1>1. /\ task'[t].pc = "row" /\ task'[t].exits = task[t].exits /\ task'[t].order = p
        /\ task'[t].exit = task[t].exit /\ \A u \in Tasks \ {t} : task'[u] = task[u]
    BY <1>0, BecomesFields
  <1>2. Placed' = Placed /\ \A o : Closings(o)' = Closings(o)
    BY KeptOrders DEF Frame
  <1>3. ASSUME NEW o \in Placed, Guarded(o) PROVE Guarded(o)'
    <2>1. ASSUME NEW u \in Tasks, Past(u, o)'
          PROVE  (Past(u, o) /\ task'[u] = task[u]) \/ Clear(u, o)'
      <3>1. CASE u # t
        BY <1>1, <2>1, <3>1 DEF Past
      <3>2. CASE u = t
        <4>1. Past(t, o)
          BY <1>1, <2>1, <3>2 DEF Past
        <4>2. o \notin resting /\ (fill[o] # 0 => fill[o] = task[t].exit)
          BY <1>3, <4>1 DEF Guarded, Clear
        <4> QED  BY <1>1, <3>2, <4>2 DEF Clear
      <3> QED  BY <3>1, <3>2
    <2> QED  BY <1>2, <1>3, <2>1, GuardKept
  <1>4. Looks'
    BY <1>1 DEF Guards, Looks, Stopped
  <1>5. SavedTells'
    <2>1. ASSUME NEW o \in Ids
          PROVE  \/ saved'[o] = position'[o] \/ <<o, "cut">> \in astray'
                 \/ \E u \in Tasks : task'[u].exits /\ task'[u].order = o /\ task'[u].pc = "match"
      <3>1. CASE task[t].exits /\ o = p
        BY <1>0, <3>1
      <3>2. CASE ~(task[t].exits /\ o = p)
        <4>1. saved'[o] = saved[o]
          BY <1>0, <3>2
        <4>2. \A u \in Tasks : task[u].exits /\ task[u].order = o => task'[u] = task[u]
          BY <1>1, <3>2
        <4> QED  BY <4>1, <4>2 DEF Guards, SavedTells
      <3> QED  BY <3>1, <3>2
    <2> QED  BY <2>1 DEF SavedTells
  <1> QED  BY <1>2, <1>3, <1>4, <1>5 DEF Guards, StopsGuarded, Marked

\* After a restart a position is what was saved of it, which was behind only where
\* a task was cut off.
LEMMA SavedBack ==
  ASSUME Frame, Guards, astray' = astray \cup UNION {Cut(t) : t \in Tasks}, NEW o \in Ids,
         <<o, "cut">> \notin astray'
  PROVE  saved[o] = position[o] /\ \A t \in Tasks : task[t].exit # 0 => task[t].order # o
  <1>1. \A t \in Tasks : task[t].exit # 0 => task[t].order # o
    <2> SUFFICES ASSUME NEW t \in Tasks, task[t].exit # 0, task[t].order = o PROVE FALSE
      OBVIOUS
    <2>1. <<o, "cut">> \in Cut(t)
      BY DEF Cut
    <2> QED  BY <2>1
  <1>2. \A t \in Tasks : task[t].pc = "match" => task[t].exit # 0
    BY DEF Frame, TasksShaped, Landed
  <1> QED  BY <1>1, <1>2 DEF Guards, SavedTells

LEMMA GuardsRestart ==
  ASSUME Frame, Guards, UNCHANGED orders, Stays, position' = saved,
         task' = [t \in Tasks |-> Idle], astray' = astray \cup UNION {Cut(t) : t \in Tasks}
  PROVE  Guards'
  <1>1. Placed' = Placed /\ \A o : Closings(o)' = Closings(o)
    BY KeptOrders DEF Frame
  <1>2. \A t \in Tasks : task'[t].pc = "idle" /\ task'[t].exits = FALSE
    BY IdleTask
  <1>3. ASSUME NEW o \in Placed, ~Marked(o)' PROVE Guarded(o)'
    <2>1. Guarded(o)
      BY <1>3, MarkedGrows DEF Guards, StopsGuarded
    <2>2. o \in Ids /\ <<o, "cut">> \notin astray'
      BY <1>3 DEF Placed, Marked
    <2>3. position'[o] = position[o]
      BY <2>2, SavedBack
    <2> QED  BY <1>1, <1>2, <2>1, <2>3, GuardKept DEF Past, Stays
  <1>4. Looks' /\ SavedTells'
    BY <1>2 DEF Looks, SavedTells, Stays
  <1> QED  BY <1>1, <1>3, <1>4 DEF Guards, StopsGuarded

\* Nothing closes a new order, it has no stop yet, and no task is about it.
LEMMA NewFree ==
  ASSUME Frame, NEW x \in Ids, NEW r \in Order, r.qty > 0, Adds(x, r)
  PROVE  /\ Closings(x) = {} /\ Closings(x)' = {} /\ fill[x] = 0 /\ x \notin resting /\ x # 0
         /\ \A u \in Tasks : task[u].order # x /\ task[u].exit # x
  <1>0. x \notin Placed /\ x # 0 /\ x \in Int
    BY Numbers DEF Adds
  <1>1. Closings(x) = {}
    <2> SUFFICES ASSUME NEW y \in Closings(x) PROVE FALSE
      OBVIOUS
    <2>1. y \in Placed /\ y \in Ids /\ x < y
      BY DEF Closings, Placed, Frame, OrdersShaped
    <2> QED  BY <2>1 DEF Adds, Frame, OrdersShaped
  <1>2. Closings(x)' = {}
    <2>1. r.closes # x
      BY <1>0, AddsFacts
    <2> QED  BY <1>1, <2>1, AddsFacts
  <1>3. fill[x] = 0 /\ x \notin resting
    BY <1>0 DEF Frame, StopsShaped
  <1>4. \A u \in Tasks : task[u].order # x /\ task[u].exit # x
    BY <1>0, IdleTask DEF Frame, TasksShaped
  <1> QED  BY <1>0, <1>1, <1>2, <1>3, <1>4

\* An order executes: the lots it does not close keep their guard.
LEMMA GuardsAdds ==
  ASSUME Frame, Guards, NEW x \in Ids, NEW r \in Order, r.qty > 0, Adds(x, r),
         astray \subseteq astray',
         \A o \in Ids \ {x} : position'[o] = position[o] /\ saved'[o] = saved[o],
         position'[x] = saved'[x], x \in resting' => position'[x] = r.qty, fill'[x] = 0,
         \A o \in Placed \ {r.closes} : (o \in resting' => o \in resting) /\ fill'[o] = fill[o],
         \A u \in Tasks :
           \/ task'[u] = task[u]
           \/ /\ task[u].pc = "post" /\ task'[u].pc \in {"record", "unknown"}
              /\ task'[u].exits = task[u].exits /\ task'[u].order = task[u].order,
         r.closes # 0 => Guarded(r.closes)' \/ Marked(r.closes)'
  PROVE  Guards'
  <1>0. /\ Closings(x)' = {} /\ x # 0 /\ \A u \in Tasks : task[u].order # x /\ task[u].exit # x
    BY NewFree
  <1>1. /\ Placed' = Placed \cup {x} /\ orders'[x] = r /\ x \notin Placed
        /\ \A y \in Ids \ {x} : orders'[y] = orders[y]
        /\ \A o \in Ids : Closings(o)' = IF o = r.closes THEN Closings(o) \cup {x} ELSE Closings(o)
    <2>1. x \notin Placed
      BY DEF Adds
    <2> QED  BY <2>1, AddsFacts
  <1>2. ASSUME NEW o \in Placed, o # r.closes, Guarded(o) PROVE Guarded(o)'
    <2>1. o \in Ids \ {x} /\ Closings(o) \subseteq Placed /\ Closings(o)' = Closings(o)
      BY <1>1, <1>2 DEF Closings, Placed
    <2>2. /\ orders'[o] = orders[o] /\ \A y \in Closings(o) : orders'[y] = orders[y]
      BY <1>1, <2>1 DEF Placed
    <2>3. ASSUME NEW u \in Tasks, Past(u, o)'
          PROVE  (Past(u, o) /\ task'[u] = task[u]) \/ Clear(u, o)'
      <3>1. CASE task'[u] = task[u]
        BY <2>3, <3>1 DEF Past
      <3>2. CASE task[u].pc = "post" /\ task'[u].exits = task[u].exits
                   /\ task'[u].order = task[u].order
        <4>1. Past(u, o)
          BY <2>3, <3>2 DEF Past
        <4>2. o \notin resting /\ fill[o] = 0
          BY <1>2, <3>2, <4>1 DEF Guarded, Clear
        <4> QED  BY <1>2, <4>2 DEF Clear
      <3> QED  BY <3>1, <3>2
    <2> QED  BY <1>2, <2>1, <2>2, <2>3, GuardKept
  <1>3. Guarded(x)'
    <2>1. \A u \in Tasks : ~Past(u, x)'
      BY <1>0 DEF Past
    <2> QED  BY <1>0, <1>1, <2>1 DEF Guarded
  <1>4. StopsGuarded'
    <2>1. ASSUME NEW o \in Placed' PROVE Marked(o)' \/ Guarded(o)'
      <3>1. CASE o = x
        BY <1>3, <3>1
      <3>2. CASE o = r.closes
        BY <1>1, <2>1, <3>2, Numbers DEF Placed
      <3>3. CASE o \in Placed /\ o # r.closes
        BY <1>2, <3>3, MarkedGrows DEF Guards, StopsGuarded
      <3> QED  BY <1>1, <3>1, <3>2, <3>3
    <2> QED  BY <2>1 DEF StopsGuarded
  <1>5. Looks'
    <2>1. ASSUME NEW u \in Tasks, task'[u].pc = "look"
          PROVE  position'[task'[u].order] = orders'[task'[u].order].qty
      <3>1. task'[u] = task[u] /\ task[u].pc = "look"
        BY <2>1
      <3>2. task[u].order \in Ids \ {x}
        BY <1>1, <3>1 DEF Frame, TasksShaped, Placed
      <3> QED  BY <1>1, <3>1, <3>2 DEF Guards, Looks, Stopped
    <2> QED  BY <2>1 DEF Looks, Stopped
  <1>6. SavedTells'
    <2>1. ASSUME NEW o \in Ids
          PROVE  \/ saved'[o] = position'[o] \/ <<o, "cut">> \in astray'
                 \/ \E u \in Tasks : task'[u].exits /\ task'[u].order = o /\ task'[u].pc = "match"
      <3>1. CASE o = x
        BY <3>1
      <3>2. CASE o # x
        <4>1. saved'[o] = saved[o] /\ position'[o] = position[o]
          BY <3>2
        <4>2. \A u \in Tasks : task[u].pc = "match" => task'[u] = task[u]
          OBVIOUS
        <4> QED  BY <4>1, <4>2 DEF Guards, SavedTells
      <3> QED  BY <3>1, <3>2
    <2> QED  BY <2>1 DEF SavedTells
  <1> QED  BY <1>4, <1>5, <1>6 DEF Guards

LEMMA GuardsPlace ==
  ASSUME Frame, Guards, NEW side \in Sides, NEW entry \in BOOLEAN, Place(side, entry)
  PROVE  Guards'
  <1>1. PICK x \in Ids, r \in Order :
          /\ Adds(x, r) /\ r.qty = Lot /\ r.closes = 0
          /\ \/ /\ position' = [position EXCEPT ![x] = Lot]
                /\ saved' = [saved EXCEPT ![x] = Lot] /\ resting' = resting \cup {x}
             \/ UNCHANGED <<position, saved, resting>>
          /\ UNCHANGED <<fill, rows, task, astray>>
    BY PlaceForm
  <1>0. r.qty > 0 /\ position \in [Ids -> Amounts] /\ saved \in [Ids -> Amounts]
    BY <1>1, Numbers, TypeFacts DEF Frame
  <1>2. position[x] = 0 /\ saved[x] = 0 /\ fill[x] = 0 /\ x \notin resting
    BY <1>0, <1>1, NewOrder, NewFree
  <1>3. /\ \A o \in Ids \ {x} : position'[o] = position[o] /\ saved'[o] = saved[o]
        /\ position'[x] = saved'[x] /\ (x \in resting' => position'[x] = r.qty)
    BY <1>0, <1>1, <1>2
  <1>4. \A o \in Placed : o \in resting' => o \in resting
    BY <1>1 DEF Adds
  <1> QED  BY <1>0, <1>1, <1>2, <1>3, <1>4, GuardsAdds

\* A stop sells a whole lot, unless an exit was past its look.
LEMMA GuardsTrigger ==
  ASSUME Frame, Guards, NEW o \in Ids, Trigger(o)
  PROVE  Guards'
  <1>1. /\ o \in resting /\ o \in Placed /\ resting' = resting \ {o}
        /\ UNCHANGED <<position, saved, task>> /\ astray \subseteq astray'
        /\ \A u \in Tasks : Past(u, o) => <<o, "raced">> \in astray'
    BY TriggerForm
  <1>2. PICK x \in Ids, r \in Order :
          /\ Adds(x, r) /\ r.qty = Lot /\ r.closes = o /\ ~r.square
          /\ fill' = [fill EXCEPT ![o] = x]
    BY TriggerForm
  <1>0. r.qty > 0 /\ fill \in [Ids -> 0 .. MaxOrders] /\ x \notin Placed
    <2>1. r.qty > 0
      BY <1>2, Numbers
    <2> QED  BY <1>2, <2>1, TypeFacts DEF Frame, Adds
  <1>3. position[x] = 0 /\ saved[x] = 0 /\ fill[x] = 0 /\ x \notin resting
    BY <1>0, <1>2, NewOrder, NewFree
  <1>4. fill'[x] = 0 /\ fill'[o] = x /\ \A p \in Placed \ {o} : fill'[p] = fill[p]
    BY <1>0, <1>1, <1>2, <1>3 DEF Placed
  <1>5. Guarded(o)' \/ Marked(o)'
    <2> SUFFICES ASSUME ~Marked(o)' PROVE Guarded(o)'
      OBVIOUS
    <2>1. Guarded(o)
      BY <1>1, MarkedGrows DEF Guards, StopsGuarded
    <2>2. \A u \in Tasks : ~Past(u, o)'
      BY <1>1 DEF Past, Marked
    <2>3. position[o] = orders[o].qty /\ \A y \in Closings(o) : orders[y].square
      BY <1>1, <2>1 DEF Guarded
    <2>4. Closings(o)' = Closings(o) \cup {x} /\ orders'[o] = orders[o]
          /\ \A y \in Closings(o) : orders'[y] = orders[y]
      BY <1>0, <1>1, <1>2, AddsFacts DEF Closings, Placed
    <2> QED  BY <1>1, <1>4, <2>2, <2>3, <2>4 DEF Guarded
  <1> QED  BY <1>0, <1>1, <1>2, <1>3, <1>4, <1>5, GuardsAdds

\* A close by square-off leaves the stop alone; an exit has cancelled it.
LEMMA GuardsPost ==
  ASSUME Frame, Guards, NEW t \in Tasks, Post(t)
  PROVE  Guards'
  <1>p. PICK p \in Placed : p = task[t].order
    BY PostForm
  <1>1. /\ task[t].pc = "post" /\ UNCHANGED position /\ Stays
        /\ astray' = astray \cup Shared(p, ~task[t].exits)
    BY <1>p, PostForm
  <1>2. PICK x \in Ids, r \in Order, pc \in {"record", "unknown"} :
          /\ Adds(x, r) /\ r.qty > 0 /\ r.closes = p /\ r.square = ~task[t].exits
          /\ Becomes(t, pc, task[t].want, x)
    BY <1>p, PostForm
  <1>0. TypeOK /\ x \notin Placed /\ task[t].exits \in BOOLEAN
    BY <1>2, TypeFacts DEF Frame, Adds, Task
  <1>3. position[x] = 0 /\ saved[x] = 0 /\ fill[x] = 0 /\ x \notin resting
    BY <1>2, NewOrder, NewFree
  <1>4. /\ task'[t].pc = pc /\ task'[t].exits = task[t].exits /\ task'[t].order = p
        /\ \A u \in Tasks \ {t} : task'[u] = task[u]
    BY <1>p, <1>0, <1>2, BecomesFields
  <1>5. ASSUME ~Marked(p)' PROVE Guarded(p)'
    <2>1. Guarded(p)
      BY <1>1, <1>5, MarkedGrows DEF Guards, StopsGuarded
    <2>2. /\ Closings(p)' = Closings(p) \cup {x} /\ orders'[p] = orders[p] /\ orders'[x] = r
          /\ \A y \in Closings(p) : orders'[y] = orders[y]
      BY <1>0, <1>1, <1>2, AddsFacts DEF Closings, Placed
    <2>3. CASE task[t].exits
      <3>1. Past(t, p)
        BY <1>p, <1>1, <2>3 DEF Past
      <3>2. p \notin resting /\ fill[p] = 0
        BY <1>1, <2>1, <3>1 DEF Guarded, Clear
      <3> QED  BY <1>1, <3>2 DEF Guarded, Clear, Stays
    <2>4. CASE ~task[t].exits
      <3>1. \A u \in Tasks : Past(u, p)' => Past(u, p) /\ task'[u] = task[u]
        BY <1>4, <2>4 DEF Past
      <3>2. \A y \in Closings(p)' : y \in Closings(p) \/ orders'[y].square
        BY <1>2, <2>2, <2>4
      <3> QED  BY <1>1, <2>1, <2>2, <3>1, <3>2 DEF Guarded, Clear, Stays
    <2> QED  BY <1>0, <2>3, <2>4
  <1>6. /\ \A o \in Ids \ {x} : position'[o] = position[o] /\ saved'[o] = saved[o]
        /\ position'[x] = saved'[x] /\ x \notin resting' /\ fill'[x] = 0
        /\ \A o \in Placed : (o \in resting' => o \in resting) /\ fill'[o] = fill[o]
    BY <1>1, <1>3 DEF Stays
  <1>7. \A u \in Tasks :
           \/ task'[u] = task[u]
           \/ /\ task[u].pc = "post" /\ task'[u].pc \in {"record", "unknown"}
              /\ task'[u].exits = task[u].exits /\ task'[u].order = task[u].order
    BY <1>p, <1>1, <1>4
  <1> QED  BY <1>1, <1>2, <1>5, <1>6, <1>7, GuardsAdds

Books == Booked /\ Newest

\* An execution of a stop waits for its exit until its position is touched.
Kept(o) == fill[o] # 0 => position'[o] = position[o] \/ Marked(o)

LEMMA UnfoundKept ==
  ASSUME Frame, UNCHANGED <<orders, fill>>, astray \subseteq astray', NEW o \in Placed,
         NEW x \in Placed, Kept(o), fill[o] = x /\ (Stopped(o) \/ <<o, "raced">> \in astray)
  PROVE  \/ fill'[o] = x /\ (Stopped(o)' \/ <<o, "raced">> \in astray')
         \/ <<o, "cut">> \in astray'
  <1>1. fill[o] # 0
    BY Numbers DEF Placed
  <1>2. CASE Marked(o)
    BY <1>2 DEF Marked
  <1>3. CASE position'[o] = position[o]
    BY <1>3 DEF Stopped
  <1> QED  BY <1>1, <1>2, <1>3 DEF Kept

LEMMA ClosedPlaced ==
  ASSUME Frame, NEW x \in Placed, orders[x].closes # 0
  PROVE  orders[x].closes \in Placed /\ x # 0
  <1>1. orders[x].closes < x /\ orders[x].closes \in 0 .. MaxOrders /\ x \in Ids
    BY TypeFacts DEF Frame, OrdersShaped, Placed, Order
  <1>2. orders[x].closes \in Ids /\ x # 0
    BY <1>1, Numbers
  <1> QED  BY <1>1, <1>2 DEF Frame, OrdersShaped

\* Steps that execute and store nothing and leave each task its closing order.
LEMMA BooksSame ==
  ASSUME Frame, Books, UNCHANGED <<orders, rows, fill>>, astray \subseteq astray',
         \A o \in Placed : Kept(o),
         \A u \in Tasks : /\ task'[u].exit = task[u].exit
                          /\ task[u].exit # 0 => /\ task'[u].exits = task[u].exits
                                                 /\ task'[u].order = task[u].order
  PROVE  Books'
  <1>1. Placed' = Placed /\ \A o : Closings(o)' = Closings(o)
    BY KeptOrders DEF Frame
  <1>2. ASSUME NEW x \in Placed, orders[x].closes # 0
        PROVE  \/ Row(orders[x].closes, x)' # {}
               \/ <<orders[x].closes, "cut">> \in astray'
               \/ \E u \in Tasks : task'[u].exit = x
               \/ fill'[orders[x].closes] = x
                    /\ (position'[orders[x].closes] = orders'[orders[x].closes].qty
                          \/ <<orders[x].closes, "raced">> \in astray')
    <2>1. orders[x].closes \in Placed
      BY <1>2, ClosedPlaced
    <2>2. CASE Row(orders[x].closes, x) # {}
      BY <2>2 DEF Row
    <2>3. CASE <<orders[x].closes, "cut">> \in astray
      BY <2>3
    <2>4. CASE \E u \in Tasks : task[u].exit = x
      BY <2>4
    <2>5. CASE fill[orders[x].closes] = x
               /\ (Stopped(orders[x].closes) \/ <<orders[x].closes, "raced">> \in astray)
      <3>1. PICK o \in Placed : o = orders[x].closes
        BY <2>1
      <3>2. \/ fill'[o] = x /\ (Stopped(o)' \/ <<o, "raced">> \in astray')
            \/ <<o, "cut">> \in astray'
        BY <2>5, <3>1, UnfoundKept
      <3> QED  BY <3>1, <3>2 DEF Stopped
    <2> QED  BY <1>2, <2>2, <2>3, <2>4, <2>5 DEF Books, Booked
  <1>4. Booked'
    BY <1>1, <1>2 DEF Booked, Stopped
  <1>3. Newest'
    BY <1>1 DEF Books, Newest
  <1> QED  BY <1>3, <1>4 DEF Books

LEMMA BooksAdvance ==
  ASSUME Frame, Books, NEW t \in Tasks, Advance(t), UNCHANGED fill, astray \subseteq astray'
  PROVE  Books'
  <1>0. TypeOK /\ \A o \in Placed : Kept(o)
    BY DEF Frame, Advance, Kept
  <1>1. task[t].exit = 0 /\ UNCHANGED <<orders, rows>>
    BY DEF Frame, TasksShaped, Landed, Advance
  <1>2. CASE Done(t)
    <2>1. task'[t].exit = 0 /\ \A u \in Tasks \ {t} : task'[u] = task[u]
      BY <1>0, <1>2, DoneFields
    <2> QED  BY <1>0, <1>1, <2>1, BooksSame
  <1>3. ASSUME NEW pc, NEW want, Becomes(t, pc, want, 0) PROVE Books'
    <2>1. task'[t].exit = 0 /\ \A u \in Tasks \ {t} : task'[u] = task[u]
      BY <1>0, <1>3, BecomesFields
    <2> QED  BY <1>0, <1>1, <2>1, BooksSame
  <1> QED  BY <1>2, <1>3 DEF Advance

\* A task ends: its closing order has its row, or is noted as cut.
LEMMA BooksDone ==
  ASSUME Frame, Books, NEW t \in Tasks, Done(t), UNCHANGED <<orders, position, fill>>,
         rows \subseteq rows', astray \subseteq astray',
         task[t].exit # 0 => \/ \E r \in rows' : r.entry = task[t].order /\ r.exit = task[t].exit
                             \/ <<task[t].order, "cut">> \in astray'
  PROVE  Books'
  <1>0. TypeOK
    BY DEF Frame
  <1>1. Placed' = Placed /\ \A o : Closings(o)' = Closings(o)
    BY KeptOrders DEF Frame
  <1>2. task'[t].exit = 0 /\ \A u \in Tasks \ {t} : task'[u] = task[u]
    BY <1>0, DoneFields
  <1>3. Newest'
    BY <1>1, <1>2 DEF Books, Newest
  <1>4. ASSUME NEW x \in Placed, orders[x].closes # 0
        PROVE  \/ Row(orders[x].closes, x)' # {}
               \/ <<orders[x].closes, "cut">> \in astray'
               \/ \E u \in Tasks : task'[u].exit = x
               \/ fill'[orders[x].closes] = x
                    /\ (position'[orders[x].closes] = orders'[orders[x].closes].qty
                          \/ <<orders[x].closes, "raced">> \in astray')
    <2>1. CASE Row(orders[x].closes, x) # {}
      BY <2>1 DEF Row
    <2>2. CASE <<orders[x].closes, "cut">> \in astray
      BY <2>2
    <2>3. ASSUME NEW u \in Tasks, task[u].exit = x, u # t
          PROVE  \E v \in Tasks : task'[v].exit = x
      BY <1>2, <2>3
    <2>4. CASE task[t].exit = x
      <3>1. x # 0
        BY Numbers DEF Placed
      <3>2. orders[x].closes = task[t].order
        BY <2>4, <3>1 DEF Frame, TasksShaped
      <3> QED  BY <2>4, <3>1, <3>2 DEF Row
    <2>5. CASE fill[orders[x].closes] = x
               /\ (Stopped(orders[x].closes) \/ <<orders[x].closes, "raced">> \in astray)
      BY <2>5 DEF Stopped
    <2> QED  BY <1>4, <2>1, <2>2, <2>3, <2>4, <2>5 DEF Books, Booked
  <1>5. Booked'
    BY <1>1, <1>4 DEF Booked, Stopped
  <1> QED  BY <1>3, <1>5 DEF Books

\* The answer is the task's own order, if one executed.
LEMMA BooksAnswers ==
  ASSUME Frame, Books, NEW t \in Tasks, NEW x \in Closings(task[t].order),
         Becomes(t, "record", task[t].want, x), orders[x].square = ~task[t].exits,
         task[t].exits => x = task[t].exit,
         ~task[t].exits => \A y \in Closings(task[t].order) : orders[y].square => y <= x,
         UNCHANGED <<orders, rows, position, fill, astray>>
  PROVE  Books'
  <1>0. TypeOK
    BY DEF Frame
  <1>1. Placed' = Placed /\ \A o : Closings(o)' = Closings(o)
    BY KeptOrders DEF Frame
  <1>2. /\ task'[t].exits = task[t].exits /\ task'[t].order = task[t].order /\ task'[t].exit = x
        /\ \A u \in Tasks \ {t} : task'[u] = task[u]
    BY <1>0, BecomesFields
  <1>3. task[t].exit \in {0, x}
    <2> SUFFICES ASSUME task[t].exit # 0, ~task[t].exits PROVE task[t].exit = x
      OBVIOUS
    <2> DEFINE e == task[t].exit
    <2>1. e \in Closings(task[t].order) /\ orders[e].square
      BY DEF Frame, TasksShaped, Closings
    <2>2. e <= x /\ x <= e
      BY <2>1 DEF Books, Newest
    <2>3. e \in Int /\ x \in Int
      BY <2>1, Numbers DEF Closings, Placed
    <2> QED  BY <2>2, <2>3
  <1>4. ASSUME NEW y \in Placed, orders[y].closes # 0
        PROVE  \/ Row(orders[y].closes, y) # {}
               \/ <<orders[y].closes, "cut">> \in astray
               \/ \E u \in Tasks : task'[u].exit = y
               \/ fill[orders[y].closes] = y
                    /\ (Stopped(orders[y].closes) \/ <<orders[y].closes, "raced">> \in astray)
    <2>1. ASSUME NEW u \in Tasks, task[u].exit = y
          PROVE  task'[u].exit = y
      <3>1. y # 0
        BY Numbers DEF Placed
      <3> QED  BY <1>2, <1>3, <2>1, <3>1
    <2> QED  BY <1>4, <2>1 DEF Books, Booked
  <1>5. Booked'
    BY <1>1, <1>4 DEF Booked, Row, Stopped
  <1>6. Newest'
    BY <1>1, <1>2 DEF Books, Newest
  <1> QED  BY <1>5, <1>6 DEF Books

\* The exit that finds the execution of the stop will store its row.
LEMMA BooksFinds ==
  ASSUME Frame, Books, NEW t \in Tasks, Finds(t), UNCHANGED fill
  PROVE  Books'
  <1>p. PICK p \in Placed : p = task[t].order
    BY DEF Finds, Frame, TasksShaped
  <1>0. TypeOK /\ p \in Ids /\ position \in [Ids -> Amounts]
    BY TypeFacts DEF Frame, Placed
  <1>1. Placed' = Placed /\ \A o : Closings(o)' = Closings(o)
    BY KeptOrders DEF Frame, Finds
  <1>2. /\ task'[t].exits = task[t].exits /\ task'[t].order = p /\ task'[t].exit = fill[p]
        /\ \A u \in Tasks \ {t} : task'[u] = task[u]
    BY <1>p, <1>0, BecomesFields DEF Finds
  <1>3. task[t].exit = 0 /\ task[t].exits
    BY DEF Frame, TasksShaped, Finds, Landed
  <1>4. ASSUME NEW y \in Placed, orders[y].closes # 0
        PROVE  \/ Row(orders[y].closes, y) # {}
               \/ <<orders[y].closes, "cut">> \in astray
               \/ \E u \in Tasks : task'[u].exit = y
               \/ fill[orders[y].closes] = y
                    /\ (position'[orders[y].closes] = orders[orders[y].closes].qty
                          \/ <<orders[y].closes, "raced">> \in astray)
    <2>1. y # 0 /\ orders[y].closes \in Ids
      BY <1>4, ClosedPlaced DEF Placed
    <2>2. ASSUME NEW u \in Tasks, task[u].exit = y PROVE task'[u].exit = y
      BY <1>2, <1>3, <2>1, <2>2
    <2>3. CASE fill[orders[y].closes] = y
               /\ (Stopped(orders[y].closes) \/ <<orders[y].closes, "raced">> \in astray)
      <3>1. CASE orders[y].closes = p
        BY <1>2, <2>3, <3>1
      <3>2. CASE orders[y].closes # p
        BY <1>p, <1>0, <2>1, <2>3, <3>2 DEF Stopped, Finds
      <3> QED  BY <3>1, <3>2
    <2> QED  BY <1>4, <2>2, <2>3 DEF Books, Booked
  <1>5. Booked'
    BY <1>1, <1>4 DEF Booked, Row, Stopped, Finds
  <1>6. Newest'
    BY <1>1, <1>2, <1>3 DEF Books, Newest, Finds
  <1> QED  BY <1>5, <1>6 DEF Books

LEMMA BooksRestart ==
  ASSUME Frame, Guards, Books, UNCHANGED <<orders, rows, fill>>, position' = saved,
         task' = [t \in Tasks |-> Idle], astray' = astray \cup UNION {Cut(t) : t \in Tasks}
  PROVE  Books'
  <1>1. Placed' = Placed /\ \A o : Closings(o)' = Closings(o)
    BY KeptOrders DEF Frame
  <1>2. \A t \in Tasks : task'[t].exit = 0
    BY IdleTask
  <1>3. ASSUME NEW x \in Placed, orders[x].closes # 0, <<orders[x].closes, "cut">> \notin astray'
        PROVE  \/ Row(orders[x].closes, x) # {}
               \/ fill[orders[x].closes] = x
                    /\ (saved[orders[x].closes] = orders[orders[x].closes].qty
                          \/ <<orders[x].closes, "raced">> \in astray)
    <2>1. orders[x].closes \in Ids /\ x # 0
      BY <1>3, ClosedPlaced DEF Placed
    <2>2. /\ saved[orders[x].closes] = position[orders[x].closes]
          /\ \A t \in Tasks : task[t].exit # 0 => task[t].order # orders[x].closes
      BY <1>3, <2>1, SavedBack
    <2>3. \A t \in Tasks : task[t].exit # x
      BY <2>1, <2>2 DEF Frame, TasksShaped
    <2> QED  BY <1>3, <2>2, <2>3 DEF Books, Booked, Stopped
  <1>4. Booked'
    BY <1>1, <1>3 DEF Booked, Row, Stopped
  <1>5. Newest'
    BY <1>2 DEF Newest
  <1> QED  BY <1>4, <1>5 DEF Books

LEMMA BooksPlace ==
  ASSUME Frame, Books, NEW x \in Ids, NEW r \in Order, r.qty > 0, Adds(x, r), r.closes = 0,
         UNCHANGED <<rows, task, fill, astray>>, \A o \in Placed : position'[o] = position[o]
  PROVE  Books'
  <1>1. /\ Placed' = Placed \cup {x} /\ orders'[x] = r
        /\ \A y \in Ids \ {x} : orders'[y] = orders[y]
        /\ \A o \in Ids : Closings(o)' = IF o = r.closes THEN Closings(o) \cup {x} ELSE Closings(o)
    BY AddsFacts
  <1>2. x \notin Placed
    BY DEF Adds
  <1>3. Booked'
    <2>1. ASSUME NEW y \in Placed', orders'[y].closes # 0
          PROVE  /\ y \in Placed /\ orders'[y] = orders[y] /\ orders[y].closes \in Placed
                 /\ orders'[orders[y].closes] = orders[orders[y].closes]
      <3>1. y \in Placed
        BY <1>1, <2>1
      <3>2. orders'[y] = orders[y]
        BY <1>1, <1>2, <3>1 DEF Placed
      <3>3. orders[y].closes \in Placed
        BY <2>1, <3>1, <3>2, ClosedPlaced
      <3> QED  BY <1>1, <1>2, <3>1, <3>2, <3>3 DEF Placed
    <2> QED  BY <2>1 DEF Books, Booked, Row, Stopped
  <1>4. \A t \in Tasks : task[t].exit # 0 => task[t].order \in Placed
    BY IdleTask DEF Frame, TasksShaped
  <1>5. \A t \in Tasks : task[t].exit # 0 => Closings(task[t].order)' = Closings(task[t].order)
    BY <1>1, <1>4, Numbers DEF Placed
  <1>6. Newest'
    BY <1>1, <1>2, <1>5 DEF Books, Newest, Closings, Placed
  <1> QED  BY <1>3, <1>6 DEF Books

LEMMA BooksPost ==
  ASSUME Frame, Books, Inv, NEW t \in Tasks, NEW x \in Ids, NEW r \in Order, NEW pc,
         task[t].pc = "post", task[t].exit = 0, task[t].order \in Placed,
         Adds(x, r), r.qty > 0, r.closes = task[t].order,
         r.square = ~task[t].exits, Becomes(t, pc, task[t].want, x),
         UNCHANGED <<rows, position, fill>>, astray \subseteq astray'
  PROVE  Books'
  <1>0. TypeOK
    BY DEF Frame
  <1>1. /\ Placed' = Placed \cup {x} /\ orders'[x] = r
        /\ \A y \in Ids \ {x} : orders'[y] = orders[y]
        /\ \A o \in Ids : Closings(o)' = IF o = r.closes THEN Closings(o) \cup {x} ELSE Closings(o)
    BY AddsFacts
  <1>2. x \notin Placed
    BY DEF Adds
  <1>3. /\ task'[t].exits = task[t].exits /\ task'[t].order = task[t].order /\ task'[t].exit = x
        /\ \A u \in Tasks \ {t} : task'[u] = task[u]
    BY <1>0, BecomesFields
  <1>4. Booked'
    <2>1. ASSUME NEW y \in Placed, orders[y].closes # 0
          PROVE  \/ Row(orders[y].closes, y) # {}
                 \/ <<orders[y].closes, "cut">> \in astray'
                 \/ \E u \in Tasks : task'[u].exit = y
                 \/ fill[orders[y].closes] = y
                      /\ (Stopped(orders[y].closes) \/ <<orders[y].closes, "raced">> \in astray')
      <3>1. task[t].exit # y
        BY Numbers DEF Placed
      <3>2. ASSUME NEW u \in Tasks, task[u].exit = y
            PROVE  task'[u].exit = y
        BY <1>3, <3>1, <3>2
      <3> QED  BY <2>1, <3>2 DEF Books, Booked
    <2>2. \A y \in Placed : orders'[y] = orders[y]
      BY <1>1, <1>2 DEF Placed
    <2>3. \A y \in Placed' : y \in Placed \/ task'[t].exit = y
      BY <1>1, <1>3
    <2>4. \A y \in Placed : orders[y].closes # 0 => orders[y].closes \in Placed
      BY ClosedPlaced
    <2> QED  BY <2>1, <2>2, <2>3, <2>4 DEF Booked, Row, Stopped
  <1>5. \A y \in Placed : y <= x
    <2> SUFFICES ASSUME NEW y \in Placed, ~(y <= x) PROVE FALSE
      OBVIOUS
    <2>1. y \in Ids /\ x < y
      BY Numbers DEF Placed
    <2> QED  BY <1>2, <2>1 DEF Frame, OrdersShaped
  <1>6. Newest'
    <2>1. ASSUME NEW u \in Tasks \ {t}, task[u].exit # 0, ~task[u].exits,
                 NEW y \in Placed', orders'[y].closes = task[u].order, orders'[y].square
          PROVE  y <= task[u].exit
      <3>1. task[u].order \in Placed /\ task[u].pc # "idle"
        BY <2>1, IdleTask DEF Frame, TasksShaped
      <3>2. CASE y = x
        <4>1. r.square /\ task[u].order = r.closes
          BY <1>1, <2>1, <3>2
        <4>2. u \in Squares /\ t \in Squares
          BY <2>1, <3>1, <4>1 DEF Squares
        <4> QED  BY <4>1, <4>2 DEF Inv, ClaimsHeld
      <3>3. CASE y # x
        <4>1. y \in Placed /\ y \in Ids
          BY <1>1, <3>3 DEF Placed
        <4>3. orders'[y] = orders[y]
          BY <1>1, <3>3, <4>1
        <4>2. y \in Closings(task[u].order) /\ orders[y].square
          BY <2>1, <4>1, <4>3 DEF Closings
        <4> QED  BY <2>1, <4>1, <4>2 DEF Books, Newest
      <3> QED  BY <3>2, <3>3
    <2>2. \A y \in Placed' : y <= x
      BY <1>1, <1>5, Numbers
    <2> QED  BY <1>3, <2>1, <2>2 DEF Newest, Closings
  <1> QED  BY <1>4, <1>6 DEF Books

\* The execution of a stop waits for the exit, which finds its position whole.
LEMMA BooksTrigger ==
  ASSUME Frame, Guards, Books, NEW o \in Ids, Trigger(o)
  PROVE  Books'
  <1>1. /\ o \in resting /\ o \in Placed /\ UNCHANGED <<rows, position, task>>
        /\ astray \subseteq astray'
    BY TriggerForm
  <1>2. PICK x \in Ids, r \in Order :
          /\ Adds(x, r) /\ r.qty = Lot /\ r.closes = o /\ ~r.square
          /\ fill' = [fill EXCEPT ![o] = x]
    BY TriggerForm
  <1>3. r.qty > 0
    BY <1>2, Numbers
  <1>4. /\ Placed' = Placed \cup {x} /\ orders'[x] = r /\ x \notin Placed
        /\ \A y \in Ids \ {x} : orders'[y] = orders[y]
        /\ \A p \in Ids : Closings(p)' = IF p = r.closes THEN Closings(p) \cup {x} ELSE Closings(p)
    BY <1>2, <1>3, AddsFacts DEF Adds
  <1>5. /\ fill \in [Ids -> 0 .. MaxOrders] /\ fill[o] = 0 /\ o \in Ids
    BY <1>1, TypeFacts DEF Frame, StopsShaped
  <1>6. position[o] = orders[o].qty \/ Marked(o)
    BY <1>1 DEF Guards, StopsGuarded, Guarded
  <1>7. Booked'
    <2>1. ASSUME NEW y \in Placed, orders[y].closes # 0
          PROVE  \/ Row(orders[y].closes, y)' # {}
                 \/ <<orders[y].closes, "cut">> \in astray'
                 \/ \E u \in Tasks : task'[u].exit = y
                 \/ fill'[orders[y].closes] = y
                      /\ (position'[orders[y].closes] = orders'[orders[y].closes].qty
                            \/ <<orders[y].closes, "raced">> \in astray')
      <3>1. y # 0 /\ orders[y].closes \in Placed /\ orders[y].closes \in Ids
        BY <2>1, ClosedPlaced DEF Placed
      <3>2. orders'[orders[y].closes] = orders[orders[y].closes] /\ orders'[y] = orders[y]
        BY <1>4, <3>1 DEF Placed
      <3>3. CASE fill[orders[y].closes] = y
                 /\ (Stopped(orders[y].closes) \/ <<orders[y].closes, "raced">> \in astray)
        <4>1. fill'[orders[y].closes] = y
          BY <1>2, <1>5, <3>1, <3>3
        <4> QED  BY <1>1, <3>2, <3>3, <4>1 DEF Stopped
      <3>4. Row(orders[y].closes, y)' = Row(orders[y].closes, y)
        BY <1>1, <3>2 DEF Row
      <3> QED  BY <1>1, <2>1, <3>2, <3>3, <3>4 DEF Books, Booked
    <2>2. \A y \in Placed : orders'[y] = orders[y]
      BY <1>4 DEF Placed
    <2>3. fill'[o] = x /\ orders'[o] = orders[o]
      BY <1>1, <1>2, <1>5, <2>2
    <2>4. \/ <<o, "cut">> \in astray'
          \/ position'[o] = orders'[o].qty \/ <<o, "raced">> \in astray'
      BY <1>1, <1>6, <2>3 DEF Marked
    <2> QED  BY <1>2, <1>4, <2>1, <2>2, <2>3, <2>4 DEF Booked, Stopped
  <1>8. Newest'
    <2>1. ASSUME NEW u \in Tasks, task[u].exit # 0, ~task[u].exits, NEW y \in Placed',
                 orders'[y].closes = task[u].order, orders'[y].square
          PROVE  y <= task[u].exit
      <3>1. y \in Placed /\ orders'[y] = orders[y]
        BY <1>2, <1>4, <2>1 DEF Placed
      <3> QED  BY <2>1, <3>1 DEF Books, Newest, Closings
    <2> QED  BY <1>1, <2>1 DEF Newest, Closings
  <1> QED  BY <1>7, <1>8 DEF Books

\* The units of S, which all have their row, are those that the rows count.
LEMMA RowsCount ==
  ASSUME Frame, NEW o \in Placed, NEW S \in SUBSET Closings(o),
         \A x \in S : Row(o, x) # {}, \A x \in Closings(o) \ S : Row(o, x) = {}
  PROVE  MatchedBy(o) = Cardinality(Sold(S))
  <1>1. \A x \in S : \E s \in Row(o, x) : s.qty = orders[x].qty
    BY DEF Frame, RowsTrue, Row
  <1>2. ASSUME NEW x, NEW s \in Row(o, x)
        PROVE  x \in S /\ s.qty = orders[x].qty
    <2>1. x \in Closings(o) /\ s.qty = orders[x].qty
      BY DEF Frame, RowsTrue, Row, Closings
    <2> QED  BY <1>2, <2>1
  <1>3. S \subseteq Ids
    BY DEF Closings, Placed
  <1>4. Sold(S) = {u \in Ids \X (1 .. Lot) : \E s \in Row(o, u[1]) : u[2] <= s.qty}
    BY <1>1, <1>2, <1>3 DEF Sold
  <1> QED  BY <1>4 DEF MatchedBy

\* Where nobody is closing an order, its closing orders and its rows are the same,
\* but for the stop that waits for its exit.
LEMMA BooksTell == Frame /\ Books => RowsTell
  <1> SUFFICES ASSUME Frame, Books, NEW o \in Placed, ~Busy(o), <<o, "cut">> \notin astray
               PROVE  /\ Closed(o) = MatchedBy(o) + Unbooked(o)
                      /\ Unbooked(o) = 0 \/ Stopped(o) \/ <<o, "raced">> \in astray
    BY DEF RowsTell
  <1>0. o # 0 /\ o \in Ids
    BY Numbers DEF Placed
  <1>1. ASSUME NEW x \in Closings(o)
        PROVE  \/ Row(o, x) # {}
               \/ fill[o] = x /\ (Stopped(o) \/ <<o, "raced">> \in astray)
    <2>1. x \in Placed /\ orders[x].closes = o
      BY DEF Closings
    <2>2. \A t \in Tasks : task[t].exit # x
      <3> SUFFICES ASSUME NEW t \in Tasks, task[t].exit = x PROVE FALSE
        OBVIOUS
      <3>1. x # 0
        BY <2>1, Numbers DEF Placed
      <3> QED  BY <2>1, <3>1 DEF Frame, TasksShaped, Busy
    <2> QED  BY <1>0, <2>1, <2>2 DEF Books, Booked
  <1>2. Closings(o) \subseteq Ids /\ Closed(o) = Cardinality(Sold(Closings(o)))
        /\ Closed(o) \in Nat
    <2>1. Closings(o) \subseteq Ids /\ Closed(o) = Cardinality(Sold(Closings(o)))
      BY DEF Closings, Placed, Closed, Sold
    <2> QED  BY <2>1, SoldNat
  <1>3. CASE fill[o] = 0 \/ Row(o, fill[o]) # {}
    <2>1. \A x \in Closings(o) : Row(o, x) # {}
      BY <1>1, <1>3, Numbers DEF Closings, Placed
    <2>2. MatchedBy(o) = Closed(o)
      BY <1>2, <2>1, RowsCount
    <2>3. Unbooked(o) = 0
      BY <1>3 DEF Unbooked
    <2> QED  BY <1>2, <2>2, <2>3
  <1>4. CASE fill[o] # 0 /\ Row(o, fill[o]) = {}
    <2> DEFINE x == fill[o]
               S == Closings(o) \ {x}
    <2>1. x \in Closings(o) /\ x \in Ids
      BY <1>0, <1>2, <1>4 DEF Frame, StopsShaped, Closings
    <2>2. Stopped(o) \/ <<o, "raced">> \in astray
      BY <1>1, <1>4, <2>1
    <2>3. S \subseteq Ids /\ S \subseteq Closings(o) /\ x \in Ids \ S /\ Closings(o) = S \cup {x}
      BY <1>2, <2>1
    <2>4. \A y \in S : Row(o, y) # {}
      BY <1>1
    <2>5. \A y \in Closings(o) \ S : Row(o, y) = {}
      BY <1>4
    <2>6. orders[x].qty \in 0 .. Lot
      BY <2>1, TypeFacts DEF Frame, Order, Amounts
    <2>7. Unbooked(o) = orders[x].qty
      BY <1>4 DEF Unbooked
    <2> HIDE DEF S, x
    <2>8. MatchedBy(o) = Cardinality(Sold(S))
      BY <2>3, <2>4, <2>5, RowsCount
    <2>9. Cardinality(Sold(S \cup {x})) = Cardinality(Sold(S)) + orders[x].qty
      BY <2>3, <2>6, SoldMore
    <2> QED  BY <1>2, <2>2, <2>3, <2>7, <2>8, <2>9
  <1> QED  BY <1>3, <1>4

-------------------------------------------------------------------------------
(* Every step                                                                  *)

\* What happened to an order out of line is never forgotten.
LEMMA CutTypes ==
  ASSUME Frame, NEW t \in Tasks
  PROVE  Cut(t) \subseteq Ids \X Reasons
  <1>1. task[t].exit # 0 => task[t].order \in Ids /\ task[t].exit \in Ids
    BY IdleTask DEF Frame, TasksShaped, Placed
  <1> QED  BY <1>1 DEF Cut, Reasons

\* A row of a position that is written is one the position may have.
LEMMA MemorizedMatch ==
  ASSUME Frame, Rest', NEW t \in Tasks, Match(t)
  PROVE  Memorized
  <1>p. PICK o \in Placed : o = task[t].order
    BY MatchForm DEF Frame, TasksShaped
  <1>e. PICK e \in Placed : e = task[t].exit
    BY MatchForm DEF Frame, TasksShaped, Landed
  <1> DEFINE q == orders[e].qty
  <1>1. /\ UNCHANGED <<orders, astray, resting, fill>>
        /\ saved' = IF task[t].exits THEN [saved EXCEPT ![o] = position[o]] ELSE saved
    BY <1>p, MatchForm DEF Match, exchange
  <1>2. PICK known \in Nat :
          /\ known <= orders[o].qty
          /\ tracked' = [tracked EXCEPT ![o] = IF known > q THEN known - q ELSE 0, ![e] = 0]
    BY <1>p, <1>e, MatchForm
  <1>0. /\ TypeOK /\ o \in Ids /\ e \in Ids /\ tracked \in [Ids -> Amounts]
        /\ position \in [Ids -> Amounts] /\ saved \in [Ids -> Amounts]
        /\ astray \subseteq Ids \X Reasons
    BY TypeFacts DEF Frame, Placed, TypeOK
  <1>3. orders[o].qty \in Nat /\ orders[o].qty <= Lot /\ q \in Nat /\ Lot \in Nat
    <2>1. orders[e] \in Order /\ orders[o] \in Order
      BY <1>0, TypeFacts
    <2> QED  BY <2>1, Numbers DEF Order
  <1> DEFINE left == IF known > q THEN known - q ELSE 0
  <1>5. left \in Nat /\ left <= orders[o].qty /\ left <= Lot
    <2> DEFINE most == orders[o].qty
    <2>1. known <= most /\ most \in Nat /\ most <= Lot /\ q \in Nat /\ Lot \in Nat
      BY <1>2, <1>3
    <2> HIDE DEF most, q
    <2>2. left \in Nat /\ left <= known
      BY <2>1
    <2> HIDE DEF left
    <2>3. left <= most /\ left <= Lot
      BY <2>1, <2>2
    <2> QED  BY <2>2, <2>3 DEF most
  <1> HIDE DEF left, q
  <1>6. left \in Amounts /\ 0 \in Amounts
    BY <1>5, Numbers
  <1>7. tracked' \in [Ids -> Amounts]
    BY <1>0, <1>2, <1>6 DEF left
  <1>8. \A p \in Ids : /\ orders[p].qty \in Nat /\ tracked[p] <= orders[p].qty
                       /\ position[p] <= orders[p].qty /\ saved[p] <= orders[p].qty
                       /\ position[p] > 0 => orders[p].closes = 0
                       /\ saved[p] > 0 => orders[p].closes = 0
    BY TypeFacts, Numbers DEF Order, Frame, Bounded
  <1>9. \A p \in Ids : tracked'[p] <= orders[p].qty
    BY <1>0, <1>2, <1>5, <1>8 DEF left
  <1>10. \A p \in Ids : saved'[p] \in {saved[p], position[p]}
    BY <1>0, <1>1
  <1> QED  BY <1>0, <1>1, <1>7, <1>8, <1>9, <1>10 DEF Memorized

LEMMA MemorizedCancel ==
  ASSUME Frame, Rest', NEW t \in Tasks, Cancel(t)
  PROVE  Memorized
  <1>1. /\ resting' \subseteq resting /\ UNCHANGED <<fill, saved, tracked, orders>>
        /\ astray' \subseteq Ids \X Reasons
    BY AdvanceForm DEF Cancel, memory
  <1> QED  BY <1>1 DEF Memorized, Frame, TypeOK, Bounded

\* The position of an exit loses what it sold, or all to its stop.
LEMMA RecordTypes ==
  ASSUME Frame, NEW t \in Tasks, Record(t) \/ Finds(t)
  PROVE  /\ position' \in [Ids -> Amounts] /\ \A p \in Ids : position'[p] <= position[p]
         /\ \A p \in Ids : position'[p] = position[p] \/ (task[t].exits /\ p = task[t].order)
         /\ (IF task[t].exits THEN position[task[t].order] ELSE orders[task[t].order].qty)
              \in Amounts
         /\ (IF task[t].exits THEN position[task[t].order] ELSE orders[task[t].order].qty)
              <= orders[task[t].order].qty
  <1> DEFINE o == task[t].order
             want == IF task[t].exits THEN position[o] ELSE orders[o].qty
             q == orders[task[t].exit].qty
  <1>0. TypeOK /\ o \in Placed /\ o \in Ids /\ position \in [Ids -> Amounts] /\ orders[o] \in Order
    BY TypeFacts DEF Frame, TasksShaped, Record, Finds, Placed
  <1>1. \A p \in Ids : position[p] \in Nat /\ position[p] <= Lot /\ Lot \in Nat
    BY <1>0, Numbers
  <1>2. want \in Amounts /\ want <= orders[o].qty
    <2>1. orders[o].qty \in Amounts /\ orders[o].qty \in Nat
      BY <1>0, Numbers DEF Order
    <2> QED  BY <1>0, <2>1 DEF Frame, Bounded
  <1>3. CASE Finds(t)
    <2>1. position' = [position EXCEPT ![o] = 0] /\ task[t].exits
      BY <1>3 DEF Finds, Frame, TasksShaped
    <2>2. 0 \in Amounts /\ \A p \in Ids : 0 <= position[p] /\ position[p] <= position[p]
      BY <1>1, Numbers
    <2> HIDE DEF want
    <2> QED  BY <1>0, <1>2, <2>1, <2>2 DEF want
  <1>4. CASE Record(t)
    <2>1. /\ task[t].exits => /\ q <= position[o]
                              /\ position' = [position EXCEPT ![o] = @ - q]
          /\ ~task[t].exits => position' = position
      BY <1>4, RecordForm
    <2>2. q \in Nat
      <3>1. task[t].exit \in Ids
        BY <1>4 DEF Record, Frame, TasksShaped, Landed, Placed
      <3>2. orders[task[t].exit] \in Order
        BY <3>1, TypeFacts DEF Frame
      <3> QED  BY <3>2, Numbers DEF Order
    <2> DEFINE left == position[o] - q
    <2>3. task[t].exits => left \in Amounts /\ left <= position[o]
      <3>1. /\ position[o] \in Nat /\ position[o] <= Lot /\ Lot \in Nat /\ q \in Nat
            /\ task[t].exits => q <= position[o]
        BY <1>0, <1>1, <2>1, <2>2
      <3> HIDE DEF q
      <3> QED  BY <3>1, Numbers
    <2>4. task[t].exits => position' = [position EXCEPT ![o] = left]
      BY <2>1
    <2>5. \A p \in Ids : position[p] <= position[p]
      BY <1>1
    <2> HIDE DEF left, want
    <2>6. position' \in [Ids -> Amounts] /\ \A p \in Ids : position'[p] <= position[p]
      BY <1>0, <2>1, <2>3, <2>4, <2>5
    <2>7. \A p \in Ids : position'[p] = position[p] \/ (task[t].exits /\ p = o)
      BY <1>0, <2>1, <2>4
    <2> QED  BY <1>2, <2>6, <2>7 DEF want
  <1> QED  BY <1>3, <1>4

\* A step that only goes on touches no stop.
LEMMA QuietStays ==
  ASSUME NEW t \in Tasks, Step(t), Matches(t) \/ Fails(t) \/ Balance(t) \/ PostLost(t) \/ Passes(t)
  PROVE  Stays
  <1>1. CASE Matches(t) \/ Fails(t) \/ Balance(t) \/ PostLost(t)
    BY <1>1 DEF Matches, Fails, Balance, PostLost, exchange, Stays
  <1>2. CASE Passes(t)
    <2>1. ~Post(t) /\ ~Cancel(t) /\ ~Match(t)
      BY <1>2 DEF Passes, Post, Cancel, Match
    <2> QED  BY <2>1, StepStays
  <1> QED  BY <1>1, <1>2

LEMMA FrameRuns ==
  ASSUME Frame, [Next]_vars, NEW t \in Tasks, Step(t)
  PROVE  Frame'
  <1>0. TypeOK /\ Rest'
    BY RestTypes DEF Frame
  <1>1. ASSUME Stays, UNCHANGED <<tracked, astray>> PROVE Memorized
    BY <1>0, <1>1, Memorizes DEF TypeOK, Frame, Bounded
  <1>2. CASE Query(t)
    <2>1. Advance(t) /\ Reads(task[t].order) /\ task[t].order \in Placed
      BY <1>2, QueryForm
    <2>2. Stays
      BY <1>2 DEF Query, exchange, Stays
    <2>3. Memorized
      BY <1>0, <2>1, <2>2, NotedFacts, ReadsTypes, Memorizes DEF Reads
    <2> QED  BY <2>1, <2>3, FrameAdvance
  <1>3. CASE Matches(t) \/ Fails(t) \/ Balance(t) \/ PostLost(t) \/ Passes(t)
    <2>1. /\ Advance(t) /\ UNCHANGED tracked /\ astray' \subseteq Ids \X Reasons
      BY <1>3, AdvanceForm
    <2>2. Stays
      BY <1>3, QuietStays
    <2>3. Memorized
      BY <1>0, <2>1, <2>2, Memorizes DEF TypeOK, Frame, Bounded
    <2> QED  BY <2>1, <2>3, FrameAdvance
  <1>10. CASE Cancel(t)
    BY <1>0, <1>10, AdvanceForm, MemorizedCancel, FrameAdvance
  <1>4. CASE Post(t)
    <2>1. /\ task[t].pc = "post" /\ task[t].exit = 0 /\ task[t].order \in Placed
          /\ UNCHANGED <<rows, tracked, position>> /\ Stays
          /\ astray' = astray \cup Shared(task[t].order, ~task[t].exits)
      BY <1>4, PostForm
    <2>2. PICK x \in Ids, r \in Order, pc \in {"record", "unknown"} :
            /\ Adds(x, r) /\ r.qty > 0 /\ r.qty <= task[t].want
            /\ r.closes = task[t].order /\ r.square = ~task[t].exits
            /\ Becomes(t, pc, task[t].want, x)
      BY <1>4, PostForm
    <2>3. astray' \subseteq Ids \X Reasons
      BY <1>0, <2>1 DEF Shared, Reasons, Placed, TypeOK
    <2> QED  BY <1>0, <2>1, <2>2, <2>3, FramePost
  <1>5. CASE Reconcile(t)
    <2>1. task[t].pc = "unknown" /\ UNCHANGED <<orders, rows, tracked, position>> /\ Stays
      BY <1>5, ReconcileForm DEF Reconcile, exchange, Stays
    <2>2. CASE Done(t) /\ astray' = astray \cup Cut(t)
      <3>1. Memorized
        BY <1>0, <2>1, <2>2, CutTypes, Memorizes DEF TypeOK, Frame, Bounded
      <3> QED  BY <2>1, <2>2, <3>1, KeptRows, FrameDone
    <2>3. ASSUME UNCHANGED astray, NEW x \in Closings(task[t].order),
                 Becomes(t, "record", task[t].want, x), orders[x].square = ~task[t].exits,
                 task[t].exits => x = task[t].exit
          PROVE  Frame'
      <3>1. x \in Placed /\ orders[x].closes = task[t].order
        BY DEF Closings
      <3> QED  BY <1>1, <2>1, <2>3, <3>1, FrameAnswers
    <2> QED  BY <1>5, <2>2, <2>3, ReconcileForm
  <1>6. CASE Record(t)
    <2> DEFINE o == task[t].order
               want == IF task[t].exits THEN position[o] ELSE orders[o].qty
    <2>1. /\ task[t].pc = "record" /\ UNCHANGED <<orders, rows, astray>> /\ Stays
          /\ tracked' = Noted(task[t].exit) /\ Becomes(t, "match", want, task[t].exit)
      BY <1>6, RecordForm DEF Record, exchange, Stays
    <2>2. /\ task[t].exit \in Placed /\ orders[task[t].exit].closes = o
          /\ orders[task[t].exit].square = ~task[t].exits
      BY <2>1 DEF Frame, TasksShaped, Landed
    <2>3. Memorized
      BY <1>0, <2>1, <2>2, NotedFacts, Memorizes DEF TypeOK
    <2>4. want \in Amounts /\ want <= orders[o].qty
      BY <1>6, RecordTypes
    <2>5. /\ position' \in [Ids -> Amounts] /\ \A p \in Ids : position'[p] <= position[p]
          /\ \A p \in Ids : position'[p] = position[p] \/ (task[t].exits /\ p = o)
      BY <1>6, RecordTypes
    <2> HIDE DEF want
    <2> QED  BY <2>1, <2>2, <2>3, <2>4, <2>5, FrameRecord
  <1>7. CASE Match(t)
    BY <1>0, <1>7, MatchForm, MemorizedMatch, FrameMatch
  <1>11. CASE Finds(t)
    <2> DEFINE o == task[t].order
               want == position[o]
    <2>1. /\ task[t].pc = "look" /\ fill[o] # 0 /\ UNCHANGED <<orders, rows, astray>>
          /\ tracked' = Noted(fill[o]) /\ Becomes(t, "match", want, fill[o])
      BY <1>11 DEF Finds
    <2>2. o \in Ids /\ task[t].exits
      BY <2>1 DEF Frame, TasksShaped, Placed
    <2>3. fill[o] \in Placed /\ orders[fill[o]].closes = o /\ orders[fill[o]].square = FALSE
      <3>1. fill[o] \in Placed /\ orders[fill[o]].closes = o /\ ~orders[fill[o]].square
        BY <2>1, <2>2 DEF Frame, StopsShaped
      <3>2. orders[fill[o]].square \in BOOLEAN
        BY <1>0, <3>1, TypeFacts DEF Placed, Order
      <3> QED  BY <3>1, <3>2
    <2>4. Stays
      <3>1. ~Post(t) /\ ~Cancel(t) /\ ~Match(t)
        BY <2>1 DEF Post, Cancel, Match
      <3> QED  BY <3>1, StepStays
    <2>5. Memorized
      BY <1>0, <2>1, <2>3, <2>4, NotedFacts, Memorizes DEF TypeOK
    <2>6. want \in Amounts /\ want <= orders[o].qty
      BY <1>11, <2>2, RecordTypes
    <2>7. /\ position' \in [Ids -> Amounts] /\ \A p \in Ids : position'[p] <= position[p]
          /\ \A p \in Ids : position'[p] = position[p] \/ (task[t].exits /\ p = o)
      BY <1>11, RecordTypes
    <2>8. task[t].exits = TRUE
      BY <1>0, <2>2, TypeFacts DEF Task
    <2> HIDE DEF want
    <2> QED  BY <2>1, <2>3, <2>5, <2>6, <2>7, <2>8, FrameRecord
  <1>8. CASE Store(t)
    <2>1. UNCHANGED <<tracked, astray>> /\ Stays
      BY <1>8 DEF Store, exchange, Stays
    <2> QED  BY <1>1, <1>8, <2>1, FrameStore
  <1>9. CASE WriteFails(t)
    <2>1. /\ Done(t) /\ UNCHANGED <<orders, rows, tracked, position>>
          /\ astray' = astray \cup Cut(t) /\ Stays
      BY <1>0, <1>9, EndForm DEF WriteFails, exchange, Stays
    <2>2. Memorized
      BY <1>0, <2>1, CutTypes, Memorizes DEF TypeOK, Frame, Bounded
    <2> QED  BY <2>1, <2>2, KeptRows, FrameDone
  <1>12. CASE Look(t)
    BY <1>3, <1>11, <1>12, LookForm
  <1> QED  BY <1>2, <1>3, <1>4, <1>5, <1>6, <1>7, <1>8, <1>9, <1>10, <1>12 DEF Step

LEMMA FrameStep == Frame /\ [Next]_vars => Frame'
  <1> SUFFICES ASSUME Frame, [Next]_vars PROVE Frame'
    OBVIOUS
  <1>0. TypeOK /\ Rest'
    BY RestTypes DEF Frame
  <1>1. ASSUME Stays, UNCHANGED <<tracked, astray>> PROVE Memorized
    BY <1>0, <1>1, Memorizes DEF TypeOK, Frame, Bounded
  <1>2. ASSUME NEW side \in Sides, NEW entry \in BOOLEAN, Place(side, entry)
        PROVE  Frame'
    BY <1>0, <1>2, FramePlace
  <1>7. ASSUME NEW o \in Ids, Trigger(o)
        PROVE  Frame'
    BY <1>0, <1>7, FrameTrigger
  <1>3. ASSUME NEW o \in Ids, QueryOrder(o)
        PROVE  Frame'
    <2>1. o \in Placed /\ Reads(o) /\ UNCHANGED <<orders, rows, position, task>> /\ Stays
      BY <1>3 DEF QueryOrder, Reads, exchange, Stays
    <2>2. Memorized
      BY <1>0, <2>1, NotedFacts, ReadsTypes, Memorizes DEF Reads
    <2> QED  BY <2>1, <2>2, FrameSame
  <1>4. ASSUME NEW t \in Tasks, NEW o \in Ids, Claim(t, o) \/ StartExit(t, o)
        PROVE  Frame'
    BY <1>1, <1>4, BeginForm, FrameBegins
  <1>5. CASE Restart
    <2>1. /\ UNCHANGED <<orders, rows>> /\ tracked' = [o \in Ids |-> 0] /\ position' = saved /\ Stays
          /\ task' = [t \in Tasks |-> Idle] /\ astray' = astray \cup UNION {Cut(t) : t \in Tasks}
      BY <1>5 DEF Restart, exchange, Stays
    <2>2. astray' \subseteq Ids \X Reasons
      BY <1>0, <2>1, CutTypes DEF TypeOK
    <2>3. \A o \in Ids : 0 \in Amounts /\ 0 <= orders[o].qty
      BY <1>0, TypeFacts, Numbers DEF Order
    <2>4. Memorized
      BY <1>0, <2>1, <2>2, <2>3, Memorizes
    <2> QED  BY <2>1, <2>4, FrameRestart
  <1>6. CASE UNCHANGED vars
    BY <1>1, <1>6, FrameSame DEF vars, exchange, memory, Stays
  <1> QED  BY <1>2, <1>3, <1>4, <1>5, <1>6, <1>7, FrameRuns DEF Next

LEMMA GuardsStep == Frame /\ Guards /\ [Next]_vars => Guards'
  <1> SUFFICES ASSUME Frame, Guards, [Next]_vars PROVE Guards'
    OBVIOUS
  <1>0. TypeOK
    BY DEF Frame
  <1>1. ASSUME NEW t \in Tasks, Step(t) PROVE Guards'
    <2>1. CASE Query(t)
      <3>1. Advance(t) /\ ~task[t].exits /\ astray \subseteq astray'
        BY <2>1, QueryForm DEF Reads
      <3>2. UNCHANGED <<resting, fill, saved>>
        BY <2>1 DEF Query, exchange
      <3> QED  BY <3>1, <3>2, GuardsAdvance
    <2>2. CASE Matches(t) \/ Fails(t) \/ Balance(t) \/ PostLost(t) \/ Passes(t)
      <3>1. Advance(t) /\ astray \subseteq astray'
        BY <2>2, AdvanceForm
      <3>2. Passes(t) \/ task[t].pc \notin {"look", "cancel"} \/ Done(t)
        BY <1>0, <2>2, EndForm DEF Matches, Fails, Balance, PostLost
      <3>3. Stays
        BY <1>1, <2>2, QuietStays
      <3> QED  BY <3>1, <3>2, <3>3, GuardsAdvance DEF Stays
    <2>3. CASE Cancel(t)
      <3>1. /\ Advance(t) /\ astray \subseteq astray' /\ UNCHANGED <<fill, saved>>
            /\ resting' \subseteq resting
        BY <2>3, AdvanceForm DEF Cancel
      <3> QED  BY <2>3, <3>1, GuardsAdvance
    <2>4. CASE Look(t)
      <3>1. CASE Finds(t)
        <4>1. Stays
          <5>1. ~Post(t) /\ ~Cancel(t) /\ ~Match(t)
            BY <3>1 DEF Finds, Post, Cancel, Match
          <5> QED  BY <1>1, <5>1, StepStays
        <4>2. /\ task[t].pc = "look" /\ fill[task[t].order] # 0 /\ UNCHANGED <<orders, astray>>
              /\ Becomes(t, "match", position[task[t].order], fill[task[t].order])
              /\ position'[task[t].order] = 0
          BY <3>1, TypeFacts DEF Finds, Frame, TasksShaped, Placed
        <4> QED  BY <3>1, <4>1, <4>2, RecordTypes, GuardsTakes
      <3> QED  BY <2>2, <2>4, <3>1, LookForm
    <2>5. CASE Post(t)
      BY <2>5, GuardsPost
    <2>6. CASE Reconcile(t)
      <3>1. task[t].pc = "unknown" /\ UNCHANGED <<orders, position>> /\ Stays
        BY <2>6, ReconcileForm DEF Reconcile, exchange, Stays
      <3>2. CASE Done(t) /\ astray' = astray \cup Cut(t)
        BY <3>1, <3>2, GuardsDone
      <3>3. CASE UNCHANGED astray /\ \E x : Becomes(t, "record", task[t].want, x)
        BY <3>1, <3>3, GuardsAnswers
      <3> QED  BY <2>6, <3>2, <3>3, ReconcileForm
    <2>7. CASE Record(t)
      <3>1. Stays /\ UNCHANGED <<orders, astray>> /\ task[t].pc = "record"
        BY <2>7 DEF Record, exchange, Stays
      <3>2. \E want, x : Becomes(t, "match", want, x)
        BY <2>7, RecordForm
      <3> QED  BY <2>7, <3>1, <3>2, RecordTypes, GuardsTakes
    <2>8. CASE Match(t)
      <3>1. UNCHANGED <<resting, fill>>
        BY <2>8 DEF Match, exchange
      <3> QED  BY <2>8, <3>1, MatchForm, GuardsMatch
    <2>9. CASE Store(t)
      <3>1. Done(t) /\ UNCHANGED <<orders, position, astray>> /\ task[t].pc = "row" /\ Stays
        BY <1>0, <2>9, EndForm DEF Store, exchange, Stays
      <3> QED  BY <3>1, GuardsDone
    <2>10. CASE WriteFails(t)
      <3>1. /\ Done(t) /\ UNCHANGED <<orders, position>> /\ astray' = astray \cup Cut(t) /\ Stays
        BY <1>0, <2>10, EndForm DEF WriteFails, exchange, Stays
      <3>2. task[t].pc = "match" => task[t].exit # 0
        BY DEF Frame, TasksShaped, Landed
      <3> QED  BY <3>1, <3>2, GuardsDone DEF Cut
    <2> QED  BY <1>1, <2>1, <2>2, <2>3, <2>4, <2>5, <2>6, <2>7, <2>8, <2>9, <2>10 DEF Step
  <1>2. ASSUME NEW t \in Tasks, NEW o \in Ids, Claim(t, o) \/ StartExit(t, o)
        PROVE  Guards'
    <2>1. PICK exits \in BOOLEAN, pc \in {"query", "look", "balance"}, want \in Amounts :
            /\ exits <=> pc # "query"
            /\ Begin(t, o, pc, exits, want) /\ o \in Placed /\ task[t].pc = "idle"
            /\ UNCHANGED <<orders, rows, position, tracked, astray>> /\ Stays
            /\ pc = "look" => Stopped(o)
            /\ pc = "balance" => ~Stopped(o) /\ want > 0
            /\ exits => position[o] = want
      BY <1>2, BeginForm
    <2> QED  BY <2>1, GuardsBegins
  <1>3. CASE \E side \in Sides, entry \in BOOLEAN : Place(side, entry)
    BY <1>3, GuardsPlace
  <1>4. ASSUME NEW o \in Ids, QueryOrder(o) \/ Trigger(o) PROVE Guards'
    BY <1>4, GuardsSame, GuardsTrigger DEF QueryOrder, exchange
  <1>5. CASE Restart
    BY <1>5, GuardsRestart DEF Restart, exchange, Stays
  <1>6. CASE UNCHANGED vars
    BY <1>6, GuardsSame DEF vars, exchange, memory
  <1> QED  BY <1>1, <1>2, <1>3, <1>4, <1>5, <1>6 DEF Next

\* An exit that books its sale is not past a stop that executed.
LEMMA RecordKeeps ==
  ASSUME Frame, Guards, NEW t \in Tasks, Record(t), NEW o \in Placed
  PROVE  Kept(o)
  <1>1. CASE task[t].exits /\ o = task[t].order /\ fill[o] # 0
    <2>1. Past(t, o) /\ ~Clear(t, o)
      BY <1>1, RecordForm DEF Past, Clear
    <2> QED  BY <2>1 DEF Guards, StopsGuarded, Guarded, Kept
  <1> QED  BY <1>1, RecordTypes DEF Kept, Placed

LEMMA BooksStep == Inv /\ Frame /\ Guards /\ Books /\ [Next]_vars => Books'
  <1> SUFFICES ASSUME Inv, Frame, Guards, Books, [Next]_vars PROVE Books'
    OBVIOUS
  <1>0. TypeOK
    BY DEF Frame
  <1>1. ASSUME NEW side \in Sides, NEW entry \in BOOLEAN, Place(side, entry)
        PROVE  Books'
    <2>1. PICK x \in Ids, r \in Order :
            /\ Adds(x, r) /\ r.qty = Lot /\ r.closes = 0 /\ UNCHANGED <<fill, rows, task, astray>>
            /\ \/ position' = [position EXCEPT ![x] = Lot]
               \/ UNCHANGED position
      BY <1>1, PlaceForm
    <2>2. r.qty > 0
      BY <2>1, Numbers
    <2>3. \A o \in Placed : position'[o] = position[o]
      BY <1>0, <2>1, TypeFacts DEF Adds, Placed
    <2> QED  BY <2>1, <2>2, <2>3, BooksPlace
  <1>2. ASSUME UNCHANGED <<orders, rows, position, fill, task>>, astray \subseteq astray'
        PROVE  Books'
    BY <1>2, BooksSame DEF Kept
  <1>3. ASSUME NEW t \in Tasks, Step(t) PROVE Books'
    <2>1. CASE Query(t)
      <3>1. UNCHANGED fill
        BY <2>1 DEF Query, exchange
      <3> QED  BY <2>1, <3>1, QueryForm, BooksAdvance DEF Reads
    <2>2. CASE Matches(t) \/ Fails(t) \/ Balance(t) \/ PostLost(t) \/ Passes(t)
      BY <1>3, <2>2, QuietStays, AdvanceForm, BooksAdvance DEF Stays
    <2>8. CASE Cancel(t)
      <3>1. UNCHANGED fill
        BY <2>8 DEF Cancel
      <3> QED  BY <2>8, <3>1, AdvanceForm, BooksAdvance
    <2>9. CASE Look(t)
      <3>1. UNCHANGED fill
        BY <2>9 DEF Look, exchange
      <3> QED  BY <2>2, <2>9, <3>1, LookForm, BooksFinds
    <2>3. CASE Post(t)
      BY <2>3, PostForm, BooksPost DEF Stays
    <2>4. CASE Reconcile(t)
      <3>1. UNCHANGED <<orders, rows, position, fill>>
        BY <2>4, ReconcileForm DEF Reconcile, exchange
      <3>2. CASE Done(t) /\ astray' = astray \cup Cut(t)
        BY <3>1, <3>2, BooksDone DEF Cut
      <3>3. CASE /\ UNCHANGED astray
                 /\ \E x \in Closings(task[t].order) :
                      /\ Becomes(t, "record", task[t].want, x)
                      /\ orders[x].square = ~task[t].exits
                      /\ task[t].exits => x = task[t].exit
                      /\ ~task[t].exits =>
                           \A y \in Closings(task[t].order) : orders[y].square => y <= x
        BY <3>1, <3>3, BooksAnswers
      <3> QED  BY <2>4, <3>2, <3>3, ReconcileForm
    <2>5. CASE Record(t) \/ Match(t)
      <3>1. /\ UNCHANGED <<orders, rows, fill, astray>>
            /\ \E pc, want : Becomes(t, pc, want, task[t].exit)
        BY <2>5, RecordForm, MatchForm DEF Record, Match, exchange
      <3>3. \A o \in Placed : Kept(o)
        BY <2>5, RecordKeeps, MatchForm DEF Kept
      <3>2. /\ task'[t].exits = task[t].exits /\ task'[t].order = task[t].order
            /\ task'[t].exit = task[t].exit /\ \A u \in Tasks \ {t} : task'[u] = task[u]
        BY <1>0, <3>1, BecomesFields
      <3> QED  BY <3>1, <3>2, <3>3, BooksSame
    <2>6. CASE Store(t)
      <3> DEFINE row == [entry |-> task[t].order, exit |-> task[t].exit,
                         qty |-> orders[task[t].exit].qty]
      <3>1. /\ Done(t) /\ UNCHANGED <<orders, position, fill, astray>>
            /\ rows' = IF Row(row.entry, row.exit) # {} THEN rows ELSE rows \cup {row}
        BY <1>0, <2>6, EndForm DEF Store, exchange
      <3>2. row.entry = task[t].order /\ row.exit = task[t].exit
        OBVIOUS
      <3> HIDE DEF row
      <3>3. \E r \in rows' : r.entry = task[t].order /\ r.exit = task[t].exit
        BY <3>1, <3>2 DEF Row
      <3>4. rows \subseteq rows' /\ astray \subseteq astray'
        BY <3>1
      <3> QED  BY <3>1, <3>3, <3>4, BooksDone
    <2>7. CASE WriteFails(t)
      <3>1. /\ Done(t) /\ UNCHANGED <<orders, rows, position, fill>>
            /\ astray' = astray \cup Cut(t)
        BY <1>0, <2>7, EndForm DEF WriteFails, exchange
      <3> QED  BY <3>1, BooksDone DEF Cut
    <2> QED  BY <1>3, <2>1, <2>2, <2>3, <2>4, <2>5, <2>6, <2>7, <2>8, <2>9 DEF Step
  <1>4. ASSUME NEW t \in Tasks, NEW o \in Ids, Claim(t, o) \/ StartExit(t, o)
        PROVE  Books'
    <2>1. PICK pc, exits, want : Begin(t, o, pc, exits, want)
      BY <1>4, BeginForm
    <2>2. UNCHANGED <<orders, rows, position, fill, astray>> /\ task[t].pc = "idle"
      BY <1>4, BeginForm DEF Stays
    <2>3. Doing(pc, exits, o, want).exit = 0
      BY DEF Doing
    <2>4. task'[t].exit = 0 /\ \A u \in Tasks \ {t} : task'[u] = task[u]
      BY <1>0, <2>1, <2>3, TypeFacts DEF Begin
    <2>5. task[t].exit = 0
      BY <2>2, IdleTask DEF Frame, TasksShaped
    <2> QED  BY <2>2, <2>4, <2>5, BooksSame DEF Kept
  <1>5. CASE Restart
    BY <1>5, BooksRestart DEF Restart, exchange
  <1>6. CASE UNCHANGED vars
    BY <1>2, <1>6 DEF vars, exchange, memory
  <1>7. ASSUME NEW o \in Ids, QueryOrder(o) PROVE Books'
    BY <1>2, <1>7 DEF QueryOrder, exchange
  <1>8. ASSUME NEW o \in Ids, Trigger(o) PROVE Books'
    BY <1>8, BooksTrigger
  <1> QED  BY <1>1, <1>3, <1>4, <1>5, <1>6, <1>7, <1>8 DEF Next

LEMMA FrameInit == Init => Frame /\ Guards /\ Books
  <1> SUFFICES ASSUME Init PROVE Frame /\ Guards /\ Books
    OBVIOUS
  <1>1. /\ orders = [o \in Ids |-> Nobody] /\ rows = {} /\ tracked = [o \in Ids |-> 0]
        /\ position = [o \in Ids |-> 0] /\ task = [t \in Tasks |-> Idle] /\ astray = {}
        /\ base = Spare /\ quote = Funds /\ squaring = {} /\ faults = 0
        /\ resting = {} /\ fill = [o \in Ids |-> 0] /\ saved = [o \in Ids |-> 0]
    BY DEF Init
  <1>2. TypeOK
    <2>1. 0 \in Amounts /\ 0 \in 0 .. MaxFaults /\ 0 \in 0 .. MaxOrders
      BY Numbers
    <2>2. orders \in [Ids -> Order] /\ task \in [Tasks -> Task]
      BY <1>1, NobodyOrder, IdleTask
    <2> QED  BY <1>1, <2>1, <2>2, Numbers DEF TypeOK, Order, Task, Pc
  <1>3. Placed = {}
    BY <1>1 DEF Placed
  <1>4. \A t \in Tasks : task[t] = Idle
    BY <1>1
  <1>5. OrdersShaped /\ TasksShaped /\ ExitsOnce /\ RowsTrue
    BY <1>1, <1>3, <1>4, IdleTask DEF OrdersShaped, TasksShaped, ExitsOnce, RowsTrue, Landed
  <1>6. Bounded
    BY <1>1, <1>4, IdleTask, NobodyOrder DEF Bounded
  <1>7. Books
    BY <1>3, <1>4, IdleTask DEF Books, Booked, Newest
  <1>8. StopsShaped
    BY <1>1 DEF StopsShaped
  <1>9. Guards
    BY <1>1, <1>3, <1>4, IdleTask DEF Guards, StopsGuarded, Looks, SavedTells
  <1> QED  BY <1>2, <1>5, <1>6, <1>7, <1>8, <1>9 DEF Frame

\* The variables keep their types: no balance goes below zero, and no order is
\* tracked, wanted or open for more than a lot.
THEOREM Types == Spec => []TypeOK
<1>1. Frame => TypeOK
  BY DEF Frame
<1> QED
  BY FrameInit, FrameStep, <1>1, PTL DEF Spec

\* What the table says was matched of an order is what the exchange closed of it,
\* for every order nobody is closing and no crash cut off from its row; the execution
\* of a stop gets its row from the exit that finds it, and the position keeps the id
\* to find it by unless an exit raced the stop.
THEOREM RowsAgree == Spec => []RowsTell
<1>1. Init => Inv /\ Frame /\ Guards /\ Books
  BY Initial, FrameInit
<1>2. Inv /\ Frame /\ Guards /\ Books /\ [Next]_vars => (Inv /\ Frame /\ Guards /\ Books)'
  BY Preserved, FrameStep, GuardsStep, BooksStep
<1> QED
  BY BooksTell, <1>1, <1>2, PTL DEF Spec

-------------------------------------------------------------------------------
(* How much of an order is closed, open and tracked                            *)

LEMMA ExitCloses ==
  ASSUME Frame, NEW t \in Tasks, task[t].exit # 0
  PROVE  /\ task[t].exit \in Closings(task[t].order) /\ orders[task[t].exit].square = ~task[t].exits
         /\ task[t].order \in Placed /\ task[t].exit # task[t].order /\ task[t].pc # "idle"
  <1>1. /\ task[t].exit \in Placed /\ orders[task[t].exit].closes = task[t].order
        /\ orders[task[t].exit].square = ~task[t].exits /\ task[t].pc # "idle"
        /\ task[t].order \in Placed
    BY IdleTask DEF Frame, TasksShaped
  <1>2. orders[task[t].exit].closes < task[t].exit /\ task[t].exit \in Nat
    BY <1>1, Numbers DEF Frame, OrdersShaped, Placed
  <1>3. task[t].exit # task[t].order
    BY <1>1, <1>2
  <1> QED  BY <1>1, <1>3 DEF Closings

\* An order nothing happened to has one task with a closing order.
LEMMA Alone ==
  ASSUME Inv, Frame, NEW o \in Placed, OneClose(o), NEW t \in Tasks, NEW u \in Tasks,
         task[t].order = o, task[u].order = o, task[t].exit # 0, task[u].exit # 0
  PROVE  t = u
  <1>1. /\ task[t].exit \in Closings(o) /\ orders[task[t].exit].square = ~task[t].exits
        /\ task[u].exit \in Closings(o) /\ orders[task[u].exit].square = ~task[u].exits
        /\ task[t].pc # "idle" /\ task[u].pc # "idle"
    BY ExitCloses
  <1>2. task[t].exits \in BOOLEAN /\ task[u].exits \in BOOLEAN
    BY TypeFacts DEF Frame, Task
  <1>3. task[t].exits = task[u].exits
    BY <1>1, <1>2 DEF OneClose
  <1>4. CASE task[t].exits
    BY <1>3, <1>4 DEF Frame, ExitsOnce
  <1>5. CASE ~task[t].exits
    BY <1>1, <1>3, <1>5 DEF Inv, ClaimsHeld, Squares
  <1> QED  BY <1>2, <1>4, <1>5

\* What o is at the exchange, and its position, stay.
SameLot(o) ==
    /\ orders'[o] = orders[o] /\ position'[o] = position[o]
    /\ Closings(o)' = Closings(o) /\ Closed(o)' = Closed(o)
    /\ \A x \in Closings(o) : orders'[x] = orders[x]

\* The tasks that match a close of o stay, with what they know.
SameWork(o) ==
    \A u \in Tasks :
      /\ task'[u].order = o /\ Matching(u)' <=> task[u].order = o /\ Matching(u)
      /\ task[u].order = o /\ Matching(u) =>
           /\ task'[u].exit = task[u].exit /\ task'[u].want = task[u].want
           /\ task'[u].pc = "match" <=> task[u].pc = "match"

\* A task that is at work on o had looked at it, or looks at it now.
Looked(o) ==
    \A u \in Tasks : task'[u].order = o /\ task'[u].pc # "query" =>
      \/ /\ task[u].order = o /\ task[u].pc # "query" /\ task'[u].exits = task[u].exits
         /\ task'[u].exit = 0 => task[u].exit = 0
      \/ /\ orders[o].closes = 0
         /\ task'[u].exit = 0 /\ ~task'[u].exits => Closings(o) = {}

\* What is tracked of o stays, or o was found untouched, or closes another.
Tracks(o) ==
    \/ /\ tracked'[o] = tracked[o]
       /\ \A u \in Tasks : task[u].exit = o /\ task[u].pc = "match" => task'[u] = task[u]
    \/ orders[o].closes # 0 /\ ToMatch(o)'
    \/ orders[o].closes = 0 /\ Closings(o) = {} /\ tracked'[o] = orders[o].qty

LEMMA OneKept ==
  ASSUME NEW o, OneClose(o), SameLot(o), Looked(o)
  PROVE  OneClose(o)'
  BY DEF OneClose, SameLot, Looked

LEMMA PosKept ==
  ASSUME Frame, NEW o \in Placed, PositionTells(o), SameLot(o),
         \A u \in Tasks : task'[u].order = o /\ Recording(u)' <=> task[u].order = o /\ Recording(u),
         \A u \in Tasks : task[u].order = o /\ Recording(u) => task'[u].exit = task[u].exit
  PROVE  PositionTells(o)'
  <1>1. CASE \E x \in Closings(o) : orders[x].square
    BY <1>1 DEF PositionTells, SameLot
  <1>2. CASE position[o] = 0 /\ Closings(o) = {}
    BY <1>2 DEF PositionTells, SameLot
  <1>3. ASSUME NEW t \in Tasks, task[t].order = o, Recording(t),
               Closed(o) + position[o] = orders[o].qty + orders[task[t].exit].qty
        PROVE  PositionTells(o)'
    <2>1. task[t].exit \in Closings(o)
      BY <1>3, ExitCloses DEF Recording
    <2>2. task'[t].order = o /\ Recording(t)' /\ task'[t].exit = task[t].exit
      BY <1>3
    <2>3. Closed(o)' + position'[o] = orders'[o].qty + orders'[task'[t].exit].qty
      BY <1>3, <2>1, <2>2 DEF SameLot
    <2> QED  BY <2>2, <2>3 DEF PositionTells
  <1>4. CASE /\ \A t \in Tasks : ~(task[t].order = o /\ Recording(t))
             /\ Closed(o) + position[o] = orders[o].qty
    <2>1. \A t \in Tasks : ~(task'[t].order = o /\ Recording(t)')
      BY <1>4
    <2>2. Closed(o)' + position'[o] = orders'[o].qty
      BY <1>4 DEF SameLot
    <2> QED  BY <2>1, <2>2 DEF PositionTells
  <1> QED  BY <1>1, <1>2, <1>3, <1>4 DEF PositionTells

LEMMA TrkKept ==
  ASSUME Frame, NEW o \in Placed, TracksOpen(o), SameLot(o), SameWork(o), Tracks(o)
  PROVE  TracksOpen(o)'
  <1>1. ASSUME NEW u \in Tasks, task[u].order = o, Matching(u)
        PROVE  task[u].exit \in Closings(o) /\ Before(u, o)' = Before(u, o)
    <2>1. task[u].exit # 0
      BY <1>1 DEF Matching, Recording, Frame, TasksShaped, Landed
    <2>2. task[u].exit \in Closings(o)
      BY <1>1, <2>1, ExitCloses
    <2>3. task'[u].exit = task[u].exit
      BY <1>1 DEF SameWork
    <2> QED  BY <2>2, <2>3 DEF Before, SameLot
  <1>2. orders'[o] = orders[o] /\ Closed(o)' = Closed(o)
    BY DEF SameLot
  <1>3. CASE orders[o].closes # 0
    <2>1. ToMatch(o)'
      BY <1>3 DEF TracksOpen, Tracks, ToMatch
    <2> QED  BY <1>2, <1>3, <2>1 DEF TracksOpen
  <1>4. CASE orders[o].closes = 0 /\ tracked'[o] = tracked[o]
    <2>1. (\A u \in Tasks : task'[u].order = o => ~Matching(u)') =>
            tracked'[o] \in {0, orders'[o].qty - Closed(o)'}
      BY <1>2, <1>4 DEF TracksOpen, SameWork
    <2>2. ASSUME NEW u \in Tasks, task'[u].order = o, Matching(u)'
          PROVE  /\ tracked'[o] \in {0, Before(u, o)'}
                 /\ task'[u].pc = "match" => task'[u].want = Before(u, o)'
      <3>1. task[u].order = o /\ Matching(u)
        BY <2>2 DEF SameWork
      <3>2. Before(u, o)' = Before(u, o)
        BY <1>1, <3>1
      <3> QED  BY <1>4, <3>1, <3>2 DEF TracksOpen, SameWork
    <2> QED  BY <1>2, <1>4, <2>1, <2>2 DEF TracksOpen
  <1>5. CASE orders[o].closes = 0 /\ Closings(o) = {} /\ tracked'[o] = orders[o].qty
    <2>1. \A u \in Tasks : ~(task'[u].order = o /\ Matching(u)')
      BY <1>1, <1>5 DEF SameWork
    <2>2. Closed(o) = 0 /\ orders[o].qty \in Nat
      <3>1. Closed(o) = 0
        BY <1>5, ClosedFacts DEF Frame
      <3>2. orders[o] \in Order
        BY TypeFacts DEF Frame, Placed
      <3> QED  BY <3>1, <3>2, Numbers DEF Order
    <2>3. tracked'[o] = orders'[o].qty - Closed(o)'
      BY <1>2, <1>5, <2>2
    <2> QED  BY <1>2, <1>5, <2>1, <2>3 DEF TracksOpen
  <1> QED  BY <1>3, <1>4, <1>5 DEF Tracks

LEMMA FineKept ==
  ASSUME Frame, NEW o \in Placed, Fine(o), SameLot(o), SameWork(o), Looked(o), Tracks(o)
  PROVE  Fine(o)'
  <1>1. \A u \in Tasks :
          /\ task'[u].order = o /\ Recording(u)' <=> task[u].order = o /\ Recording(u)
          /\ task[u].order = o /\ Recording(u) => task'[u].exit = task[u].exit
    BY DEF SameWork, Matching, Recording
  <1> QED  BY <1>1, OneKept, PosKept, TrkKept DEF Fine

LEMMA AstrayGrows ==
  ASSUME astray \subseteq astray', NEW o, ~Astray(o)'
  PROVE  ~Astray(o)
  BY DEF Astray

\* Steps on which no order executes keep each lot whose position they keep.
LEMMA LotKept ==
  ASSUME Frame, UNCHANGED orders, NEW o \in Placed, position'[o] = position[o]
  PROVE  SameLot(o)
  <1>1. Closings(o)' = Closings(o) /\ Closed(o)' = Closed(o)
    BY DEF Closings, Closed, Placed
  <1> QED  BY <1>1 DEF SameLot

\* A task that matches nothing before or after the step.
LEMMA WorkKept ==
  ASSUME NEW o \in Placed, NEW t \in Tasks, \A u \in Tasks \ {t} : task'[u] = task[u],
         task[t].order = o => ~Matching(t), task'[t].order = o => ~Matching(t)'
  PROVE  SameWork(o)
  BY DEF SameWork, Matching, Recording

LEMMA LookedKept ==
  ASSUME NEW o \in Placed, NEW t \in Tasks, \A u \in Tasks \ {t} : task'[u] = task[u],
         task'[t].order = o /\ task'[t].pc # "query" =>
           \/ /\ task[t].order = o /\ task[t].pc # "query" /\ task'[t].exits = task[t].exits
              /\ task'[t].exit = 0 => task[t].exit = 0
           \/ /\ orders[o].closes = 0
              /\ task'[t].exit = 0 /\ ~task'[t].exits => Closings(o) = {}
  PROVE  Looked(o)
  BY DEF Looked

LEMMA TracksKept ==
  ASSUME NEW o \in Placed, NEW t \in Tasks, \A u \in Tasks \ {t} : task'[u] = task[u],
         tracked'[o] = tracked[o], task[t].exit # o \/ task[t].pc # "match"
  PROVE  Tracks(o)
  BY DEF Tracks

\* An order that is read back, and not noted for it, is as it was tracked or untouched.
LEMMA ReadLot ==
  ASSUME Frame, NEW p \in Placed, Reads(p), NEW o \in Placed, ~Astray(o)'
  PROVE  \/ tracked'[o] = tracked[o] /\ (o = p => ~orders[o].filled)
         \/ orders[o].closes = 0 /\ Closings(o) = {} /\ tracked'[o] = orders[o].qty
  <1>1. o \in Ids /\ (o # p => tracked'[o] = tracked[o])
        /\ (o = p => tracked'[o] = IF orders[o].filled THEN orders[o].qty ELSE tracked[o])
    BY NotedFacts DEF Reads, Placed
  <1>2. CASE o = p /\ orders[o].filled
    <2>1. Resets(o) = {}
      BY <1>2 DEF Reads, Resets, Astray, Reasons
    <2>2. ~(Closed(o) > 0) /\ orders[o].closes = 0
      BY <1>2, <2>1 DEF Resets
    <2>3. Closings(o) = {}
      <3> SUFFICES ASSUME NEW x \in Closings(o) PROVE FALSE
        OBVIOUS
      <3> QED  BY <2>2, ClosedFacts DEF Frame
    <2> QED  BY <1>1, <1>2, <2>2, <2>3
  <1> QED  BY <1>1, <1>2

LEMMA LotsQueryOrder ==
  ASSUME Frame, NEW p \in Placed, Reads(p), UNCHANGED <<orders, position, task>>,
         NEW o \in Placed, Fine(o), ~Astray(o)'
  PROVE  Fine(o)'
  <1>1. Fine(o)
    OBVIOUS
  <1>2. SameLot(o)
    BY LotKept
  <1>3. SameWork(o) /\ Looked(o)
    BY <1>1 DEF SameWork, Looked, Matching, Recording, Fine, OneClose
  <1>4. Tracks(o)
    BY ReadLot DEF Tracks
  <1> QED  BY <1>1, <1>2, <1>3, <1>4, FineKept

\* A task goes on before its order is sent, or ends then.
LEMMA LotsAdvance ==
  ASSUME Frame, NEW t \in Tasks, Advance(t), astray \subseteq astray',
         \/ UNCHANGED tracked /\ (task[t].pc = "query" => Done(t))
         \/ /\ task[t].order \in Placed /\ Reads(task[t].order)
            /\ orders[task[t].order].filled \/ Done(t),
         NEW o \in Placed, Fine(o), ~Astray(o)'
  PROVE  Fine(o)'
  <1>0. TypeOK /\ o # 0
    BY Numbers DEF Frame, Placed
  <1>1. Fine(o) /\ UNCHANGED <<orders, position>> /\ task[t].exit = 0 /\ task[t].pc # "match"
    BY DEF Advance, Frame, TasksShaped, Landed
  <1>2. SameLot(o)
    BY <1>1, LotKept
  <1>3. /\ task'[t].exit = 0 /\ task'[t].pc # "match" /\ \A u \in Tasks \ {t} : task'[u] = task[u]
        /\ ~Done(t) => task'[t].order = task[t].order /\ task'[t].exits = task[t].exits
        /\ Done(t) => task'[t].order = 0
    <2>1. CASE Done(t)
      BY <1>0, <2>1, DoneFields
    <2>2. ASSUME ~Done(t), NEW pc \in {"matches", "cancel", "balance", "post", "unknown"}, NEW want,
                 Becomes(t, pc, want, 0)
          PROVE  /\ task'[t].exit = 0 /\ task'[t].pc # "match"
                 /\ \A u \in Tasks \ {t} : task'[u] = task[u]
                 /\ task'[t].order = task[t].order /\ task'[t].exits = task[t].exits
      BY <1>0, <2>2, BecomesFields
    <2> QED  BY <2>1, <2>2 DEF Advance
  <1>4. SameWork(o)
    BY <1>1, <1>3, WorkKept DEF Matching, Recording
  <1>5. \/ tracked'[o] = tracked[o]
        \/ orders[o].closes = 0 /\ Closings(o) = {} /\ tracked'[o] = orders[o].qty
    BY ReadLot
  <1>6. Tracks(o)
    BY <1>1, <1>3, <1>5, TracksKept DEF Tracks
  <1>7. Looked(o)
    <2>1. CASE task'[t].order # o \/ task'[t].pc = "query"
      BY <1>3, <2>1, LookedKept
    <2>2. CASE task'[t].order = o /\ task[t].pc # "query"
      BY <1>0, <1>1, <1>3, <2>2, LookedKept
    <2>3. CASE task'[t].order = o /\ task[t].pc = "query"
      <3>1. task[t].order = o /\ ~Done(t)
        BY <1>0, <1>3, <2>3
      <3>2. Reads(o) /\ orders[o].filled
        BY <2>3, <3>1
      <3>3. orders[o].closes = 0 /\ Closings(o) = {}
        BY <3>2, ReadLot
      <3> QED  BY <1>3, <3>3, LookedKept
    <2> QED  BY <2>1, <2>2, <2>3
  <1> QED  BY <1>1, <1>2, <1>4, <1>6, <1>7, FineKept

\* A task begins: a square-off has its order to look at, an exit has its position.
LEMMA LotsBegins ==
  ASSUME Frame, NEW t \in Tasks, NEW p \in Placed, NEW exits \in BOOLEAN,
         NEW pc \in {"query", "look", "balance"}, NEW want, exits <=> pc # "query",
         Begin(t, p, pc, exits, want), task[t].pc = "idle", exits => orders[p].closes = 0,
         UNCHANGED <<orders, position, tracked>>, NEW o \in Placed, Fine(o)
  PROVE  Fine(o)'
  <1>0. o # 0
    BY Numbers DEF Placed
  <1>1. Fine(o) /\ task[t] = Idle
    BY DEF Frame, TasksShaped
  <1>2. SameLot(o)
    BY LotKept
  <1>3. /\ task'[t] = Doing(pc, exits, p, want) /\ \A u \in Tasks \ {t} : task'[u] = task[u]
    BY TypeFacts DEF Begin, Frame
  <1>4. /\ task'[t].exit = 0 /\ task'[t].pc = pc /\ task'[t].exits = exits /\ task'[t].order = p
    BY <1>3 DEF Doing
  <1>5. SameWork(o) /\ Tracks(o)
    BY <1>0, <1>1, <1>3, <1>4, IdleTask, WorkKept, TracksKept DEF Matching, Recording
  <1>6. Looked(o)
    BY <1>3, <1>4, LookedKept
  <1> QED  BY <1>1, <1>2, <1>5, <1>6, FineKept

\* A task ends whose order is not the one in question, or which matches nothing.
LEMMA LotsDone ==
  ASSUME Frame, NEW t \in Tasks, Done(t), UNCHANGED <<orders, position, tracked>>,
         NEW o \in Placed, Fine(o), task[t].exit # o \/ task[t].pc # "match",
         task[t].order = o => ~Matching(t)
  PROVE  Fine(o)'
  <1>0. TypeOK /\ o # 0
    BY Numbers DEF Frame, Placed
  <1>1. Fine(o)
    OBVIOUS
  <1>2. SameLot(o)
    BY LotKept
  <1>3. task'[t].order # o /\ \A u \in Tasks \ {t} : task'[u] = task[u]
    BY <1>0, DoneFields
  <1>4. SameWork(o) /\ Looked(o) /\ Tracks(o)
    BY <1>3, WorkKept, LookedKept, TracksKept
  <1> QED  BY <1>1, <1>2, <1>4, FineKept

\* The answer to a task that nothing happened to is its own order.
LEMMA LotsAnswers ==
  ASSUME Inv, Frame, Books, NEW t \in Tasks, task[t].pc = "unknown",
         NEW x \in Closings(task[t].order), Becomes(t, "record", task[t].want, x),
         orders[x].square = ~task[t].exits, task[t].exits => x = task[t].exit,
         ~task[t].exits => \A y \in Closings(task[t].order) : orders[y].square => y <= x,
         UNCHANGED <<orders, position, tracked>>, NEW o \in Placed, Fine(o)
  PROVE  Fine(o)'
  <1>0. TypeOK /\ o # 0
    BY Numbers DEF Frame, Placed
  <1>1. Fine(o)
    OBVIOUS
  <1>2. SameLot(o)
    BY LotKept
  <1>3. /\ task'[t].pc = "record" /\ task'[t].exits = task[t].exits
        /\ task'[t].order = task[t].order /\ task'[t].exit = x /\ task'[t].want = task[t].want
        /\ \A u \in Tasks \ {t} : task'[u] = task[u]
    BY <1>0, BecomesFields
  <1>4. CASE task[t].order # o
    BY <1>1, <1>2, <1>3, <1>4, WorkKept, LookedKept, TracksKept, FineKept
  <1>5. CASE task[t].order = o
    <2>1. x # 0
      BY Numbers DEF Closings, Placed
    <2>2. task[t].exit # 0
      BY <1>1, <1>5, <2>1 DEF Fine, OneClose
    <2>3. task[t].exit = x
      <3> DEFINE e == task[t].exit
      <3>1. CASE task[t].exits
        BY <3>1
      <3>2. CASE ~task[t].exits
        <4>1. e \in Closings(task[t].order) /\ orders[e].square
          BY <2>2, <3>2, ExitCloses
        <4>2. e <= x /\ x <= e
          BY <2>2, <3>2, <4>1 DEF Books, Newest
        <4>3. e \in Int /\ x \in Int
          BY <4>1, Numbers DEF Closings, Placed
        <4> QED  BY <4>2, <4>3
      <3> QED  BY <3>1, <3>2
    <2>4. Matching(t) /\ Matching(t)'
      BY <1>3, <2>1, <2>2 DEF Matching, Recording
    <2>5. \A u \in Tasks \ {t} : Matching(u)' <=> Matching(u)
      BY <1>3 DEF Matching, Recording
    <2>6. SameWork(o)
      BY <1>3, <1>5, <2>3, <2>4, <2>5 DEF SameWork
    <2>7. Looked(o)
      BY <1>3, <1>5, <2>1, LookedKept
    <2>8. Tracks(o)
      BY <1>3, TracksKept
    <2> QED  BY <1>1, <1>2, <2>6, <2>7, <2>8, FineKept
  <1> QED  BY <1>4, <1>5

\* What one closing order executed is all that closed an order closed by a square-off.
LEMMA SquareCloses ==
  ASSUME Frame, NEW o \in Placed, OneClose(o), NEW x \in Closings(o), orders[x].square
  PROVE  Closings(o) = {x} /\ Closed(o) = orders[x].qty
  <1>1. Closings(o) = {x}
    BY DEF OneClose
  <1> QED  BY <1>1, ClosedFacts DEF Frame

\* What an exit's position still has is known, but for the order it records.
LEMMA ExitLeaves ==
  ASSUME Inv, Frame, NEW o \in Placed, Fine(o), NEW t \in Tasks, task[t].order = o,
         task[t].exit # 0, task[t].exits
  PROVE  Closed(o) + position[o] =
           IF Recording(t) THEN orders[o].qty + orders[task[t].exit].qty ELSE orders[o].qty
  <1>1. task[t].exit \in Closings(o) /\ ~orders[task[t].exit].square
    BY ExitCloses
  <1>2. \A x \in Closings(o) : ~orders[x].square
    BY <1>1 DEF Fine, OneClose
  <1>3. \A u \in Tasks : task[u].order = o /\ Recording(u) => u = t
    BY Alone DEF Recording, Fine
  <1> QED  BY <1>1, <1>2, <1>3 DEF Fine, PositionTells

\* A closing order is recorded: an exit's position loses what it sold.
LEMMA LotsRecord ==
  ASSUME Inv, Frame, NEW t \in Tasks, Record(t), NEW o \in Placed, Fine(o)
  PROVE  Fine(o)'
  <1> DEFINE e == task[t].exit
             p == task[t].order
             want == IF task[t].exits THEN position[p] ELSE orders[p].qty
  <1>1. /\ task[t].pc = "record" /\ UNCHANGED <<orders, rows, astray>> /\ tracked' = Noted(e)
        /\ Becomes(t, "match", want, e)
        /\ task[t].exits => position' = [position EXCEPT ![p] = @ - orders[e].qty]
        /\ ~task[t].exits => position' = position
    BY RecordForm
  <1> HIDE DEF want
  <1>0. TypeOK /\ o # 0 /\ o \in Ids /\ position \in [Ids -> Amounts]
    BY Numbers, TypeFacts DEF Frame, Placed
  <1>2. Fine(o)
    OBVIOUS
  <1>3. /\ task'[t].pc = "match" /\ task'[t].exits = task[t].exits /\ task'[t].order = p
        /\ task'[t].exit = e /\ task'[t].want = want /\ \A u \in Tasks \ {t} : task'[u] = task[u]
    BY <1>0, <1>1, BecomesFields
  <1>4. e # 0
    BY <1>1 DEF Frame, TasksShaped, Landed
  <1>5. /\ e \in Closings(p) /\ orders[e].square = ~task[t].exits /\ p \in Placed /\ e # p
        /\ e \in Placed /\ orders[e].closes = p /\ p # 0
    BY <1>4, ExitCloses, Numbers DEF Closings, Placed
  <1>6. Recording(t) /\ Matching(t) /\ ~Recording(t)' /\ Matching(t)'
    BY <1>1, <1>3, <1>4 DEF Matching, Recording
  <1>7. CASE o # p
    <2>1. position'[o] = position[o]
      BY <1>0, <1>1, <1>7
    <2>2. SameLot(o)
      BY <1>1, <2>1, LotKept
    <2>3. SameWork(o) /\ Looked(o)
      BY <1>3, <1>7, WorkKept, LookedKept
    <2>4. Tracks(o)
      <3>1. CASE o = e
        BY <1>3, <1>5, <3>1 DEF Tracks, ToMatch
      <3>2. CASE o # e
        <4>1. tracked'[o] = tracked[o]
          BY <1>0, <1>1, <1>5, <3>2, NotedFacts
        <4> QED  BY <1>3, <3>2, <4>1, TracksKept
      <3> QED  BY <3>1, <3>2
    <2> QED  BY <1>2, <2>2, <2>3, <2>4, FineKept
  <1>8. CASE o = p
    <2>1. tracked'[o] = tracked[o]
      BY <1>0, <1>1, <1>5, <1>8, NotedFacts
    <2>2. Closings(o)' = Closings(o) /\ Closed(o)' = Closed(o)
      BY <1>1, KeptOrders DEF Frame
    <2>3. OneClose(o)'
      BY <1>1, <1>2, <1>3, <1>4, <1>8, <2>2 DEF Fine, OneClose
    <2>4. /\ Closed(o) \in Nat /\ orders[o].qty \in Nat /\ orders[e].qty \in Nat
          /\ position[o] \in Nat
      <3>1. orders[o] \in Order /\ orders[e] \in Order
        BY <1>5, TypeFacts DEF Frame, Placed
      <3>2. Closed(o) \in Nat
        BY ClosedFacts DEF Frame
      <3> QED  BY <1>0, <3>1, <3>2, Numbers DEF Order
    <2>5. \A u \in Tasks \ {t} : task[u].order = o => task[u].exit = 0
      BY <1>2, <1>4, <1>8, Alone DEF Fine
    <2>6. \A u \in Tasks \ {t} : task[u].order = o => ~Recording(u)' /\ ~Matching(u)'
      <3>1. \A u \in Tasks : task[u].pc = "match" => task[u].exit # 0
        BY DEF Frame, TasksShaped, Landed
      <3> QED  BY <1>3, <2>5, <3>1 DEF Recording, Matching
    <2>7. want = Before(t, o) /\ PositionTells(o)'
      <3>1. CASE task[t].exits
        <4>1. Closed(o) + position[o] = orders[o].qty + orders[e].qty
          BY <1>2, <1>4, <1>6, <1>8, <3>1, ExitLeaves
        <4>2. want = Before(t, o)
          BY <1>8, <2>4, <3>1, <4>1 DEF Before, want
        <4>3. position'[o] = position[o] - orders[e].qty
          BY <1>0, <1>1, <1>8, <3>1
        <4>4. Closed(o)' + position'[o] = orders'[o].qty
          BY <1>1, <2>2, <2>4, <4>1, <4>3
        <4>5. \A u \in Tasks : ~(task'[u].order = o /\ Recording(u)')
          BY <1>3, <1>6, <2>6
        <4> QED  BY <4>2, <4>4, <4>5 DEF PositionTells
      <3>2. CASE ~task[t].exits
        <4>1. Closed(o) = orders[e].qty
          BY <1>2, <1>5, <1>8, <3>2, SquareCloses DEF Fine
        <4>2. want = Before(t, o)
          BY <1>8, <2>4, <3>2, <4>1 DEF Before, want
        <4>3. PositionTells(o)'
          BY <1>1, <1>5, <1>8, <2>2, <3>2 DEF PositionTells
        <4> QED  BY <4>2, <4>3
      <3>3. task[t].exits \in BOOLEAN
        BY <1>0, TypeFacts DEF Task
      <3> QED  BY <3>1, <3>2, <3>3
    <2>8. TracksOpen(o)'
      <3>1. Before(t, o)' = Before(t, o)
        BY <1>1, <1>3, <2>2 DEF Before
      <3>2. orders[o].closes = 0
        BY <1>1, <1>2, <1>8 DEF Fine, OneClose
      <3>3. tracked'[o] \in {0, Before(t, o)'}
        BY <1>2, <1>6, <1>8, <2>1, <3>1, <3>2 DEF Fine, TracksOpen
      <3>4. \A u \in Tasks : task'[u].order = o /\ Matching(u)' => u = t
        BY <1>3, <2>6
      <3>5. task'[t].want = Before(t, o)'
        BY <1>3, <2>7, <3>1
      <3> QED  BY <1>1, <1>3, <1>6, <1>8, <3>2, <3>3, <3>4, <3>5 DEF TracksOpen
    <2> QED  BY <2>3, <2>7, <2>8 DEF Fine
  <1> QED  BY <1>7, <1>8

\* A close is matched: what is tracked is what is left, whoever knew it.
LEMMA LotsMatch ==
  ASSUME Inv, Frame, NEW t \in Tasks, Match(t), NEW o \in Placed, Fine(o)
  PROVE  Fine(o)'
  <1> DEFINE e == task[t].exit
             p == task[t].order
  <1>1. /\ task[t].pc = "match" /\ UNCHANGED <<orders, rows, position, astray>>
        /\ Becomes(t, "row", task[t].want, e)
    BY MatchForm
  <1>2. PICK known \in Nat :
          /\ known = IF tracked[p] # 0 THEN tracked[p] ELSE task[t].want
          /\ tracked' = [tracked EXCEPT ![p] = IF known > orders[e].qty THEN known - orders[e].qty
                                                                        ELSE 0,
                                        ![e] = 0]
    BY MatchForm
  <1>0. TypeOK /\ o # 0 /\ o \in Ids /\ tracked \in [Ids -> Amounts]
    BY Numbers, TypeFacts DEF Frame, Placed
  <1>3. Fine(o)
    OBVIOUS
  <1>4. SameLot(o)
    BY <1>1, LotKept
  <1>5. /\ task'[t].pc = "row" /\ task'[t].exits = task[t].exits /\ task'[t].order = p
        /\ task'[t].exit = e /\ \A u \in Tasks \ {t} : task'[u] = task[u]
    BY <1>0, <1>1, BecomesFields
  <1>6. e # 0
    BY <1>1 DEF Frame, TasksShaped, Landed
  <1>7. /\ e \in Closings(p) /\ p \in Placed /\ e # p
        /\ e \in Placed /\ orders[e].closes = p /\ p # 0
    BY <1>6, ExitCloses, Numbers DEF Closings, Placed
  <1>8. ~Recording(t) /\ Matching(t) /\ ~Recording(t)' /\ ~Matching(t)'
    BY <1>1, <1>5 DEF Matching, Recording
  <1>9. Looked(o)
    BY <1>1, <1>5, <1>6, LookedKept
  <1>10. CASE o # p
    <2>1. SameWork(o)
      BY <1>5, <1>10, WorkKept
    <2>2. Tracks(o)
      <3>1. CASE o = e
        <4>1. tracked'[o] = 0
          BY <1>0, <1>2, <3>1
        <4> QED  BY <1>7, <3>1, <4>1 DEF Tracks, ToMatch
      <3>2. CASE o # e
        <4>1. tracked'[o] = tracked[o]
          BY <1>0, <1>2, <1>10, <3>2
        <4> QED  BY <1>5, <3>2, <4>1, TracksKept
      <3> QED  BY <3>1, <3>2
    <2> QED  BY <1>3, <1>4, <1>9, <2>1, <2>2, FineKept
  <1>11. CASE o = p
    <2>1. OneClose(o)'
      BY <1>3, <1>4, <1>9, OneKept DEF Fine
    <2>2. PositionTells(o)'
      <3>1. \A u \in Tasks : /\ task'[u].order = task[u].order
                             /\ Recording(u)' <=> Recording(u)
                             /\ task'[u].exit = task[u].exit
        BY <1>5, <1>8 DEF Recording
      <3> QED  BY <1>3, <1>4, <3>1, PosKept DEF Fine
    <2>3. orders[o].closes = 0
      BY <1>1, <1>3, <1>11 DEF Fine, OneClose
    <2>4. known = Before(t, o)
      BY <1>1, <1>2, <1>3, <1>8, <1>11, <2>3 DEF Fine, TracksOpen
    <2>5. Closed(o) \in Nat /\ orders[o].qty \in Nat /\ orders[e].qty \in Nat
      <3>1. orders[o] \in Order /\ orders[e] \in Order
        BY <1>7, TypeFacts DEF Frame, Placed
      <3>2. Closed(o) \in Nat
        BY ClosedFacts DEF Frame
      <3> QED  BY <3>1, <3>2, Numbers DEF Order
    <2>6. tracked'[o] = IF known > orders[e].qty THEN known - orders[e].qty ELSE 0
      BY <1>0, <1>2, <1>7, <1>11
    <2>7. tracked'[o] \in {0, orders[o].qty - Closed(o)}
      BY <2>4, <2>5, <2>6 DEF Before
    <2>8. \A u \in Tasks \ {t} : task[u].order = o => task[u].exit = 0
      BY <1>3, <1>6, <1>11, Alone DEF Fine
    <2>9. \A u \in Tasks : task'[u].order = o => ~Matching(u)'
      <3>1. \A u \in Tasks : task[u].pc = "match" => task[u].exit # 0
        BY DEF Frame, TasksShaped, Landed
      <3> QED  BY <1>5, <1>8, <2>8, <3>1 DEF Recording, Matching
    <2>10. TracksOpen(o)'
      BY <1>4, <2>3, <2>7, <2>9 DEF TracksOpen, SameLot
    <2> QED  BY <2>1, <2>2, <2>10 DEF Fine
  <1> QED  BY <1>10, <1>11

\* A restart drops what was tracked; orders whose close it cut off are noted, and
\* the positions of the others were saved.
LEMMA LotsRestart ==
  ASSUME Frame, Guards, Restart, NEW o \in Placed, Fine(o), ~Astray(o)'
  PROVE  Fine(o)'
  <1>1. /\ UNCHANGED <<orders, rows>> /\ tracked' = [p \in Ids |-> 0] /\ position' = saved
        /\ task' = [t \in Tasks |-> Idle] /\ astray' = astray \cup UNION {Cut(t) : t \in Tasks}
    BY DEF Restart, exchange
  <1>2. Fine(o) /\ o # 0 /\ o \in Ids
    BY Numbers DEF Placed
  <1>3. \A t \in Tasks : task'[t].order = 0
    BY <1>1, IdleTask
  <1>5. position'[o] = position[o] /\ \A t \in Tasks : task[t].order = o => task[t].exit = 0
    <2>1. <<o, "cut">> \notin astray'
      BY DEF Astray, Reasons
    <2> QED  BY <1>1, <1>2, <2>1, SavedBack
  <1>4. SameLot(o) /\ Looked(o)
    BY <1>1, <1>2, <1>3, <1>5, LotKept DEF Looked
  <1>6. OneClose(o)' /\ PositionTells(o)'
    BY <1>2, <1>3, <1>4, <1>5, OneKept, PosKept DEF Fine, Recording
  <1>7. TracksOpen(o)'
    BY <1>1, <1>2, <1>3 DEF TracksOpen, ToMatch
  <1> QED  BY <1>6, <1>7 DEF Fine

\* An order executes that closes another: the lots that are not closed stay.
LEMMA AddsOther ==
  ASSUME Frame, NEW x \in Ids, NEW r \in Order, r.qty > 0, Adds(x, r),
         NEW o \in Placed, o # r.closes, position'[o] = position[o]
  PROVE  SameLot(o)
  <1>1. o \in Ids /\ o # x
    BY DEF Placed, Adds
  <1>2. /\ orders'[o] = orders[o] /\ Closings(o)' = Closings(o) /\ Closed(o)' = Closed(o)
        /\ \A y \in Closings(o) : orders'[y] = orders[y]
    BY <1>1, AddsFacts DEF Closings, Placed
  <1> QED  BY <1>2 DEF SameLot

\* The new order itself: nothing closes it and no task is about it.
LEMMA AddsNew ==
  ASSUME Frame, NEW x \in Ids, NEW r \in Order, r.qty > 0, Adds(x, r),
         \A u \in Tasks : task'[u].order = task[u].order,
         position'[x] = 0 \/ position'[x] = r.qty,
         r.closes # 0 => tracked'[x] = 0, r.closes = 0 => tracked'[x] = r.qty
  PROVE  Fine(x)'
  <1>1. /\ orders'[x] = r /\ r.closes < x /\ x # 0 /\ x # r.closes
        /\ Closings(x)' = Closings(x) /\ Closed(x)' = Closed(x)
    BY AddsFacts, Numbers
  <1>2. Closings(x) = {}
    <2> SUFFICES ASSUME NEW y \in Closings(x) PROVE FALSE
      OBVIOUS
    <2>1. y \in Placed /\ y \in Ids /\ x < y
      BY DEF Closings, Placed, Frame, OrdersShaped
    <2> QED  BY <2>1 DEF Adds, Frame, OrdersShaped
  <1>3. Closed(x)' = 0
    BY <1>1, <1>2, ClosedFacts DEF Frame
  <1>4. \A u \in Tasks : task'[u].order # x
    BY <1>1, IdleTask DEF Frame, TasksShaped, Adds
  <1>5. r.qty \in Nat
    BY Numbers DEF Order
  <1>6. OneClose(x)'
    BY <1>1, <1>2, <1>4 DEF OneClose
  <1>7. PositionTells(x)'
    BY <1>1, <1>2, <1>3, <1>4, <1>5 DEF PositionTells
  <1>8. TracksOpen(x)'
    BY <1>1, <1>3, <1>4, <1>5 DEF TracksOpen, ToMatch
  <1> QED  BY <1>6, <1>7, <1>8 DEF Fine

\* The execution of an order that closes nothing leaves the other lots alone.
LEMMA LotsPlace ==
  ASSUME Frame, NEW side \in Sides, NEW entry \in BOOLEAN, Place(side, entry), NEW o \in Placed'
  PROVE  /\ o \notin Placed => Fine(o)'
         /\ o \in Placed => /\ SameLot(o) /\ tracked'[o] = tracked[o] /\ fill'[o] = fill[o]
                            /\ UNCHANGED <<rows, task>>
  <1>1. PICK x \in Ids, r \in Order :
          /\ Adds(x, r) /\ r.qty = Lot /\ r.closes = 0
          /\ tracked' = [tracked EXCEPT ![x] = Lot]
          /\ \/ position' = [position EXCEPT ![x] = Lot]
             \/ UNCHANGED position
          /\ UNCHANGED <<fill, rows, task, astray>>
    BY PlaceForm
  <1>0. r.qty > 0 /\ tracked \in [Ids -> Amounts] /\ position \in [Ids -> Amounts]
    <2>1. r.qty > 0
      BY <1>1, Numbers
    <2> QED  BY <2>1, TypeFacts DEF Frame
  <1>4. Placed' = Placed \cup {x}
    BY <1>0, <1>1, AddsFacts
  <1>2. CASE o = x
    <2>1. position'[x] = 0 \/ position'[x] = r.qty
      BY <1>0, <1>1, NewOrder
    <2>2. o \notin Placed /\ tracked'[x] = r.qty
      BY <1>0, <1>1, <1>2 DEF Adds
    <2> QED  BY <1>0, <1>1, <1>2, <2>1, <2>2, AddsNew
  <1>3. CASE o # x
    <2>1. o \in Placed /\ o \in Ids /\ o # r.closes
      <3>1. o \in Placed
        BY <1>3, <1>4
      <3> QED  BY <1>1, <3>1, Numbers DEF Placed
    <2>2. tracked'[o] = tracked[o] /\ position'[o] = position[o]
      BY <1>0, <1>1, <1>3, <2>1
    <2>4. SameLot(o)
      BY <1>0, <1>1, <2>1, <2>2, AddsOther
    <2> QED  BY <1>1, <2>1, <2>2, <2>4
  <1> QED  BY <1>2, <1>3

\* An order executes that closes the task's, which nothing else closed or is closing.
LEMMA LotsPost ==
  ASSUME Inv, Frame, NEW t \in Tasks, Post(t), NEW o \in Placed', ~Astray(o)',
         o \in Placed => Fine(o)
  PROVE  Fine(o)'
  <1> DEFINE p == task[t].order
  <1>1. /\ task[t].pc = "post" /\ task[t].exit = 0 /\ p \in Placed
        /\ UNCHANGED <<rows, tracked, position>> /\ astray' = astray \cup Shared(p, ~task[t].exits)
    BY PostForm
  <1>2. PICK x \in Ids, r \in Order, pc \in {"record", "unknown"} :
          /\ Adds(x, r) /\ r.qty > 0 /\ r.qty <= task[t].want /\ r.closes = p
          /\ r.square = ~task[t].exits /\ Becomes(t, pc, task[t].want, x)
    BY PostForm
  <1>0. /\ TypeOK /\ task[t].exits \in BOOLEAN /\ task[t].want \in Nat /\ p # 0 /\ x # 0
        /\ tracked \in [Ids -> Amounts] /\ position \in [Ids -> Amounts]
    <2>1. TypeOK /\ task[t] \in Task /\ tracked \in [Ids -> Amounts]
          /\ position \in [Ids -> Amounts]
      BY TypeFacts DEF Frame
    <2>2. task[t].exits \in BOOLEAN /\ task[t].want \in Nat
      BY <2>1, Numbers DEF Task
    <2>3. p # 0 /\ x # 0
      BY <1>1, Numbers DEF Placed
    <2> QED  BY <2>1, <2>2, <2>3
  <1>3. /\ task'[t].pc = pc /\ task'[t].exits = task[t].exits /\ task'[t].order = p
        /\ task'[t].exit = x /\ task'[t].want = task[t].want
        /\ \A u \in Tasks \ {t} : task'[u] = task[u]
    BY <1>0, <1>2, BecomesFields
  <1>4. /\ Placed' = Placed \cup {x} /\ orders'[x] = r
        /\ \A y \in Ids \ {x} : orders'[y] = orders[y]
        /\ orders[x].qty = 0 /\ x \notin Placed
        /\ \A q \in Ids : /\ Closings(q)' = IF q = r.closes THEN Closings(q) \cup {x} ELSE Closings(q)
                          /\ x \notin Closings(q)
    <2>1. x \notin Placed
      BY <1>2 DEF Adds
    <2> QED  BY <1>2, <2>1, AddsFacts
  <1>9. Closed(r.closes)' = Closed(r.closes) + r.qty
    <2>1. r.closes # 0
      BY <1>0, <1>2
    <2> QED  BY <1>2, <2>1, AddsFacts
  <1>5. ~Matching(t) /\ ~Recording(t) /\ Recording(t)' /\ Matching(t)'
    BY <1>0, <1>1, <1>3 DEF Matching, Recording
  <1>6. CASE o = x
    <2>1. position'[x] = 0 /\ tracked'[x] = 0
      BY <1>0, <1>1, <1>4, Numbers DEF Frame, Bounded
    <2>2. \A u \in Tasks : task'[u].order = task[u].order
      BY <1>3
    <2> QED  BY <1>0, <1>2, <1>6, <2>1, <2>2, AddsNew
  <1>7. CASE o # x /\ o # p
    <2>1. o \in Placed
      BY <1>4, <1>7
    <2>2. Fine(o)
      BY <2>1
    <2>3. SameLot(o)
      BY <1>1, <1>2, <1>7, <2>1, AddsOther
    <2>4. SameWork(o) /\ Looked(o)
      BY <1>3, <1>7, <2>1, WorkKept, LookedKept
    <2>5. Tracks(o)
      BY <1>1, <1>3, <2>1, TracksKept
    <2> QED  BY <2>1, <2>2, <2>3, <2>4, <2>5, FineKept
  <1>8. CASE o = p
    <2>0. o \in Placed /\ o \in Ids /\ o # x
      BY <1>1, <1>4, <1>8 DEF Placed
    <2>1. Fine(o)
      BY <2>0
    <2>2. /\ \A y \in Closings(o) : orders[y].square # task[t].exits
          /\ \A u \in Tasks : task[u].order = o => task[u].exits = task[t].exits
      <3>1. Shared(p, ~task[t].exits) = {}
        BY <1>1, <1>8 DEF Shared, Astray, Reasons
      <3>2. /\ \A y \in Closings(o) : orders[y].square = ~task[t].exits
            /\ \A u \in Tasks : task[u].order = o => task[u].exits # ~task[t].exits
        BY <1>8, <3>1 DEF Shared
      <3>3. \A u \in Tasks : task[u].exits \in BOOLEAN
        BY <1>0, TypeFacts DEF Task
      <3> QED  BY <1>0, <3>2, <3>3
    <2>3. \A u \in Tasks : task[u].order = o => u = t
      <3> SUFFICES ASSUME NEW u \in Tasks, task[u].order = o PROVE u = t
        OBVIOUS
      <3>1. task[u].exits = task[t].exits /\ task[u].pc # "idle"
        BY <1>0, <1>8, <2>2, IdleTask DEF Frame, TasksShaped
      <3>2. CASE task[t].exits
        BY <1>8, <3>1, <3>2 DEF Frame, ExitsOnce
      <3>3. CASE ~task[t].exits
        BY <1>1, <1>8, <3>1, <3>3 DEF Inv, ClaimsHeld, Squares
      <3> QED  BY <1>0, <3>2, <3>3
    <2>4. \A u \in Tasks : task'[u].order = o => u = t
      BY <1>3, <2>3
    <2>5. orders[o].closes = 0 /\ (~task[t].exits => Closings(o) = {})
      BY <1>1, <1>8, <2>1 DEF Fine, OneClose
    <2>6. /\ Closings(o)' = Closings(o) \cup {x} /\ Closed(o)' = Closed(o) + r.qty
          /\ orders'[o] = orders[o] /\ x \notin Closings(o)
          /\ \A y \in Closings(o) : orders'[y] = orders[y]
      <3>1. r.closes = o
        BY <1>2, <1>8
      <3>2. Closed(o)' = Closed(o) + r.qty
        BY <1>9, <3>1
      <3> QED  BY <1>4, <2>0, <3>1, <3>2 DEF Closings, Placed
    <2>7. /\ Closed(o) \in Nat /\ orders[o].qty \in Nat /\ r.qty \in Nat /\ position[o] \in Nat
          /\ tracked[o] \in Nat
      <3>1. orders[o] \in Order
        BY <2>0, TypeFacts DEF Frame
      <3>2. Closed(o) \in Nat
        BY ClosedFacts DEF Frame
      <3> QED  BY <1>0, <2>0, <3>1, <3>2, Numbers DEF Order
    <2>8. \A y \in Closings(o) : orders[y].square \in BOOLEAN
      BY TypeFacts DEF Frame, Order, Closings, Placed
    <2>9. OneClose(o)'
      <3>1. \A y, z \in Closings(o)' :
              orders'[y].square = orders'[z].square /\ (orders'[y].square => y = z)
        <4>1. CASE task[t].exits
          <5>1. \A y \in Closings(o)' : orders'[y].square = FALSE
            BY <1>2, <1>4, <2>2, <2>6, <2>8, <4>1
          <5> QED  BY <5>1
        <4>2. CASE ~task[t].exits
          BY <2>5, <2>6, <4>2
        <4> QED  BY <1>0, <4>1, <4>2
      <3> QED  BY <1>0, <1>3, <2>4, <2>5, <2>6, <3>1 DEF OneClose
    <2>10. PositionTells(o)'
      <3>1. CASE ~task[t].exits
        BY <1>2, <1>4, <2>6, <3>1 DEF PositionTells
      <3>2. CASE task[t].exits
        <4>1. ~\E y \in Closings(o) : orders[y].square
          BY <2>2, <2>8, <3>2
        <4>2. task[t].want <= position[o]
          BY <1>1, <1>8, <3>2 DEF Frame, Bounded
        <4>3. position[o] # 0
          BY <1>0, <1>2, <2>7, <4>2
        <4>4. Closed(o) + position[o] = orders[o].qty
          BY <1>5, <2>1, <2>3, <4>1, <4>3 DEF Fine, PositionTells
        <4>5. Closed(o)' + position'[o] = orders'[o].qty + orders'[task'[t].exit].qty
          BY <1>1, <1>3, <1>4, <2>6, <2>7, <4>4
        <4> QED  BY <1>3, <1>5, <1>8, <4>5 DEF PositionTells
      <3> QED  BY <1>0, <3>1, <3>2
    <2>11. TracksOpen(o)'
      <3>1. tracked[o] \in {0, orders[o].qty - Closed(o)}
        BY <1>5, <2>1, <2>3, <2>5 DEF Fine, TracksOpen
      <3>2. Before(t, o)' = orders[o].qty - Closed(o)
        BY <1>3, <1>4, <2>6, <2>7 DEF Before
      <3>3. tracked'[o] \in {0, Before(t, o)'} /\ task'[t].pc # "match"
        BY <1>1, <1>3, <3>1, <3>2
      <3> QED  BY <1>3, <1>5, <1>8, <2>4, <2>5, <2>6, <3>3 DEF TracksOpen
    <2> QED  BY <2>9, <2>10, <2>11 DEF Fine
  <1> QED  BY <1>6, <1>7, <1>8

\* Of an order that is fine a stop that executed left nothing open.
LEMMA FineSold ==
  ASSUME Frame, NEW o \in Placed, Fine(o), fill[o] # 0, Stopped(o)
  PROVE  \E u \in Tasks : task[u].order = o /\ Recording(u) /\ task[u].exits
  <1> SUFFICES ASSUME \A u \in Tasks : ~(task[u].order = o /\ Recording(u) /\ task[u].exits)
               PROVE  FALSE
    OBVIOUS
  <1>1. position[o] = orders[o].qty /\ o \in Ids
    BY DEF Stopped, Placed
  <1>2. fill[o] \in Closings(o) /\ orders[fill[o]].square \in BOOLEAN /\ ~orders[fill[o]].square
    BY <1>1, TypeFacts DEF Frame, StopsShaped, Closings, Placed, Order
  <1>3. \A x \in Closings(o) : ~orders[x].square
    BY <1>2 DEF Fine, OneClose
  <1>4. \A u \in Tasks : ~(task[u].order = o /\ Recording(u))
    <2> SUFFICES ASSUME NEW u \in Tasks, task[u].order = o, Recording(u) PROVE FALSE
      OBVIOUS
    <2>1. task[u].exit \in Closings(o) /\ orders[task[u].exit].square = ~task[u].exits
      BY ExitCloses DEF Recording
    <2> QED  BY <1>3, <2>1
  <1>5. Closed(o) + position[o] = orders[o].qty
    BY <1>2, <1>3, <1>4 DEF Fine, PositionTells
  <1>6. Closed(o) > 0 /\ Closed(o) \in Nat
    BY <1>2, ClosedFacts DEF Frame
  <1>7. position[o] \in Nat
    <2>1. position[o] \in Amounts
      BY <1>1, TypeFacts DEF Frame
    <2> QED  BY <2>1, Numbers
  <1> QED  BY <1>1, <1>5, <1>6, <1>7

\* So it is not the one an exit finds the stop of.
LEMMA FoundWaits ==
  ASSUME Frame, Guards, NEW t \in Tasks, Finds(t), NEW o \in Placed, Fine(o)
  PROVE  o # task[t].order
  <1> SUFFICES ASSUME o = task[t].order PROVE FALSE
    OBVIOUS
  <1>1. task[t].pc = "look" /\ fill[o] # 0 /\ Stopped(o) /\ task[t].exits
    BY DEF Finds, Guards, Looks, Frame, TasksShaped
  <1>2. PICK u \in Tasks : task[u].order = o /\ Recording(u) /\ task[u].exits
    BY <1>1, FineSold
  <1>3. u = t
    BY <1>1, <1>2 DEF Frame, ExitsOnce
  <1> QED  BY <1>1, <1>2, <1>3 DEF Recording

\* The exit that finds a stop touches no other lot; the stop itself is to be matched.
LEMMA LotsFinds ==
  ASSUME Frame, NEW t \in Tasks, Finds(t), NEW o \in Placed, Fine(o), o # task[t].order
  PROVE  Fine(o)'
  <1>p. PICK p \in Placed : p = task[t].order
    BY DEF Finds, Frame, TasksShaped
  <1>1. /\ task[t].pc = "look" /\ fill[p] # 0 /\ UNCHANGED orders
        /\ tracked' = Noted(fill[p]) /\ Becomes(t, "match", position[p], fill[p])
        /\ position' = [position EXCEPT ![p] = 0]
    BY <1>p DEF Finds
  <1>0. /\ TypeOK /\ o \in Ids /\ p \in Ids /\ position \in [Ids -> Amounts] /\ p # 0
        /\ fill[p] \in Placed /\ orders[fill[p]].closes = p
    <2>1. TypeOK /\ StopsShaped
      BY DEF Frame
    <2>2. o \in Ids /\ p \in Ids /\ p # 0
      BY Numbers DEF Placed
    <2>3. position \in [Ids -> Amounts]
      BY <2>1, TypeFacts
    <2>4. fill[p] \in Placed /\ orders[fill[p]].closes = p
      BY <1>1, <2>1, <2>2 DEF StopsShaped
    <2> QED  BY <2>1, <2>2, <2>3, <2>4
  <1>2. /\ task'[t].pc = "match" /\ task'[t].order = p /\ task'[t].exit = fill[p]
        /\ \A u \in Tasks \ {t} : task'[u] = task[u]
    BY <1>p, <1>0, <1>1, BecomesFields
  <1>3. SameLot(o)
    BY <1>p, <1>0, <1>1, LotKept
  <1>4. SameWork(o) /\ Looked(o)
    BY <1>p, <1>2, WorkKept, LookedKept
  <1>5. Tracks(o)
    <2>1. CASE o = fill[p]
      BY <1>0, <1>2, <2>1 DEF Tracks, ToMatch
    <2>2. CASE o # fill[p]
      <3>1. tracked'[o] = tracked[o]
        BY <1>0, <1>1, <2>2, NotedFacts
      <3> QED  BY <1>1, <1>2, <3>1, TracksKept
    <2> QED  BY <2>1, <2>2
  <1> QED  BY <1>3, <1>4, <1>5, FineKept

\* A stop executes: its lot waits for the exit that finds it.
LEMMA LotsTrigger ==
  ASSUME Frame, Guards, NEW p \in Ids, Trigger(p), NEW o \in Placed', ~Astray(o)',
         o \in Placed => Fine(o)
  PROVE  IF o = p THEN Waits(o)' ELSE Fine(o)'
  <1>1. /\ p \in resting /\ p \in Placed /\ UNCHANGED <<rows, tracked, position, task>>
        /\ astray' = astray \cup Shared(p, FALSE)
                       \cup (IF \E u \in Tasks : Past(u, p) THEN {<<p, "raced">>} ELSE {})
    BY TriggerForm
  <1>2. PICK x \in Ids, r \in Order :
          /\ Adds(x, r) /\ r.qty = Lot /\ r.closes = p /\ ~r.square
          /\ fill' = [fill EXCEPT ![p] = x]
    BY TriggerForm
  <1>3. r.qty > 0
    BY <1>2, Numbers
  <1>4. /\ Placed' = Placed \cup {x} /\ x \notin Placed
        /\ \A y \in Ids \ {x} : orders'[y] = orders[y]
        /\ \A q \in Ids : Closings(q)' = IF q = r.closes THEN Closings(q) \cup {x} ELSE Closings(q)
    BY <1>2, <1>3, AddsFacts DEF Adds
  <1>5. p # 0 /\ x # 0 /\ p # x /\ fill \in [Ids -> 0 .. MaxOrders]
    <2>1. p # 0 /\ x # 0 /\ p # x
      BY <1>1, <1>4, Numbers
    <2> QED  BY <2>1, TypeFacts DEF Frame
  <1>6. CASE o = x
    <2>1. position'[x] = 0 /\ tracked'[x] = 0
      BY <1>1, <1>2, <1>3, NewOrder
    <2>2. Fine(x)'
      BY <1>1, <1>2, <1>3, <1>5, <2>1, AddsNew
    <2> QED  BY <1>5, <1>6, <2>2
  <1>7. CASE o # x /\ o # p
    <2>1. o \in Placed /\ Fine(o)
      BY <1>4, <1>7
    <2>2. SameLot(o)
      BY <1>1, <1>2, <1>3, <1>7, <2>1, AddsOther
    <2>3. SameWork(o) /\ Looked(o) /\ Tracks(o)
      BY <1>1, <2>1 DEF SameWork, Looked, Tracks, Matching, Recording, Fine, OneClose
    <2>4. Fine(o)'
      BY <2>1, <2>2, <2>3, FineKept
    <2> QED  BY <1>7, <2>4
  <1>8. CASE o = p
    <2>1. Fine(p) /\ ~Astray(p)' /\ ~Marked(p)
      BY <1>1, <1>8 DEF Astray, Marked, Reasons
    <2>2. /\ position[p] = orders[p].qty /\ \A y \in Closings(p) : orders[y].square
          /\ orders[p].closes = 0
      BY <1>1, <2>1 DEF Guards, StopsGuarded, Guarded, Frame, StopsShaped
    <2>3. Shared(p, FALSE) = {} /\ ~\E u \in Tasks : Past(u, p)
      BY <1>1, <2>1 DEF Shared, Astray, Reasons
    <2>4. Closings(p) = {}
      <3> SUFFICES ASSUME NEW y \in Closings(p) PROVE FALSE
        OBVIOUS
      <3>1. orders[y].square = FALSE
        BY <2>3 DEF Shared
      <3> QED  BY <2>2, <3>1
    <2>5. \A u \in Tasks : task[u].order = p => task[u].pc = "look"
      <3>1. \A u \in Tasks : task[u].exits \in BOOLEAN
        BY TypeFacts DEF Frame, Task
      <3>2. \A u \in Tasks : task[u].order = p => task[u].exits # FALSE
        BY <2>3 DEF Shared
      <3> QED  BY <2>3, <3>1, <3>2 DEF Past
    <2>6. fill'[p] = x /\ Closings(p)' = {x} /\ orders'[p] = orders[p]
      BY <1>2, <1>4, <1>5, <2>4
    <2>7. \A s \in rows : s.exit # x
      BY <1>4 DEF Frame, RowsTrue
    <2>8. tracked[p] \in {0, orders[p].qty}
      <3>1. \A u \in Tasks : task[u].order = p => ~Matching(u)
        BY <2>5 DEF Matching, Recording
      <3>2. tracked[p] \in {0, orders[p].qty - Closed(p)}
        BY <2>1, <2>2, <3>1 DEF Fine, TracksOpen
      <3>3. Closed(p) = 0
        BY <2>4, ClosedFacts DEF Frame
      <3>4. orders[p].qty \in Nat
        <4>1. orders[p] \in Order
          BY <1>1, TypeFacts DEF Frame, Placed
        <4> QED  BY <4>1, Numbers DEF Order
      <3> QED  BY <3>2, <3>3, <3>4
    <2>9. Waits(p)'
      BY <1>1, <1>5, <2>2, <2>5, <2>6, <2>7, <2>8 DEF Waits, Row
    <2> QED  BY <1>8, <2>9
  <1> QED  BY <1>6, <1>7, <1>8

\* A lot that is fine stays so until its stop executes.
LEMMA FineRuns ==
  ASSUME Inv, Frame, Guards, Books, NEW t \in Tasks, Step(t), NEW o \in Placed', ~Astray(o)',
         o \in Placed => Fine(o)
  PROVE  Fine(o)'
  <1>0. TypeOK
    BY DEF Frame
  <1>1. ASSUME UNCHANGED orders PROVE o \in Placed /\ Fine(o)
    BY <1>1 DEF Placed
  <1>2. CASE Query(t)
    <2>1. /\ Advance(t) /\ Reads(task[t].order) /\ task[t].order \in Placed
          /\ orders[task[t].order].filled \/ Done(t)
      BY <1>2, QueryForm
    <2>2. o \in Placed /\ Fine(o) /\ astray \subseteq astray'
      BY <1>1, <2>1 DEF Advance, Reads
    <2> QED  BY <2>1, <2>2, LotsAdvance
  <1>3. CASE Matches(t) \/ Fails(t) \/ Balance(t) \/ PostLost(t) \/ Passes(t) \/ Cancel(t)
    <2>1. /\ Advance(t) /\ UNCHANGED tracked /\ (task[t].pc = "query" => Done(t))
          /\ astray \subseteq astray'
      BY <1>3, AdvanceForm
    <2>2. o \in Placed /\ Fine(o)
      BY <1>1, <2>1 DEF Advance
    <2> QED  BY <2>1, <2>2, LotsAdvance
  <1>4. CASE Look(t)
    <2>1. CASE Finds(t)
      BY <1>1, <2>1, FoundWaits, LotsFinds DEF Finds
    <2> QED  BY <1>3, <1>4, <2>1, LookForm
  <1>5. CASE Post(t)
    BY <1>5, LotsPost
  <1>6. CASE Reconcile(t)
    <2>1. /\ task[t].pc = "unknown" /\ UNCHANGED <<orders, rows, tracked, position>>
          /\ o \in Placed /\ Fine(o)
      BY <1>1, <1>6, ReconcileForm
    <2>2. CASE Done(t) /\ astray' = astray \cup Cut(t)
      <3>1. task[t].order = o => ~Matching(t)
        BY <2>1, <2>2 DEF Matching, Recording, Cut, Astray, Reasons
      <3> QED  BY <2>1, <2>2, <3>1, LotsDone
    <2>3. ASSUME NEW x \in Closings(task[t].order), Becomes(t, "record", task[t].want, x),
                 orders[x].square = ~task[t].exits, task[t].exits => x = task[t].exit,
                 ~task[t].exits => \A y \in Closings(task[t].order) : orders[y].square => y <= x
          PROVE  Fine(o)'
      BY <2>1, <2>3, LotsAnswers
    <2> QED  BY <1>6, <2>2, <2>3, ReconcileForm
  <1>7. CASE Record(t)
    BY <1>1, <1>7, RecordForm, LotsRecord
  <1>8. CASE Match(t)
    BY <1>1, <1>8, MatchForm, LotsMatch
  <1>9. CASE Store(t)
    <2>1. Done(t) /\ UNCHANGED <<orders, position, tracked>> /\ task[t].pc = "row"
      BY <1>0, <1>9, EndForm DEF Store, exchange
    <2> QED  BY <1>1, <2>1, LotsDone DEF Matching, Recording
  <1>10. CASE WriteFails(t)
    <2>1. /\ Done(t) /\ UNCHANGED <<orders, position, tracked>> /\ astray' = astray \cup Cut(t)
          /\ task[t].pc \in Landed
      BY <1>0, <1>10, EndForm DEF WriteFails, exchange, Landed
    <2>2. task[t].exit # 0
      BY <2>1 DEF Frame, TasksShaped
    <2>3. task[t].order # o /\ (task[t].exit # o \/ task[t].pc # "match")
      BY <2>1, <2>2 DEF Cut, Astray, Reasons
    <2> QED  BY <1>1, <2>1, <2>3, LotsDone
  <1> QED  BY <1>2, <1>3, <1>4, <1>5, <1>6, <1>7, <1>8, <1>9, <1>10 DEF Step

LEMMA FineStep ==
  ASSUME Inv, Frame, Guards, Books, [Next]_vars, NEW o \in Placed', ~Astray(o)',
         o \in Placed => Fine(o)
  PROVE  Fine(o)' \/ Waits(o)'
  <1>0. TypeOK
    BY DEF Frame
  <1>1. ASSUME UNCHANGED orders PROVE o \in Placed /\ Fine(o)
    BY <1>1 DEF Placed
  <1>8. ASSUME o \in Placed, SameLot(o), UNCHANGED task, tracked'[o] = tracked[o] PROVE Fine(o)'
    <2>1. SameWork(o) /\ Looked(o) /\ Tracks(o)
      BY <1>8 DEF SameWork, Looked, Tracks, Matching, Recording, Fine, OneClose
    <2> QED  BY <1>8, <2>1, FineKept
  <1>2. ASSUME NEW side \in Sides, NEW entry \in BOOLEAN, Place(side, entry)
        PROVE  Fine(o)'
    BY <1>2, <1>8, LotsPlace
  <1>3. ASSUME NEW p \in Ids, QueryOrder(p) PROVE Fine(o)'
    <2>1. p \in Placed /\ Reads(p) /\ UNCHANGED <<orders, position, task>>
      BY <1>3 DEF QueryOrder, Reads, exchange
    <2> QED  BY <1>1, <2>1, LotsQueryOrder
  <1>4. ASSUME NEW p \in Ids, Trigger(p) PROVE Fine(o)' \/ Waits(o)'
    BY <1>4, LotsTrigger
  <1>5. ASSUME NEW t \in Tasks, NEW p \in Ids, Claim(t, p) \/ StartExit(t, p) PROVE Fine(o)'
    <2>1. PICK exits \in BOOLEAN, pc \in {"query", "look", "balance"}, want \in Amounts :
            /\ exits <=> pc # "query"
            /\ Begin(t, p, pc, exits, want) /\ p \in Placed /\ task[t].pc = "idle"
            /\ UNCHANGED <<orders, position, tracked>>
            /\ exits => orders[p].closes = 0
      BY <1>5, BeginForm
    <2> QED  BY <1>1, <2>1, LotsBegins
  <1>6. CASE Restart
    BY <1>1, <1>6, LotsRestart DEF Restart, exchange
  <1>7. CASE UNCHANGED vars
    <2>1. UNCHANGED <<orders, position, tracked, task, astray>>
      BY <1>7 DEF vars, exchange, memory
    <2>2. SameLot(o)
      BY <1>1, <2>1, LotKept
    <2> QED  BY <1>1, <1>8, <2>1, <2>2
  <1> QED  BY <1>2, <1>3, <1>4, <1>5, <1>6, <1>7, FineRuns DEF Next

\* Steps that leave a lot, its stop and its rows alone leave it waiting.
LEMMA WaitsKept ==
  ASSUME NEW o \in Placed, Waits(o), fill'[o] = fill[o], Row(o, fill[o])' = Row(o, fill[o]),
         Closings(o)' = Closings(o), orders'[o] = orders[o], position'[o] = position[o],
         tracked'[o] \in {0, tracked[o]},
         \A u \in Tasks : task'[u].order = o =>
           \/ task'[u].pc \in {"query", "look"}
           \/ task[u].order = o /\ task'[u].pc = task[u].pc
  PROVE  Waits(o)'
  <1>1. tracked'[o] \in {0, orders'[o].qty}
    BY DEF Waits
  <1>2. \A u \in Tasks : task'[u].order = o => task'[u].pc \in {"query", "look"}
    BY DEF Waits
  <1> QED  BY <1>1, <1>2 DEF Waits

\* What is known of a lot that waits.
LEMMA WaitsFacts ==
  ASSUME Frame, NEW o \in Placed, Waits(o)
  PROVE  /\ o \in Ids /\ o # 0 /\ orders[o].closes = 0 /\ orders[o].filled /\ Stopped(o)
         /\ fill[o] \in Placed /\ fill[o] # 0 /\ o \notin resting
         /\ orders[fill[o]].qty = orders[o].qty /\ ~orders[fill[o]].square
         /\ \A t \in Tasks : task[t].order = o => task[t].exit = 0 /\ ~Matching(t)
  <1>1. o \in Ids /\ o # 0 /\ fill[o] # 0 /\ Stopped(o)
    BY Numbers DEF Placed, Waits, Stopped
  <1>2. \A t \in Tasks : task[t].order = o => task[t].exit = 0 /\ ~Matching(t)
    BY DEF Waits, Frame, TasksShaped, Landed, Matching, Recording
  <1> QED  BY <1>1, <1>2 DEF Frame, StopsShaped

\* Reading the order back would be noted: a part of it is closed.
LEMMA WaitsUnread ==
  ASSUME Frame, NEW o \in Placed, Waits(o), ~Astray(o)', NEW p \in Placed, Reads(p)
  PROVE  o # p /\ tracked'[o] = tracked[o]
  <1>1. Closings(o) # {} /\ orders[o].filled
    BY WaitsFacts DEF Waits
  <1> QED  BY <1>1, ReadLot

\* Another order executes that does not close it.
LEMMA WaitsAdds ==
  ASSUME Frame, NEW x \in Ids, NEW r \in Order, r.qty > 0, Adds(x, r), NEW o \in Placed,
         o # r.closes
  PROVE  Closings(o)' = Closings(o) /\ orders'[o] = orders[o] /\ o \in Ids
  <1>1. o \in Ids /\ o # x
    BY DEF Placed, Adds
  <1> QED  BY <1>1, AddsFacts

\* The exit that finds the stop books it: all of the lot is sold.
LEMMA WaitsFound ==
  ASSUME Frame, NEW o \in Placed, Waits(o), NEW t \in Tasks, Finds(t), task[t].order = o
  PROVE  Fine(o)'
  <1> DEFINE x == fill[o]
  <1>1. /\ UNCHANGED orders /\ tracked' = Noted(x) /\ Becomes(t, "match", position[o], x)
        /\ position' = [position EXCEPT ![o] = 0] /\ position[o] = orders[o].qty
        /\ Closings(o) = {x} /\ tracked[o] \in {0, orders[o].qty}
        /\ \A u \in Tasks : task[u].order = o => task[u].pc \in {"query", "look"}
    BY DEF Finds, Waits
  <1>2. /\ o \in Ids /\ x \in Placed /\ orders[x].closes = o /\ orders[x].qty = orders[o].qty
        /\ orders[o].closes = 0 /\ x # 0 /\ o # 0 /\ x # o /\ ~orders[x].square
    <2>1. x \in Closings(o)
      BY <1>1
    <2> QED  BY <2>1, WaitsFacts DEF Closings
  <1>0. TypeOK /\ position \in [Ids -> Amounts]
    BY TypeFacts DEF Frame
  <1>3. /\ task'[t].pc = "match" /\ task'[t].exits = task[t].exits /\ task'[t].order = o
        /\ task'[t].exit = x /\ task'[t].want = position[o]
        /\ \A u \in Tasks \ {t} : task'[u] = task[u]
    BY <1>0, <1>1, BecomesFields
  <1>4. Closings(o)' = {x} /\ Closed(o)' = Closed(o) /\ Closed(o) = orders[o].qty
    <2>1. Closings(o)' = Closings(o) /\ Closed(o)' = Closed(o)
      BY <1>1, KeptOrders DEF Frame
    <2>2. x \in Closings(o) /\ Closings(o) = {x}
      BY <1>1
    <2>3. Closed(o) = orders[x].qty
      BY <2>2, ClosedFacts DEF Frame
    <2> QED  BY <1>2, <2>1, <2>2, <2>3
  <1>5. orders[o].qty \in Nat /\ orders[x].qty \in Nat
    <2>1. orders[o] \in Order /\ orders[x] \in Order
      BY <1>2, TypeFacts DEF Frame, Placed
    <2> QED  BY <2>1, Numbers DEF Order
  <1>6. tracked'[o] = tracked[o] /\ position'[o] = 0
    BY <1>0, <1>1, <1>2, NotedFacts
  <1>7. \A u \in Tasks \ {t} : task'[u].order = o =>
          task'[u].pc \in {"query", "look"} /\ (task'[u].pc # "query" => task'[u].exits)
    BY <1>1, <1>3 DEF Frame, TasksShaped
  <1> HIDE DEF x
  <1>8. OneClose(o)'
    BY <1>1, <1>2, <1>3, <1>4, <1>7 DEF OneClose
  <1>9. \A u \in Tasks : task'[u].order = o => ~Recording(u)' /\ (Matching(u)' => u = t)
    BY <1>3, <1>7 DEF Recording, Matching
  <1>10. PositionTells(o)'
    <2>1. Closed(o)' + position'[o] = orders'[o].qty
      BY <1>1, <1>4, <1>5, <1>6
    <2> QED  BY <1>9, <2>1 DEF PositionTells
  <1>11. TracksOpen(o)'
    <2>1. Before(t, o)' = orders[o].qty
      <3>1. Before(t, o)' = orders[o].qty - orders[o].qty + orders[x].qty
        BY <1>1, <1>3, <1>4 DEF Before
      <3> QED  BY <1>2, <1>5, <3>1
    <2>2. Matching(t)'
      BY <1>3 DEF Matching
    <2>3. tracked'[o] \in {0, Before(t, o)'} /\ task'[t].want = Before(t, o)'
      BY <1>1, <1>3, <1>6, <2>1
    <2> QED  BY <1>1, <1>2, <1>3, <1>9, <2>2, <2>3 DEF TracksOpen
  <1> QED  BY <1>8, <1>10, <1>11 DEF Fine

\* A step of a task on another order.
LEMMA WaitsOther ==
  ASSUME Frame, NEW o \in Placed, Waits(o), ~Astray(o)', NEW t \in Tasks, Step(t),
         task[t].order # o
  PROVE  Waits(o)'
  <1>0. TypeOK
    BY DEF Frame
  <1>1. /\ o \in Ids /\ o # 0 /\ orders[o].closes = 0 /\ tracked \in [Ids -> Amounts]
        /\ position \in [Ids -> Amounts]
    BY WaitsFacts, TypeFacts DEF Frame
  <1>2. fill' = fill
    BY DEF Step, Query, Matches, Look, Cancel, Fails, Balance, Post, PostLost, Reconcile, Record,
       Match, Store, WriteFails, exchange
  <1>3. ASSUME Done(t) \/ \E pc, want, x : Becomes(t, pc, want, x)
        PROVE  \A u \in Tasks : task'[u].order = o => task[u].order = o /\ task'[u].pc = task[u].pc
    <2>1. CASE Done(t)
      BY <1>0, <1>1, <2>1, DoneFields
    <2>2. ASSUME NEW pc, NEW want, NEW x, Becomes(t, pc, want, x)
          PROVE  task'[t].order = task[t].order /\ \A u \in Tasks \ {t} : task'[u] = task[u]
      BY <1>0, <2>2, BecomesFields
    <2> QED  BY <1>3, <2>1, <2>2
  <1>4. ASSUME UNCHANGED <<orders, rows>>, position'[o] = position[o], tracked'[o] = tracked[o],
               Done(t) \/ \E pc, want, x : Becomes(t, pc, want, x)
        PROVE  Waits(o)'
    <2>1. Closings(o)' = Closings(o) /\ Row(o, fill[o])' = Row(o, fill[o])
      BY <1>2, <1>4, KeptOrders DEF Frame, Row
    <2> QED  BY <1>2, <1>3, <1>4, <2>1, WaitsKept
  <1>5. CASE Query(t)
    <2>1. Advance(t) /\ Reads(task[t].order) /\ task[t].order \in Placed
      BY <1>5, QueryForm
    <2> QED  BY <1>4, <2>1, WaitsUnread DEF Advance
  <1>6. CASE Matches(t) \/ Fails(t) \/ Balance(t) \/ PostLost(t) \/ Passes(t) \/ Cancel(t)
    BY <1>4, <1>6, AdvanceForm DEF Advance
  <1>7. CASE Finds(t)
    <2>1. PICK p \in Placed : p = task[t].order
      BY <1>7 DEF Finds, Frame, TasksShaped
    <2>2. /\ fill[p] \in Placed /\ orders[fill[p]].closes = p /\ p # 0
          /\ tracked' = Noted(fill[p]) /\ position' = [position EXCEPT ![p] = 0]
          /\ UNCHANGED <<orders, rows>> /\ Becomes(t, "match", position[p], fill[p])
      BY <1>7, <2>1, Numbers DEF Finds, Frame, StopsShaped, Placed
    <2>3. tracked'[o] = tracked[o] /\ position'[o] = position[o]
      BY <1>1, <2>1, <2>2, NotedFacts
    <2> QED  BY <1>4, <2>2, <2>3
  <1>8. CASE Post(t)
    <2>1. UNCHANGED <<rows, tracked, position>> /\ task[t].order \in Placed
      BY <1>8, PostForm
    <2>2. PICK x \in Ids, r \in Order, pc \in {"record", "unknown"} :
            /\ Adds(x, r) /\ r.qty > 0 /\ r.closes = task[t].order
            /\ Becomes(t, pc, task[t].want, x)
      BY <1>8, PostForm
    <2>3. Closings(o)' = Closings(o) /\ orders'[o] = orders[o]
      BY <2>2, WaitsAdds
    <2>4. Row(o, fill[o])' = Row(o, fill[o])
      BY <1>2, <2>1 DEF Row
    <2> QED  BY <1>2, <1>3, <2>1, <2>2, <2>3, <2>4, WaitsKept
  <1>9. CASE Reconcile(t)
    BY <1>4, <1>9, ReconcileForm
  <1>10. CASE Record(t)
    <2>1. /\ task[t].exit \in Placed /\ orders[task[t].exit].closes = task[t].order
          /\ task[t].order \in Placed /\ task[t].order # 0 /\ task[t].order \in Ids
      BY <1>10, RecordForm, Numbers DEF Frame, TasksShaped, Landed, Placed
    <2>2. tracked'[o] = tracked[o]
      BY <1>1, <1>10, <2>1, RecordForm, NotedFacts
    <2>3. position'[o] = position[o]
      BY <1>1, <1>10, RecordTypes
    <2>4. UNCHANGED <<orders, rows>> /\ \E pc, want, x : Becomes(t, pc, want, x)
      BY <1>10, RecordForm
    <2> QED  BY <1>4, <2>2, <2>3, <2>4
  <1>11. CASE Match(t)
    <2>1. /\ task[t].exit \in Placed /\ orders[task[t].exit].closes = task[t].order
          /\ task[t].order # 0
      BY <1>11, MatchForm, Numbers DEF Frame, TasksShaped, Landed, Placed
    <2>2. PICK new : tracked' = [tracked EXCEPT ![task[t].order] = new, ![task[t].exit] = 0]
      BY <1>11, MatchForm
    <2>3. tracked'[o] = tracked[o]
      BY <1>1, <2>1, <2>2
    <2>4. UNCHANGED <<orders, rows, position>> /\ \E pc, want, x : Becomes(t, pc, want, x)
      BY <1>11, MatchForm
    <2> QED  BY <1>4, <2>3, <2>4
  <1>12. CASE Store(t)
    <2> DEFINE row == [entry |-> task[t].order, exit |-> task[t].exit,
                       qty |-> orders[task[t].exit].qty]
    <2>1. /\ Done(t) /\ UNCHANGED <<orders, position, tracked>>
          /\ rows' = IF Row(row.entry, row.exit) # {} THEN rows ELSE rows \cup {row}
      BY <1>0, <1>12, EndForm DEF Store, exchange
    <2>2. row.entry # o
      OBVIOUS
    <2> HIDE DEF row
    <2>3. Row(o, fill[o])' = Row(o, fill[o])
      BY <1>2, <2>1, <2>2 DEF Row
    <2>4. Closings(o)' = Closings(o)
      BY <2>1, KeptOrders DEF Frame
    <2> QED  BY <1>2, <1>3, <2>1, <2>3, <2>4, WaitsKept
  <1>13. CASE WriteFails(t)
    BY <1>0, <1>4, <1>13, EndForm DEF WriteFails, exchange
  <1> QED  BY <1>5, <1>6, <1>7, <1>8, <1>9, <1>10, <1>11, <1>12, <1>13, LookForm DEF Step

\* A step of a task on the lot itself: it gives up, or finds the stop.
LEMMA WaitsOwn ==
  ASSUME Frame, NEW o \in Placed, Waits(o), ~Astray(o)', NEW t \in Tasks, Step(t),
         task[t].order = o
  PROVE  Fine(o)' \/ Waits(o)'
  <1>0. TypeOK /\ task[t].pc \in {"query", "look"} /\ o # 0
    BY WaitsFacts DEF Frame, Waits
  <1>1. ~Query(t)
    BY WaitsUnread, QueryForm
  <1>2. ~Passes(t)
    BY WaitsFacts DEF Passes, Astray, Reasons
  <1>3. CASE Finds(t)
    BY <1>3, WaitsFound
  <1>4. CASE Fails(t)
    <2>1. Done(t) /\ UNCHANGED <<orders, rows, fill, position, tracked>>
      BY <1>0, <1>4, EndForm DEF Fails, exchange
    <2>2. \A u \in Tasks : task'[u].order = o => task'[u] = task[u]
      BY <1>0, <2>1, DoneFields
    <2>3. Closings(o)' = Closings(o) /\ Row(o, fill[o])' = Row(o, fill[o])
      BY <2>1, KeptOrders DEF Frame, Row
    <2> QED  BY <2>1, <2>2, <2>3, WaitsKept
  <1>5. Query(t) \/ Fails(t) \/ Look(t)
    BY <1>0 DEF Step, Matches, Cancel, Balance, Post, PostLost, Reconcile, Record, Match, Store,
       WriteFails
  <1> QED  BY <1>1, <1>2, <1>3, <1>4, <1>5, LookForm

LEMMA WaitsStep ==
  ASSUME Frame, Guards, [Next]_vars, NEW o \in Placed, Waits(o), ~Astray(o)'
  PROVE  Fine(o)' \/ Waits(o)'
  <1>0. TypeOK /\ o \in Ids
    BY WaitsFacts DEF Frame
  <1>1. ASSUME UNCHANGED <<orders, rows, fill, task>>, position'[o] = position[o],
               tracked'[o] = tracked[o]
        PROVE  Waits(o)'
    <2>1. Closings(o)' = Closings(o) /\ Row(o, fill[o])' = Row(o, fill[o])
      BY <1>1, KeptOrders DEF Frame, Row
    <2> QED  BY <1>1, <2>1, WaitsKept
  <1>2. ASSUME NEW side \in Sides, NEW entry \in BOOLEAN, Place(side, entry)
        PROVE  Waits(o)'
    <2>1. o \in Placed' /\ SameLot(o) /\ UNCHANGED <<rows, task>>
          /\ tracked'[o] = tracked[o] /\ fill'[o] = fill[o]
      <3>1. o \in Placed'
        <4>1. PICK x \in Ids, r \in Order : Adds(x, r) /\ r.qty = Lot /\ r.closes = 0
          BY <1>2, PlaceForm
        <4>2. r.qty > 0
          BY <4>1, Numbers
        <4> QED  BY <4>1, <4>2, AddsFacts
      <3> QED  BY <1>2, <3>1, LotsPlace
    <2>2. Row(o, fill[o])' = Row(o, fill[o])
      BY <2>1 DEF Row
    <2> QED  BY <2>1, <2>2, WaitsKept DEF SameLot
  <1>3. ASSUME NEW p \in Ids, QueryOrder(p) PROVE Waits(o)'
    <2>1. p \in Placed /\ Reads(p) /\ UNCHANGED <<orders, rows, fill, position, task>>
      BY <1>3 DEF QueryOrder, Reads, exchange
    <2> QED  BY <1>1, <2>1, WaitsUnread
  <1>4. ASSUME NEW p \in Ids, Trigger(p) PROVE Waits(o)'
    <2>1. /\ p \in resting /\ p # o /\ p \in Placed
          /\ UNCHANGED <<rows, tracked, position, task>>
      <3>1. p \in resting /\ p \in Placed /\ UNCHANGED <<rows, tracked, position, task>>
        BY <1>4, TriggerForm
      <3>2. o \notin resting
        BY WaitsFacts
      <3> QED  BY <3>1, <3>2
    <2>2. PICK x \in Ids, r \in Order :
            Adds(x, r) /\ r.qty = Lot /\ r.closes = p /\ fill' = [fill EXCEPT ![p] = x]
      BY <1>4, TriggerForm
    <2>3. r.qty > 0 /\ fill \in [Ids -> 0 .. MaxOrders]
      <3>1. r.qty > 0
        BY <2>2, Numbers
      <3> QED  BY <1>0, <3>1, TypeFacts
    <2>4. Closings(o)' = Closings(o) /\ orders'[o] = orders[o]
      BY <2>1, <2>2, <2>3, WaitsAdds
    <2>5. fill'[o] = fill[o] /\ Row(o, fill[o])' = Row(o, fill[o])
      BY <1>0, <2>1, <2>2, <2>3 DEF Row
    <2> QED  BY <2>1, <2>4, <2>5, WaitsKept
  <1>5. ASSUME NEW t \in Tasks, NEW p \in Ids, Claim(t, p) \/ StartExit(t, p) PROVE Waits(o)'
    <2>1. PICK exits \in BOOLEAN, pc \in {"query", "look", "balance"}, want \in Amounts :
            /\ Begin(t, p, pc, exits, want) /\ UNCHANGED <<orders, rows, position, tracked>> /\ Stays
            /\ pc = "balance" => ~Stopped(p)
      BY <1>5, BeginForm
    <2>2. /\ task'[t] = Doing(pc, exits, p, want) /\ \A u \in Tasks \ {t} : task'[u] = task[u]
      BY <1>0, <2>1, TypeFacts DEF Begin
    <2>3. task'[t].pc = pc /\ task'[t].order = p
      BY <2>2 DEF Doing
    <2>4. \A u \in Tasks : task'[u].order = o =>
            \/ task'[u].pc \in {"query", "look"}
            \/ task[u].order = o /\ task'[u].pc = task[u].pc
      BY <2>1, <2>2, <2>3, WaitsFacts
    <2>5. fill' = fill /\ Closings(o)' = Closings(o) /\ Row(o, fill[o])' = Row(o, fill[o])
      BY <2>1, KeptOrders DEF Frame, Row, Stays
    <2> QED  BY <2>1, <2>4, <2>5, WaitsKept
  <1>6. CASE Restart
    <2>1. /\ UNCHANGED <<orders, rows, fill>> /\ tracked' = [p \in Ids |-> 0] /\ position' = saved
          /\ task' = [t \in Tasks |-> Idle] /\ astray' = astray \cup UNION {Cut(t) : t \in Tasks}
      BY <1>6 DEF Restart, exchange
    <2>2. position'[o] = position[o]
      <3>1. <<o, "cut">> \notin astray'
        BY DEF Astray, Reasons
      <3> QED  BY <1>0, <2>1, <3>1, SavedBack
    <2>3. \A t \in Tasks : task'[t].order # o
      BY <2>1, IdleTask, WaitsFacts
    <2>4. Closings(o)' = Closings(o) /\ Row(o, fill[o])' = Row(o, fill[o])
      BY <2>1, KeptOrders DEF Frame, Row
    <2> QED  BY <1>0, <2>1, <2>2, <2>3, <2>4, WaitsKept
  <1>7. CASE UNCHANGED vars
    BY <1>1, <1>7 DEF vars, exchange, memory
  <1> QED  BY <1>2, <1>3, <1>4, <1>5, <1>6, <1>7, WaitsOther, WaitsOwn DEF Next

\* What happened to an order stays noted.
LEMMA Noting == [Next]_vars => astray \subseteq astray'
  <1>1. ASSUME NEW t \in Tasks, Step(t) PROVE astray \subseteq astray'
    BY <1>1 DEF Step, Query, Matches, Look, Cancel, Fails, Balance, Post, PostLost, Reconcile,
           Record,
       Match, Store, WriteFails
  <1>2. ASSUME NEW o \in Ids, QueryOrder(o) \/ Trigger(o) PROVE astray \subseteq astray'
    BY <1>2 DEF QueryOrder, Trigger
  <1>3. ASSUME NEW t \in Tasks, NEW o \in Ids, Claim(t, o) \/ StartExit(t, o)
        PROVE  astray \subseteq astray'
    BY <1>3 DEF Claim, StartExit
  <1>4. ASSUME NEW side \in Sides, NEW entry \in BOOLEAN, Place(side, entry)
        PROVE  astray \subseteq astray'
    BY <1>4 DEF Place
  <1>5. Restart => astray \subseteq astray'
    BY DEF Restart
  <1>6. UNCHANGED vars => astray \subseteq astray'
    BY DEF vars
  <1> QED  BY <1>1, <1>2, <1>3, <1>4, <1>5, <1>6 DEF Next

LEMMA LotsStep == Inv /\ Frame /\ Guards /\ Books /\ Lots /\ [Next]_vars => Lots'
  <1> SUFFICES ASSUME Inv, Frame, Guards, Books, Lots, [Next]_vars, NEW o \in Placed', ~Astray(o)'
               PROVE  Fine(o)' \/ Waits(o)'
    BY DEF Lots
  <1>1. astray \subseteq astray'
    BY Noting
  <1>2. o \in Placed => Fine(o) \/ Waits(o)
    BY <1>1, AstrayGrows DEF Lots
  <1>3. CASE o \in Placed => Fine(o)
    BY <1>3, FineStep
  <1>4. CASE o \in Placed /\ Waits(o)
    BY <1>4, WaitsStep
  <1> QED  BY <1>2, <1>3, <1>4

LEMMA LotsInit == Init => Lots
  <1>1. Init => Placed = {}
    BY DEF Init, Placed
  <1> QED  BY <1>1 DEF Lots

\* An order nothing happened to is closed for at most its quantity: by one
\* square-off, or by exits that left its position what they sold.
LEMMA LotsClosed ==
  ASSUME Inv, Frame, NEW o \in Placed, Fine(o)
  PROVE  Closed(o) <= orders[o].qty
  <1>0. /\ Closed(o) \in Nat /\ orders[o].qty \in Nat /\ position[o] \in Nat /\ o # 0
        /\ Closings(o) = {} => Closed(o) = 0
    <2>1. orders[o] \in Order
      BY TypeFacts DEF Frame, Placed
    <2>2. Closed(o) \in Nat /\ (Closings(o) = {} => Closed(o) = 0)
      BY ClosedFacts DEF Frame
    <2>3. position[o] \in Amounts /\ o \in Ids
      BY TypeFacts DEF Frame, Placed
    <2> QED  BY <2>1, <2>2, <2>3, Numbers DEF Order
  <1>1. ASSUME NEW x \in Closings(o), orders[x].square
        PROVE  Closed(o) <= orders[o].qty
    <2>1. Closed(o) = orders[x].qty
      BY <1>1, SquareCloses DEF Fine
    <2> QED  BY <1>0, <2>1 DEF Closings, Frame, OrdersShaped
  <1>2. CASE Closings(o) = {}
    BY <1>0, <1>2
  <1>3. ASSUME NEW t \in Tasks, task[t].order = o, Recording(t),
               ~\E x \in Closings(o) : orders[x].square,
               Closed(o) + position[o] = orders[o].qty + orders[task[t].exit].qty
        PROVE  Closed(o) <= orders[o].qty
    <2>1. task[t].exit # 0 /\ task[t].pc \in {"unknown", "record"}
      BY <1>3 DEF Recording
    <2>2. task[t].exit \in Closings(o) /\ orders[task[t].exit].square = ~task[t].exits
      BY <1>3, <2>1, ExitCloses
    <2>3. task[t].exits
      BY <1>3, <2>2
    <2>4. task[t].want <= position[o] /\ orders[task[t].exit].qty <= task[t].want
      BY <1>3, <2>1, <2>3 DEF Frame, Bounded
    <2>5. task[t].want \in Nat /\ orders[task[t].exit].qty \in Nat
      <3>1. orders[task[t].exit] \in Order /\ task[t] \in Task
        BY <2>2, TypeFacts DEF Frame, Closings, Placed
      <3> QED  BY <3>1, Numbers DEF Order, Task
    <2> QED  BY <1>0, <1>3, <2>4, <2>5
  <1>4. CASE Closed(o) + position[o] = orders[o].qty
    BY <1>0, <1>4
  <1> QED  BY <1>1, <1>2, <1>3, <1>4 DEF Fine, PositionTells

\* A lot that waits for the exit to find its stop is closed by the stop alone.
LEMMA WaitsClosed ==
  ASSUME Frame, NEW o \in Placed, Waits(o)
  PROVE  Closed(o) = orders[o].qty
  <1>1. fill[o] \in Closings(o) /\ Closings(o) = {fill[o]}
    BY DEF Waits
  <1>2. Closed(o) = orders[fill[o]].qty
    BY <1>1, ClosedFacts DEF Frame
  <1> QED  BY <1>2, WaitsFacts

\* No row says that an order that closes nothing did.
LEMMA MatchedAsNone ==
  ASSUME Frame, NEW o \in Placed, orders[o].closes = 0
  PROVE  MatchedAs(o) = 0
  <1>1. \A e \in Ids : Row(e, o) = {}
    BY Numbers DEF Frame, RowsTrue, Row
  <1>2. {u \in Ids \X (1 .. Lot) : \E r \in Row(u[1], o) : u[2] <= r.qty} = {}
    BY <1>1
  <1>3. Cardinality({}) = 0
    BY FS_EmptySet
  <1> QED  BY <1>2, <1>3 DEF MatchedAs

\* Nothing was matched of a lot that waits.
LEMMA WaitsTracked ==
  ASSUME Frame, NEW o \in Placed, Waits(o), tracked[o] # 0
  PROVE  tracked[o] = Remaining(o)
  <1>1. \A x \in Ids : Row(o, x) = {}
    <2>1. ASSUME NEW x, NEW r \in Row(o, x) PROVE x = fill[o]
      BY <2>1, WaitsFacts DEF Row, Frame, RowsTrue, Closings, Waits
    <2> QED  BY <2>1 DEF Waits
  <1>2. MatchedBy(o) = 0
    <2>1. {u \in Ids \X (1 .. Lot) : \E r \in Row(o, u[1]) : u[2] <= r.qty} = {}
      BY <1>1
    <2>2. Cardinality({}) = 0
      BY FS_EmptySet
    <2> QED  BY <2>1, <2>2 DEF MatchedBy
  <1>3. MatchedAs(o) = 0
    BY WaitsFacts, MatchedAsNone
  <1>4. orders[o].qty \in Nat
    <2>1. orders[o] \in Order
      BY TypeFacts DEF Frame, Placed
    <2> QED  BY <2>1, Numbers DEF Order
  <1>5. Matched(o) = 0
    BY <1>2, <1>3 DEF Matched
  <1>6. orders[o].qty - Matched(o) = orders[o].qty
    BY <1>4, <1>5
  <1>7. tracked[o] = orders[o].qty
    BY DEF Waits
  <1> QED  BY <1>4, <1>6, <1>7, MaxTwo DEF Remaining

\* What memory tracks of an order nobody is closing is what the table leaves of it.
LEMMA FineTracked ==
  ASSUME Inv, Frame, Books, NEW o \in Placed, Fine(o), tracked[o] # 0, ~Astray(o),
         \A t \in Tasks : task[t].pc = "idle" \/ (task[t].order # o /\ task[t].exit # o)
  PROVE  tracked[o] = Remaining(o)
  <1>0. o # 0 /\ o \in Ids /\ Fine(o)
    BY Numbers DEF Placed
  <1>1. \A t \in Tasks : task[t].order # o
    BY <1>0, IdleTask DEF Frame, TasksShaped
  <1>2. orders[o].closes = 0
    BY <1>0 DEF Fine, TracksOpen, ToMatch
  <1>3. tracked[o] = orders[o].qty - Closed(o)
    BY <1>0, <1>1, <1>2 DEF Fine, TracksOpen
  <1>9. MatchedBy(o) \in Nat
    <2> DEFINE U == {u \in Ids \X (1 .. Lot) : \E r \in Row(o, u[1]) : u[2] <= r.qty}
    <2>1. Cardinality(U) \in Nat
      BY PairsFinite
    <2> QED  BY <2>1 DEF MatchedBy
  <1>4. Closed(o) = MatchedBy(o)
    <2>1. /\ Closed(o) = MatchedBy(o) + Unbooked(o)
          /\ Unbooked(o) = 0 \/ Stopped(o) \/ <<o, "raced">> \in astray
      BY <1>1, BooksTell DEF RowsTell, Busy, Astray, Reasons
    <2>2. fill[o] = 0 => Unbooked(o) = 0
      BY DEF Unbooked
    <2>3. Stopped(o) => fill[o] = 0
      BY <1>0, <1>1, FineSold
    <2>4. Unbooked(o) = 0
      BY <2>1, <2>2, <2>3 DEF Astray, Reasons
    <2> QED  BY <1>9, <2>1, <2>4
  <1>5. MatchedAs(o) = 0
    BY <1>2, MatchedAsNone
  <1>6. Closed(o) \in Nat /\ orders[o].qty \in Nat /\ Closed(o) <= orders[o].qty
    <2>1. orders[o] \in Order
      BY <1>0, TypeFacts DEF Frame
    <2>2. Closed(o) \in Nat
      BY ClosedFacts DEF Frame
    <2> QED  BY <1>0, <2>1, <2>2, LotsClosed, Numbers DEF Order
  <1>7. orders[o].qty - Matched(o) = orders[o].qty - Closed(o)
    BY <1>4, <1>5, <1>6 DEF Matched
  <1>8. Max({0, orders[o].qty - Closed(o)}) = orders[o].qty - Closed(o)
    BY <1>6, MaxTwo
  <1> QED  BY <1>3, <1>7, <1>8 DEF Remaining

LEMMA LotsTracked == Inv /\ Frame /\ Books /\ Lots => TrackedTells
  <1> SUFFICES ASSUME Inv, Frame, Books, Lots, NEW o \in Placed, tracked[o] # 0, ~Astray(o),
                      \A t \in Tasks : task[t].pc = "idle"
                                         \/ (task[t].order # o /\ task[t].exit # o)
               PROVE  tracked[o] = Remaining(o)
    BY DEF TrackedTells
  <1> QED  BY FineTracked, WaitsTracked DEF Lots

LotsInv == Inv /\ Frame /\ Guards /\ Books /\ Lots

\* The layers together are inductive.
THEOREM LotsInductive == Spec => []LotsInv
<1>1. Init => LotsInv
  BY Initial, FrameInit, LotsInit DEF LotsInv
<1>2. LotsInv /\ [Next]_vars => LotsInv'
  BY Preserved, FrameStep, GuardsStep, BooksStep, LotsStep DEF LotsInv
<1> QED
  BY <1>1, <1>2, PTL DEF Spec

\* No more of an order is closed than it executed, unless it was read back after a
\* part was closed, lost a close's row, was sold by the strategy too, or has a stop
\* that executed while an exit took it for waiting.
THEOREM ClosedOnceProved == Spec => []ClosedOnceUnlessAstray
<1>1. LotsInv => ClosedOnceUnlessAstray
  <2> SUFFICES ASSUME LotsInv, NEW o \in Placed, ~Astray(o)
               PROVE  ~(Closed(o) > orders[o].qty)
    BY DEF ClosedOnceUnlessAstray
  <2>1. orders[o] \in Order /\ Closed(o) \in Nat
    BY TypeFacts, ClosedFacts DEF LotsInv, Frame, Placed
  <2>2. orders[o].qty \in Nat
    BY <2>1, Numbers DEF Order
  <2>3. CASE Fine(o)
    BY <2>1, <2>2, <2>3, LotsClosed DEF LotsInv
  <2>4. CASE Waits(o)
    BY <2>1, <2>2, <2>4, WaitsClosed DEF LotsInv
  <2> QED  BY <2>3, <2>4 DEF LotsInv, Lots
<1> QED
  BY LotsInductive, <1>1, PTL

\* Memory and table agree on what is left of an order nothing happened to and
\* nobody is closing.
THEOREM TrackedAgrees == Spec => []TrackedTells
<1>1. LotsInv => TrackedTells
  BY LotsTracked DEF LotsInv
<1> QED
  BY LotsInductive, <1>1, PTL

===============================================================================
