--------------------------- MODULE MarketStreamProofs ---------------------------
(***************************************************************************)
(* For any number of symbols, users, browsers and lost connections: the    *)
(* stream limit (Limit), that the exchange sends what is wanted (Sync),    *)
(* and that depth is wanted exactly where somebody watches (Books).        *)
(*                                                                         *)
(* Limit has an invariant of its own.  Sync and Books rest on StreamInv:   *)
(* the shape of the messages that wait, the numbers that keep connections  *)
(* apart, and Synced, that the last waiting message about a stream tells   *)
(* whether it is wanted.                                                   *)
(***************************************************************************)
EXTENDS MarketStream, FiniteSetTheorems, SequenceTheorems, TLAPS

\* What the limit rests on: the sets stay within the finite set of symbols.
WantedOK == symbols \subseteq Symbols /\ depth \subseteq Symbols

IInv == WantedOK /\ WithinLimit

LEMMA FiniteWanted ==
    ASSUME WantedOK
    PROVE  /\ IsFiniteSet(symbols) /\ IsFiniteSet(depth)
           /\ Cardinality(symbols) \in Nat /\ Cardinality(depth) \in Nat
BY StreamAssumption, FS_Subset, FS_CardinalityType DEF WantedOK

\* A step that takes streams away, or leaves both sets alone, keeps the limit.
LEMMA FewerStreams ==
    ASSUME WantedOK, WithinLimit, symbols' \subseteq symbols, depth' \subseteq depth,
           reinstated' = reinstated
    PROVE  IInv'
<1>1. IsFiniteSet(symbols) /\ IsFiniteSet(depth) /\ MaxStreams \in Nat
  BY FiniteWanted, StreamAssumption
<1>2. Cardinality(symbols') <= Cardinality(symbols) /\ Cardinality(depth') <= Cardinality(depth)
  BY <1>1, FS_Subset
<1>3. /\ Cardinality(symbols) \in Nat /\ Cardinality(depth) \in Nat
      /\ Cardinality(symbols') \in Nat /\ Cardinality(depth') \in Nat
  BY <1>1, FS_Subset, FS_CardinalityType
<1>4. WantedOK'
  BY DEF WantedOK
<1> QED
  BY <1>1, <1>2, <1>3, <1>4 DEF IInv, WithinLimit

\* A step that adds one stream below the limit keeps it.
LEMMA OneMoreStream ==
    ASSUME WantedOK, ~Full, reinstated' = reinstated, NEW s \in Symbols,
           \/ symbols' = symbols \cup {s} /\ depth' = depth
           \/ symbols' = symbols /\ depth' = depth \cup {s}
    PROVE  IInv'
<1>1. /\ IsFiniteSet(symbols) /\ IsFiniteSet(depth) /\ MaxStreams \in Nat
      /\ Cardinality(symbols) \in Nat /\ Cardinality(depth) \in Nat
  BY FiniteWanted, StreamAssumption
<1>2. Cardinality(symbols \cup {s}) <= Cardinality(symbols) + 1
  <2>1. \/ Cardinality(symbols \cup {s}) = Cardinality(symbols)
        \/ Cardinality(symbols \cup {s}) = Cardinality(symbols) + 1
    BY <1>1, FS_AddElement
  <2> QED BY <1>1, <2>1
<1>3. Cardinality(depth \cup {s}) <= Cardinality(depth) + 1
  <2>1. \/ Cardinality(depth \cup {s}) = Cardinality(depth)
        \/ Cardinality(depth \cup {s}) = Cardinality(depth) + 1
    BY <1>1, FS_AddElement
  <2> QED BY <1>1, <2>1
<1>4. Cardinality(symbols') + Cardinality(depth') <= Cardinality(symbols) + Cardinality(depth) + 1
  <2>1. Cardinality(symbols \cup {s}) \in Nat /\ Cardinality(depth \cup {s}) \in Nat
    BY <1>1, FS_AddElement, FS_CardinalityType
  <2>2. CASE symbols' = symbols \cup {s} /\ depth' = depth
    BY <1>1, <1>2, <2>1, <2>2
  <2>3. CASE symbols' = symbols /\ depth' = depth \cup {s}
    BY <1>1, <1>3, <2>1, <2>3
  <2> QED BY <2>2, <2>3
<1>5. Cardinality(symbols) + Cardinality(depth) < MaxStreams
  BY <1>1 DEF Full
<1>6. Cardinality(symbols') \in Nat /\ Cardinality(depth') \in Nat
  BY <1>1, FS_AddElement, FS_CardinalityType
<1>7. WantedOK'
  BY DEF WantedOK
<1> QED
  BY <1>1, <1>4, <1>5, <1>6, <1>7 DEF IInv, WithinLimit

\* Undoing a failed request: an addition only takes away, a removal is marked.
LEMMA UndoKeepsLimit ==
    ASSUME IInv, NEW job, RollBack(job)
    PROVE  IInv'
<1>1. CASE job.op \in {"remove", "removeDepth"}
  <2>1. reinstated' = TRUE
    BY <1>1 DEF RollBack
  <2>2. WantedOK'
    BY <1>1 DEF RollBack, IInv, WantedOK, Tickers, Depths
  <2> QED BY <2>1, <2>2 DEF IInv, WithinLimit
<1>2. CASE job.op \notin {"remove", "removeDepth"}
  <2>1. symbols' \subseteq symbols /\ depth' \subseteq depth
    BY <1>2 DEF RollBack
  <2>2. CASE reinstated'
    BY <2>1, <2>2 DEF IInv, WantedOK, WithinLimit
  <2>3. CASE ~reinstated'
    <3>1. ~reinstated
      BY <2>3, <1>2 DEF RollBack
    <3>2. Cardinality(symbols) + Cardinality(depth) <= MaxStreams
      BY <3>1 DEF IInv, WithinLimit
    <3>3. IsFiniteSet(symbols) /\ IsFiniteSet(depth)
      BY FiniteWanted DEF IInv
    <3>4. /\ Cardinality(symbols') <= Cardinality(symbols)
          /\ Cardinality(depth') <= Cardinality(depth)
          /\ Cardinality(symbols) \in Nat /\ Cardinality(depth) \in Nat
          /\ Cardinality(symbols') \in Nat /\ Cardinality(depth') \in Nat
      BY <2>1, <3>3, FS_Subset, FS_CardinalityType
    <3>5. MaxStreams \in Nat
      BY StreamAssumption
    <3>6. WantedOK'
      BY <2>1 DEF IInv, WantedOK
    <3> QED BY <3>2, <3>4, <3>5, <3>6 DEF IInv, WithinLimit
  <2> QED BY <2>2, <2>3
<1> QED BY <1>1, <1>2

-------------------------------------------------------------------------------

LEMMA InitWithinLimit == Init => IInv
<1> SUFFICES ASSUME Init PROVE IInv
  OBVIOUS
<1>1. Cardinality(depth) = 0
  BY FS_EmptySet DEF Init
<1>2. IsFiniteSet(symbols)
  BY StreamAssumption, FS_Subset DEF Init
<1>3. Cardinality(symbols) \in Nat
  BY <1>2, FS_CardinalityType
<1>4. WantedOK
  BY DEF Init, WantedOK
<1> QED BY <1>1, <1>3, <1>4, StreamAssumption DEF Init, IInv, WithinLimit

\* Leaving a view takes its depth stream away at most.
LEMMA LeaveKeepsLimit ==
    ASSUME IInv, NEW c \in Clients, NEW s \in Symbols, Leave(c, s)
    PROVE  IInv'
<1>1. symbols' = symbols /\ depth' \subseteq depth /\ reinstated' = reinstated
  BY DEF Leave, flags
<1> QED BY <1>1, FewerStreams DEF IInv

LEMMA StepWithinLimit == IInv /\ [Next]_vars => IInv'
<1> SUFFICES ASSUME IInv, [Next]_vars PROVE IInv'
  OBVIOUS
<1>0. WantedOK /\ WithinLimit
  BY DEF IInv
<1>1. CASE UNCHANGED <<symbols, depth, reinstated>>
  BY <1>0, <1>1, FewerStreams
<1>2. CASE SendOk \/ Dial \/ Connect \/ ConnectFails \/ Drop \/ Disconnected \/ Stop
  <2>1. UNCHANGED <<symbols, depth, reinstated>>
    BY <1>2 DEF SendOk, Dial, Connect, ConnectFails, Drop, Disconnected, Stop, wanted, flags
  <2> QED BY <2>1, <1>1
<1>3. CASE SendFails
  BY <1>3, UndoKeepsLimit DEF SendFails
<1>4. ASSUME NEW u \in Users, NEW s \in Symbols, AddSymbol(u, s)
      PROVE  IInv'
  <2>1. ~Full /\ symbols' = symbols \cup {s} /\ depth' = depth /\ reinstated' = reinstated
    BY <1>4 DEF AddSymbol, flags
  <2> QED BY <1>0, <2>1, OneMoreStream
<1>5. ASSUME NEW u \in Users, NEW s \in Symbols, RemoveSymbol(u, s)
      PROVE  IInv'
  <2>1. symbols' \subseteq symbols /\ depth' \subseteq depth /\ reinstated' = reinstated
    BY <1>5 DEF RemoveSymbol
  <2> QED BY <1>0, <2>1, FewerStreams
<1>6. ASSUME NEW c \in Clients, Open(c) \/ Close(c) \/ CleanUp(c)
      PROVE  IInv'
  <2>1. CASE \E s \in Symbols : Leave(c, s)
    BY <2>1, LeaveKeepsLimit
  <2>2. CASE UNCHANGED <<symbols, depth, reinstated>>
    BY <2>2, <1>1
  <2> QED BY <1>6, <2>1, <2>2 DEF Open, Close, CleanUp, wanted, flags
<1>7. ASSUME NEW c \in Clients, NEW s \in Symbols, JoinView(c, s) \/ Unview(c, s)
      PROVE  IInv'
  <2>1. CASE JoinView(c, s)
    <3>1. UNCHANGED <<symbols, depth, reinstated>>
      BY <2>1 DEF JoinView, flags
    <3> QED BY <3>1, <1>1
  <2>2. CASE Unview(c, s)
    BY <2>2, LeaveKeepsLimit DEF Unview
  <2> QED BY <1>7, <2>1, <2>2
<1>8. ASSUME NEW c \in Clients, NEW s \in Symbols, FirstView(c, s)
      PROVE  IInv'
  <2>1. symbols' = symbols /\ reinstated' = reinstated
    BY <1>8 DEF FirstView, flags
  <2>2. CASE s \in depth
    <3>1. depth' = depth
      BY <1>8, <2>2 DEF FirstView
    <3> QED BY <2>1, <3>1, <1>1
  <2>3. CASE s \notin depth
    <3>1. ~Full /\ depth' = depth \cup {s}
      BY <1>8, <2>3 DEF FirstView
    <3> QED BY <1>0, <2>1, <3>1, OneMoreStream
  <2> QED BY <2>2, <2>3
<1>9. CASE UNCHANGED vars
  <2>1. UNCHANGED <<symbols, depth, reinstated>>
    BY <1>9 DEF vars, wanted, flags
  <2> QED BY <2>1, <1>1
<1> QED BY <1>2, <1>3, <1>4, <1>5, <1>6, <1>7, <1>8, <1>9 DEF Next

\* Requests that wait for their message do not get past the stream limit together
\* (add_symbol and add_depth_symbol check and enter under one lock); only undoing
\* a failed removal can.
THEOREM Limit == Spec => []WithinLimit
<1>1. IInv => WithinLimit
  BY DEF IInv
<1> QED BY InitWithinLimit, StepWithinLimit, <1>1, PTL DEF Spec
-------------------------------------------------------------------------------
(* Types, and the messages that wait for the lock *)

\* The loop only resubscribes, users add and remove symbols, browsers depth.
Fits(job) ==
    /\ job.op = "resubscribe" <=> job.who = Loop
    /\ job.op \in {"add", "remove"} => job.who \in Users
    /\ job.op \in {"addDepth", "removeDepth"} => job.who \in Clients

Shaped == \A i \in 1 .. Len(queue) : Fits(queue[i])

LEMMA StreamTypes ==
    ASSUME NEW ss \in SUBSET Symbols, NEW ds \in SUBSET Symbols
    PROVE  Streams(ss, ds) \subseteq Stream
BY DEF Streams, Stream, Ticker, Depth

LEMMA Grows ==
    ASSUME TypeOK, NEW j \in Job, queue' = Append(queue, j)
    PROVE  /\ queue' \in Seq(Job) /\ Len(queue) \in Nat /\ Len(queue') = Len(queue) + 1
           /\ queue'[Len(queue) + 1] = j
           /\ \A i \in 1 .. Len(queue) : queue'[i] = queue[i]
BY AppendProperties, LenProperties DEF TypeOK

LEMMA Shrinks ==
    ASSUME TypeOK, queue # <<>>, queue' = Tail(queue)
    PROVE  /\ 1 \in 1 .. Len(queue) /\ Job1 = queue[1] /\ Job1 \in Job /\ Len(queue) \in Nat
           /\ queue' \in Seq(Job) /\ Len(queue') = Len(queue) - 1
           /\ \A i \in 1 .. Len(queue') : i + 1 \in 1 .. Len(queue) /\ queue'[i] = queue[i + 1]
<1>1. queue \in Seq(Job)
  BY DEF TypeOK
<1>2. Len(queue) \in Nat \ {0} /\ Head(queue) = queue[1]
  BY <1>1, EmptySeq, HeadTailProperties
<1>3. queue[1] \in Job
  BY <1>1, <1>2, ElementOfSeq
<1>4. /\ Tail(queue) \in Seq(Job) /\ Len(Tail(queue)) = Len(queue) - 1
      /\ \A i \in 1 .. Len(Tail(queue)) : Tail(queue)[i] = queue[i + 1]
  BY <1>1, HeadTailProperties
<1> QED  BY <1>2, <1>3, <1>4 DEF Job1

\* A message of a request is for the connection there is.
LEMMA Sends ==
    ASSUME TypeOK, NEW who \in Users \cup Clients,
           NEW op \in {"add", "remove", "addDepth", "removeDepth"},
           NEW streams \in SUBSET Stream, Send(who, op, streams)
    PROVE  \/ conn = 0 /\ UNCHANGED queue
           \/ /\ conn # 0
              /\ \E j \in Job : /\ queue' = Append(queue, j)
                                /\ j.who = who /\ j.op = op /\ j.streams = streams /\ j.conn = conn
<1> DEFINE j == [who |-> who, op |-> op, streams |-> streams, conn |-> conn]
<1>1. conn = 0 => UNCHANGED queue
  BY DEF Send
<1>2. conn # 0 => queue' = Append(queue, j) /\ conn \in 1 .. MaxDrops + 1
  BY StreamAssumption DEF Send, TypeOK
<1>3. conn # 0 => j \in Job
  BY <1>2 DEF Job
<1> QED  BY <1>1, <1>2, <1>3

\* The queue stays, loses its first message, or gets one for the connection there
\* is, or is made, now.
Queued ==
    \/ UNCHANGED queue
    \/ queue # <<>> /\ queue' = Tail(queue)
    \/ \E j \in Job : Fits(j) /\ queue' = Append(queue, j) /\ j.conn = conn'

LEMMA SendsQueue ==
    ASSUME TypeOK, NEW who \in Users \cup Clients,
           NEW op \in {"add", "remove", "addDepth", "removeDepth"},
           who \in Users <=> op \in {"add", "remove"}, UNCHANGED conn,
           NEW streams \in SUBSET Stream, Send(who, op, streams)
    PROVE  Queued
<1>1. CASE UNCHANGED queue
  BY <1>1 DEF Queued
<1>2. CASE \E j \in Job : /\ queue' = Append(queue, j)
                          /\ j.who = who /\ j.op = op /\ j.streams = streams /\ j.conn = conn
  <2>1. who # Loop
    BY StreamAssumption
  <2> QED  BY <1>2, <2>1 DEF Queued, Fits
<1> QED  BY <1>1, <1>2, Sends

LEMMA LeaveQueue ==
    ASSUME TypeOK, NEW c \in Clients, NEW s \in Symbols, Leave(c, s)
    PROVE  Queued
<1>1. CASE UNCHANGED queue
  BY <1>1 DEF Queued
<1>2. CASE Send(c, "removeDepth", {Depth(s)})
  <2>1. {Depth(s)} \in SUBSET Stream /\ c \notin Users /\ UNCHANGED conn
    BY StreamAssumption DEF Depth, Stream, Leave, connection
  <2> QED  BY <1>2, <2>1, SendsQueue
<1> QED  BY <1>1, <1>2 DEF Leave

LEMMA StepQueues == TypeOK /\ [Next]_vars => Queued
<1> SUFFICES ASSUME TypeOK, [Next]_vars PROVE Queued
  OBVIOUS
<1>1. CASE SendOk \/ SendFails
  BY <1>1 DEF SendOk, SendFails, Queued
<1>2. CASE Dial \/ ConnectFails \/ Drop \/ Stop
  BY <1>2 DEF Dial, ConnectFails, Drop, Stop, Queued
<1>3. CASE Connect
  <2>1. CASE UNCHANGED queue
    BY <2>1 DEF Queued
  <2>2. CASE ~UNCHANGED queue
    <3> DEFINE j == [who |-> Loop, op |-> "resubscribe",
                     streams |-> Streams(symbols, depth), conn |-> drops + 1]
    <3>1. queue' = Append(queue, j) /\ conn' = drops + 1
      BY <1>3, <2>2 DEF Connect
    <3>2. Streams(symbols, depth) \subseteq Stream
      BY StreamTypes DEF TypeOK
    <3>3. drops + 1 \in 1 .. MaxDrops + 1
      BY StreamAssumption DEF TypeOK
    <3>4. j \in Job /\ Fits(j) /\ j.conn = drops + 1
      BY <3>2, <3>3 DEF Job, Fits
    <3> HIDE DEF j
    <3> QED  BY <3>1, <3>4 DEF Queued
  <2> QED  BY <2>1, <2>2
<1>4. CASE Disconnected
  BY <1>4 DEF Disconnected, Queued
<1>5. ASSUME NEW u \in Users, NEW s \in Symbols, AddSymbol(u, s)
      PROVE  Queued
  <2>1. Send(u, "add", {Ticker(s)}) /\ UNCHANGED conn
    BY <1>5 DEF AddSymbol, connection
  <2>2. {Ticker(s)} \in SUBSET Stream
    BY DEF Ticker, Stream
  <2> QED  BY <2>1, <2>2, SendsQueue
<1>6. ASSUME NEW u \in Users, NEW s \in Symbols, RemoveSymbol(u, s)
      PROVE  Queued
  <2>1. Send(u, "remove", Streams({s}, depth \cap {s})) /\ UNCHANGED conn
    BY <1>6 DEF RemoveSymbol, connection
  <2>2. Streams({s}, depth \cap {s}) \in SUBSET Stream
    BY StreamTypes
  <2> QED  BY <2>1, <2>2, SendsQueue
<1>7. ASSUME NEW c \in Clients, NEW s \in Symbols, FirstView(c, s)
      PROVE  Queued
  <2>1. CASE UNCHANGED queue
    BY <2>1 DEF Queued
  <2>2. CASE Send(c, "addDepth", {Depth(s)})
    <3>1. {Depth(s)} \in SUBSET Stream /\ c \notin Users /\ UNCHANGED conn
      BY <1>7, StreamAssumption DEF Depth, Stream, FirstView, connection
    <3> QED  BY <2>2, <3>1, SendsQueue
  <2> QED  BY <1>7, <2>1, <2>2 DEF FirstView
<1>8. ASSUME NEW c \in Clients, NEW s \in Symbols, JoinView(c, s) \/ Unview(c, s)
      PROVE  Queued
  BY <1>8, LeaveQueue DEF JoinView, Unview, Queued
<1>9. ASSUME NEW c \in Clients, Open(c) \/ Close(c) \/ CleanUp(c)
      PROVE  Queued
  BY <1>9, LeaveQueue DEF Open, Close, CleanUp, Queued
<1>10. CASE UNCHANGED vars
  BY <1>10 DEF vars, Queued
<1> QED
  BY <1>1, <1>2, <1>3, <1>4, <1>5, <1>6, <1>7, <1>8, <1>9, <1>10 DEF Next

LEMMA ShapedKept ==
    ASSUME TypeOK, Shaped, Queued
    PROVE  queue' \in Seq(Job) /\ Shaped'
<1>1. CASE UNCHANGED queue
  BY <1>1 DEF TypeOK, Shaped
<1>2. CASE queue # <<>> /\ queue' = Tail(queue)
  BY <1>2, Shrinks DEF Shaped
<1>3. ASSUME NEW j \in Job, Fits(j), queue' = Append(queue, j)
      PROVE  queue' \in Seq(Job) /\ Shaped'
  <2>1. /\ queue' \in Seq(Job) /\ Len(queue) \in Nat /\ Len(queue') = Len(queue) + 1
        /\ queue'[Len(queue) + 1] = j
        /\ \A i \in 1 .. Len(queue) : queue'[i] = queue[i]
    BY <1>3, Grows
  <2>2. ASSUME NEW i \in 1 .. Len(queue')
        PROVE  Fits(queue'[i])
    <3>1. i = Len(queue) + 1 \/ i \in 1 .. Len(queue)
      BY <2>1
    <3> QED  BY <1>3, <2>1, <3>1 DEF Shaped
  <2> QED  BY <2>1, <2>2 DEF Shaped
<1> QED  BY <1>1, <1>2, <1>3 DEF Queued

LEMMA TypesKept == TypeOK /\ Shaped /\ [Next]_vars => TypeOK'
<1> SUFFICES ASSUME TypeOK, Shaped, [Next]_vars PROVE TypeOK'
  OBVIOUS
<1>1. queue' \in Seq(Job)
  BY StepQueues, ShapedKept
<1> DEFINE Wanted == /\ symbols \subseteq Symbols /\ depth \subseteq Symbols
                     /\ viewers \in [Symbols -> SUBSET Clients]
                     /\ client \in [Clients -> {"new", "open", "closing", "gone"}]
           Linked == /\ conn \in 0 .. MaxDrops + 1 /\ link \in 0 .. MaxDrops + 1
                     /\ subs \subseteq Stream
                     /\ loop \in {"down", "connecting", "subscribing", "receiving", "ended"}
                     /\ drops \in 0 .. MaxDrops /\ stopping \in BOOLEAN
           Flags == stale \in BOOLEAN /\ reinstated \in BOOLEAN /\ failed \in BOOLEAN
<1>2. Wanted /\ Linked /\ Flags
  BY DEF TypeOK
<1>3. Wanted' /\ Linked' /\ Flags' => TypeOK'
  BY <1>1 DEF TypeOK
<1>4. UNCHANGED <<wanted, client>> => Wanted'
  BY <1>2 DEF wanted
<1>5. UNCHANGED <<connection, drops, stopping>> => Linked'
  BY <1>2 DEF connection
<1>6. UNCHANGED flags => Flags'
  BY <1>2 DEF flags
<1>7. CASE SendOk
  <2>1. queue # <<>> /\ queue' = Tail(queue)
    BY <1>7 DEF SendOk
  <2>2. Job1.streams \subseteq Stream
    BY <2>1, Shrinks DEF Job
  <2>3. UNCHANGED <<wanted, client, flags>> /\ UNCHANGED <<conn, link, drops, stopping>>
    BY <1>7 DEF SendOk
  <2>4. subs' \subseteq Stream
    BY <1>2, <1>7, <2>2 DEF SendOk
  <2>5. loop' \in {"down", "connecting", "subscribing", "receiving", "ended"}
    BY <1>2, <1>7 DEF SendOk
  <2> QED  BY <1>2, <1>3, <1>4, <1>6, <2>3, <2>4, <2>5
<1>8. CASE SendFails
  <2>1. RollBack(Job1) /\ UNCHANGED <<viewers, connection, drops, stopping>>
    BY <1>8 DEF SendFails
  <2>2. symbols' \subseteq Symbols /\ depth' \subseteq Symbols
    BY <1>2, <2>1 DEF RollBack, Tickers, Depths
  <2>3. client' \in [Clients -> {"new", "open", "closing", "gone"}]
    BY <1>2, <1>8 DEF SendFails
  <2>4. Flags'
    BY <1>2, <2>1 DEF RollBack
  <2> QED  BY <1>2, <1>3, <1>5, <2>1, <2>2, <2>3, <2>4
<1>9. CASE Connect
  <2>1. drops + 1 \in 0 .. MaxDrops + 1
    BY <1>2, StreamAssumption
  <2>2. Linked'
    BY <1>2, <1>9, <2>1 DEF Connect
  <2>3. Flags'
    BY <1>2, <1>9 DEF Connect
  <2> QED  BY <1>3, <1>4, <1>9, <2>2, <2>3 DEF Connect
<1>10. CASE Dial \/ ConnectFails \/ Drop \/ Disconnected \/ Stop
  <2>1. Linked'
    <3>1. 0 \in 0 .. MaxDrops + 1 /\ (drops < MaxDrops => drops + 1 \in 0 .. MaxDrops)
      BY <1>2, StreamAssumption
    <3> QED  BY <1>2, <1>10, <3>1 DEF Dial, ConnectFails, Drop, Disconnected, Stop
  <2> QED
    BY <1>3, <1>4, <1>6, <1>10, <2>1 DEF Dial, ConnectFails, Drop, Disconnected, Stop
<1>11. ASSUME NEW u \in Users, NEW s \in Symbols, AddSymbol(u, s) \/ RemoveSymbol(u, s)
       PROVE  TypeOK'
  <2>1. Wanted'
    BY <1>2, <1>11 DEF AddSymbol, RemoveSymbol
  <2>2. Flags'
    BY <1>2, <1>11 DEF AddSymbol, RemoveSymbol, flags
  <2> QED  BY <1>3, <1>5, <1>11, <2>1, <2>2 DEF AddSymbol, RemoveSymbol
<1>12. ASSUME NEW c \in Clients, NEW s \in Symbols, Leave(c, s), UNCHANGED client
       PROVE  TypeOK'
  <2>1. Wanted'
    BY <1>2, <1>12 DEF Leave
  <2> QED  BY <1>3, <1>5, <1>6, <1>12, <2>1 DEF Leave
<1>13. ASSUME NEW c \in Clients, Open(c) \/ Close(c) \/ CleanUp(c)
       PROVE  TypeOK'
  <2>1. CASE \E s \in Symbols : Leave(c, s) /\ UNCHANGED client
    BY <1>12, <2>1
  <2>2. CASE UNCHANGED <<wanted, queue, connection, drops, stopping, flags>>
             /\ \E to \in {"open", "closing", "gone"} : client' = [client EXCEPT ![c] = to]
    <3>1. Wanted'
      BY <1>2, <2>2 DEF wanted
    <3> QED  BY <1>3, <1>5, <1>6, <2>2, <3>1
  <2> QED  BY <1>13, <2>1, <2>2 DEF Open, Close, CleanUp
<1>14. ASSUME NEW c \in Clients, NEW s \in Symbols,
              JoinView(c, s) \/ FirstView(c, s) \/ Unview(c, s)
       PROVE  TypeOK'
  <2>1. CASE JoinView(c, s) \/ FirstView(c, s)
    <3>1. Wanted'
      BY <1>2, <2>1 DEF JoinView, FirstView
    <3> QED  BY <1>3, <1>5, <1>6, <2>1, <3>1 DEF JoinView, FirstView
  <2>2. CASE Unview(c, s)
    BY <1>12, <2>2 DEF Unview
  <2> QED  BY <1>14, <2>1, <2>2
<1>15. CASE UNCHANGED vars
  BY <1>3, <1>4, <1>5, <1>6, <1>15 DEF vars
<1> QED
  BY <1>7, <1>8, <1>9, <1>10, <1>11, <1>13, <1>14, <1>15 DEF Next
-------------------------------------------------------------------------------
(* Connections are told apart by their numbers *)

Upto(n) == \A i \in 1 .. Len(queue) : queue[i].conn <= n

\* The next connection gets a number no waiting message has.
Numbered ==
    /\ link \in {0, conn} /\ conn <= drops + 1 /\ Upto(drops + 1)
    /\ loop \in {"down", "connecting"} => conn = 0 /\ Upto(drops)
    /\ loop \in {"subscribing", "receiving"} => conn # 0
    /\ loop \in {"subscribing", "receiving"} /\ link # conn /\ ~stopping =>
         conn <= drops /\ Upto(drops)

LEMMA UptoKept ==
    ASSUME TypeOK, Queued, NEW n \in Nat, NEW m \in Nat, Upto(n), n <= m,
           conn' <= m \/ UNCHANGED queue \/ (queue # <<>> /\ queue' = Tail(queue))
    PROVE  Upto(m)'
<1>1. \A i \in 1 .. Len(queue) : queue[i].conn \in Int /\ queue[i].conn <= m
  <2>1. TAKE i \in 1 .. Len(queue)
  <2>2. queue[i] \in Job
    BY ElementOfSeq DEF TypeOK
  <2>3. queue[i].conn \in Int
    BY <2>2, StreamAssumption DEF Job
  <2> QED  BY <2>3 DEF Upto
<1>2. CASE UNCHANGED queue
  BY <1>1, <1>2 DEF Upto
<1>3. CASE queue # <<>> /\ queue' = Tail(queue)
  BY <1>1, <1>3, Shrinks DEF Upto
<1>4. ASSUME NEW j \in Job, queue' = Append(queue, j), j.conn = conn', conn' <= m
      PROVE  Upto(m)'
  <2>1. /\ Len(queue) \in Nat /\ Len(queue') = Len(queue) + 1
        /\ queue'[Len(queue) + 1] = j
        /\ \A i \in 1 .. Len(queue) : queue'[i] = queue[i]
    BY <1>4, Grows
  <2>2. ASSUME NEW i \in 1 .. Len(queue')
        PROVE  queue'[i].conn <= m
    <3>1. i = Len(queue) + 1 \/ i \in 1 .. Len(queue)
      BY <2>1
    <3> QED  BY <1>1, <1>4, <2>1, <3>1
  <2> QED  BY <2>2 DEF Upto
<1>5. ASSUME NEW j \in Job, queue' = Append(queue, j), ~(conn' <= m)
      PROVE  FALSE
  <2>1. Len(queue') = Len(queue) + 1 /\ Len(queue) \in Nat
    BY <1>5, Grows
  <2>2. queue' # queue /\ (queue # <<>> => queue' # Tail(queue))
    <3>1. queue # <<>> => Len(Tail(queue)) = Len(queue) - 1
      BY HeadTailProperties DEF TypeOK
    <3> QED  BY <2>1, <3>1
  <2> QED  BY <1>5, <2>2
<1> QED  BY <1>2, <1>3, <1>4, <1>5 DEF Queued

LEMMA OneMoreNumber ==
    ASSUME TypeOK, Numbered, drops' = drops + 1, UNCHANGED queue
    PROVE  Upto(drops)' /\ Upto(drops + 1)'
<1>1. drops \in Nat
  BY StreamAssumption DEF TypeOK
<1>2. ASSUME NEW i \in 1 .. Len(queue)
      PROVE  queue[i].conn <= drops + 1 /\ queue[i].conn <= (drops + 1) + 1
  <2>1. queue[i] \in Job
    BY ElementOfSeq DEF TypeOK
  <2>2. queue[i].conn \in Int
    BY <2>1, StreamAssumption DEF Job
  <2>3. queue[i].conn <= drops + 1
    BY DEF Numbered, Upto
  <2> QED  BY <1>1, <2>2, <2>3
<1> QED  BY <1>2 DEF Upto

LEMMA NumberedKept == TypeOK /\ Numbered /\ [Next]_vars => Numbered'
<1> SUFFICES ASSUME TypeOK, Numbered, [Next]_vars PROVE Numbered'
  OBVIOUS
<1>1. Queued
  BY StepQueues
<1>2. drops \in Nat /\ conn \in Nat /\ link \in Nat /\ MaxDrops \in Nat
  BY StreamAssumption DEF TypeOK
\* The number a message may have does not grow while the connection stays.
<1>3. ASSUME UNCHANGED <<connection, drops, stopping>>
      PROVE  Numbered'
  <2>1. Upto(drops + 1)'
    BY <1>1, <1>2, <1>3, UptoKept DEF Numbered, connection
  <2>2. Upto(drops) /\ conn <= drops => Upto(drops)'
    BY <1>1, <1>2, <1>3, UptoKept DEF connection
  <2> QED  BY <1>2, <1>3, <2>1, <2>2 DEF Numbered, connection
<1>4. CASE SendOk
  <2>1. queue # <<>> /\ queue' = Tail(queue) /\ Job1.conn = link
        /\ UNCHANGED <<conn, link, drops, stopping>>
    BY <1>4 DEF SendOk
  <2>2. link = conn /\ conn # 0
    <3>1. Job1.conn # 0
      BY <2>1, Shrinks, StreamAssumption DEF Job
    <3> QED  BY <2>1, <3>1 DEF Numbered
  <2>3. Upto(drops + 1)' /\ (Upto(drops) => Upto(drops)')
    BY <1>1, <1>2, <2>1, UptoKept DEF Numbered
  <2>4. loop' = loop \/ loop' \in {"ended", "receiving"}
    BY <1>4 DEF SendOk
  <2> QED  BY <1>2, <2>1, <2>2, <2>3, <2>4 DEF Numbered
<1>5. CASE Dial
  <2>1. /\ loop = "down" /\ loop' = "connecting"
        /\ UNCHANGED <<queue, conn, link, drops, stopping>>
    BY <1>5 DEF Dial
  <2> QED  BY <2>1 DEF Numbered, Upto
<1>6. CASE Connect
  <2>1. /\ loop = "connecting" /\ conn' = drops + 1 /\ link' = drops + 1 /\ UNCHANGED drops
        /\ loop' \in {"ended", "receiving", "subscribing"}
    BY <1>6 DEF Connect
  <2>2. Upto(drops + 1)'
    BY <1>1, <1>2, <2>1, UptoKept DEF Numbered
  <2> QED  BY <1>2, <2>1, <2>2 DEF Numbered
<1>7. CASE ConnectFails
  <2>1. /\ loop = "connecting" /\ drops' = drops + 1 /\ loop' \in {"ended", "down"}
        /\ UNCHANGED <<queue, conn, link, stopping>>
    BY <1>7 DEF ConnectFails
  <2>2. Upto(drops)' /\ Upto(drops + 1)'
    BY <1>2, <2>1, OneMoreNumber
  <2>3. conn = 0 /\ link = 0 /\ conn' = 0 /\ link' = 0
    BY <2>1 DEF Numbered
  <2>4. conn' <= drops' + 1
    BY <1>2, <2>1, <2>3
  <2> QED  BY <2>1, <2>2, <2>3, <2>4 DEF Numbered
<1>8. CASE Drop
  <2>1. /\ link # 0 /\ drops' = drops + 1 /\ link' = 0
        /\ UNCHANGED <<queue, conn, loop, stopping>>
    BY <1>8 DEF Drop
  <2>2. Upto(drops)' /\ Upto(drops + 1)'
    BY <1>2, <2>1, OneMoreNumber
  <2>3. conn = link /\ loop \notin {"down", "connecting"}
    BY <2>1 DEF Numbered
  <2>4. conn <= drops + 1 /\ (loop \in {"subscribing", "receiving"} => conn # 0)
    BY DEF Numbered
  <2>5. conn' <= drops' /\ conn' <= drops' + 1
    BY <1>2, <2>1, <2>4
  <2> QED  BY <2>1, <2>2, <2>3, <2>4, <2>5 DEF Numbered
<1>9. CASE Disconnected
  <2>1. /\ link # conn /\ loop \in {"receiving", "subscribing"} /\ conn' = 0
        /\ loop' = (IF stopping THEN "ended" ELSE "down")
        /\ UNCHANGED <<link, drops, stopping>>
        /\ UNCHANGED queue \/ (queue # <<>> /\ queue' = Tail(queue))
    BY <1>9 DEF Disconnected
  <2>2. link = 0
    BY <2>1 DEF Numbered
  <2>3. Upto(drops + 1)' /\ (Upto(drops) => Upto(drops)')
    BY <1>1, <1>2, <2>1, UptoKept DEF Numbered
  <2> QED  BY <1>2, <2>1, <2>2, <2>3 DEF Numbered
<1>10. CASE Stop
  <2>1. /\ stopping' = TRUE /\ link' = 0 /\ loop' = (IF loop = "down" THEN "ended" ELSE loop)
        /\ UNCHANGED <<queue, conn, drops>>
    BY <1>10 DEF Stop
  <2>2. Upto(drops + 1)' /\ (Upto(drops) => Upto(drops)')
    BY <2>1 DEF Numbered, Upto
  <2> QED  BY <2>1, <2>2 DEF Numbered
<1>11. CASE SendFails
  BY <1>3, <1>11 DEF SendFails
<1>12. ASSUME NEW u \in Users, NEW s \in Symbols, AddSymbol(u, s) \/ RemoveSymbol(u, s)
       PROVE  Numbered'
  BY <1>3, <1>12 DEF AddSymbol, RemoveSymbol
<1>13. ASSUME NEW c \in Clients, NEW s \in Symbols,
              JoinView(c, s) \/ FirstView(c, s) \/ Unview(c, s)
       PROVE  Numbered'
  BY <1>3, <1>13 DEF JoinView, FirstView, Unview, Leave
<1>14. ASSUME NEW c \in Clients, Open(c) \/ Close(c) \/ CleanUp(c)
       PROVE  Numbered'
  BY <1>3, <1>14 DEF Open, Close, CleanUp, Leave
<1>15. CASE UNCHANGED vars
  BY <1>3, <1>15 DEF vars
<1> QED
  BY <1>4, <1>5, <1>6, <1>7, <1>8, <1>9, <1>10, <1>11, <1>12, <1>13, <1>14, <1>15 DEF Next
-------------------------------------------------------------------------------
(* What the exchange sends *)

Wanted == Streams(symbols, depth)
Adds(job) == job.op \notin {"remove", "removeDepth"}

\* Message i is for this connection and about stream x; it is the last of them.
Mentions(i, x) == queue[i].conn = conn /\ x \in queue[i].streams
Latest(i, x) == Mentions(i, x) /\ \A j \in 1 .. Len(queue) : j > i => ~Mentions(j, x)

\* The last message about a stream says whether it is wanted, and if none does,
\* the exchange sends what is wanted.
Settled(x) ==
    /\ \A i \in 1 .. Len(queue) : Latest(i, x) => (Adds(queue[i]) <=> x \in Wanted)
    /\ (\A i \in 1 .. Len(queue) : ~Mentions(i, x)) => (x \in subs <=> x \in Wanted)

Synced == ~stale /\ conn # 0 /\ link = conn => \A x \in Stream : Settled(x)

LEMMA Quiet ==
    ASSUME Synced, UNCHANGED <<queue, symbols, depth, stale>>,
           \/ UNCHANGED <<conn, link, subs>>
           \/ link' = 0
    PROVE  Synced'
<1>1. CASE UNCHANGED <<conn, link, subs>>
  BY <1>1 DEF Synced, Settled, Latest, Mentions, Wanted
<1>2. CASE link' = 0
  BY <1>2 DEF Synced
<1> QED  BY <1>1, <1>2

\* A request that changed what is wanted and has its message waiting.
LEMMA Requested ==
    ASSUME TypeOK, Synced, UNCHANGED <<conn, link, subs, stale>>,
           NEW j \in Job, queue' = Append(queue, j), j.conn = conn,
           Wanted' = IF Adds(j) THEN Wanted \cup j.streams ELSE Wanted \ j.streams
    PROVE  Synced'
<1> SUFFICES ASSUME ~stale, conn # 0, link = conn, NEW x \in Stream PROVE Settled(x)'
  BY DEF Synced
<1>0. PICK n : n = Len(queue)
  OBVIOUS
<1>1. /\ n \in Nat /\ Len(queue') = n + 1 /\ queue'[n + 1] = j
      /\ \A i \in 1 .. n : queue'[i] = queue[i]
  BY <1>0, Grows
<1>2. Settled(x)
  BY DEF Synced
<1>3. CASE x \in j.streams
  <2>1. (x \in Wanted') <=> Adds(j)
    BY <1>3
  <2>2. Mentions(n + 1, x)'
    BY <1>1, <1>3 DEF Mentions
  <2>3. ASSUME NEW i \in 1 .. n + 1, Latest(i, x)'
        PROVE  i = n + 1
    <3>1. n + 1 \in 1 .. Len(queue') /\ (i # n + 1 => n + 1 > i)
      BY <1>1
    <3> QED  BY <2>2, <2>3, <3>1 DEF Latest
  <2>4. n + 1 \in 1 .. Len(queue')
    BY <1>1
  <2> QED  BY <1>1, <2>1, <2>2, <2>3, <2>4 DEF Settled
<1>4. CASE x \notin j.streams
  <2>1. (x \in Wanted') <=> (x \in Wanted)
    BY <1>4
  <2>2. ~Mentions(n + 1, x)'
    BY <1>1, <1>4 DEF Mentions
  <2>3. \A i \in 1 .. n : Mentions(i, x)' <=> Mentions(i, x)
    BY <1>1 DEF Mentions
  <2>4. ASSUME NEW i \in 1 .. n + 1, Latest(i, x)'
        PROVE  i \in 1 .. n /\ Latest(i, x)
    <3>1. i # n + 1
      BY <2>2, <2>4 DEF Latest
    <3>2. i \in 1 .. n
      BY <1>1, <3>1
    <3>3. ASSUME NEW k \in 1 .. n, k > i
          PROVE  ~Mentions(k, x)
      <4>1. k \in 1 .. Len(queue')
        BY <1>1
      <4> QED  BY <2>3, <2>4, <3>3, <4>1 DEF Latest
    <3> QED  BY <1>0, <2>3, <2>4, <3>2, <3>3 DEF Latest
  <2>5. ASSUME NEW i \in 1 .. Len(queue'), Latest(i, x)'
        PROVE  Adds(queue'[i]) <=> x \in Wanted'
    <3>1. i \in 1 .. n /\ Latest(i, x)
      BY <1>1, <2>4, <2>5
    <3> QED  BY <1>0, <1>1, <1>2, <2>1, <3>1 DEF Settled
  <2>6. ASSUME \A i \in 1 .. Len(queue') : ~Mentions(i, x)'
        PROVE  x \in subs' <=> x \in Wanted'
    <3>1. \A i \in 1 .. n : ~Mentions(i, x)
      <4>1. \A i \in 1 .. n : i \in 1 .. Len(queue')
        BY <1>1
      <4> QED  BY <2>3, <2>6, <4>1
    <3> QED  BY <1>0, <1>2, <2>1, <3>1 DEF Settled
  <2> QED  BY <2>5, <2>6 DEF Settled
<1> QED  BY <1>3, <1>4

\* The message that is sent is the first.
LEMMA SendOkSynced ==
    ASSUME TypeOK, Numbered, Synced, SendOk
    PROVE  Synced'
<1>0. PICK n : n = Len(queue)
  OBVIOUS
<1>1. /\ queue # <<>> /\ Job1.conn = link /\ queue' = Tail(queue)
      /\ subs' = IF Adds(Job1) THEN subs \cup Job1.streams ELSE subs \ Job1.streams
      /\ UNCHANGED <<symbols, depth, conn, link, stale>>
  BY DEF SendOk, Adds, wanted, flags
<1> SUFFICES ASSUME ~stale, conn # 0, link = conn, NEW x \in Stream PROVE Settled(x)'
  BY <1>1 DEF Synced
<1>2. /\ 1 \in 1 .. n /\ Job1 = queue[1] /\ n \in Nat /\ Len(queue') = n - 1
      /\ \A i \in 1 .. Len(queue') : i + 1 \in 1 .. n /\ queue'[i] = queue[i + 1]
  BY <1>0, <1>1, Shrinks
<1>3. Settled(x) /\ Wanted' = Wanted
  BY <1>1 DEF Synced, Wanted
<1>4. \A i \in 1 .. n - 1 : Mentions(i, x)' <=> Mentions(i + 1, x)
  BY <1>1, <1>2 DEF Mentions
<1>5. ASSUME NEW i \in 1 .. Len(queue'), Latest(i, x)'
      PROVE  Adds(queue'[i]) <=> x \in Wanted'
  <2>1. i \in 1 .. n - 1 /\ i + 1 \in 1 .. n
    BY <1>2
  <2>2. Mentions(i + 1, x)
    BY <1>4, <1>5, <2>1 DEF Latest
  <2>3. ASSUME NEW k \in 1 .. n, k > i + 1
        PROVE  ~Mentions(k, x)
    <3>1. k - 1 \in 1 .. n - 1 /\ k - 1 \in 1 .. Len(queue') /\ k - 1 > i /\ (k - 1) + 1 = k
      BY <1>2, <2>1, <2>3
    <3>2. ~Mentions(k - 1, x)'
      BY <1>5, <3>1 DEF Latest
    <3>3. Mentions(k - 1, x)' <=> Mentions((k - 1) + 1, x)
      BY <1>4, <3>1
    <3> QED  BY <3>1, <3>2, <3>3
  <2>4. Latest(i + 1, x)
    BY <1>0, <2>1, <2>2, <2>3 DEF Latest
  <2> QED  BY <1>0, <1>2, <1>3, <2>1, <2>4 DEF Settled
<1>6. ASSUME \A i \in 1 .. Len(queue') : ~Mentions(i, x)'
      PROVE  x \in subs' <=> x \in Wanted'
  <2>1. \A k \in 1 .. n : k # 1 => ~Mentions(k, x)
    <3>1. TAKE k \in 1 .. n
    <3>2. k # 1 => /\ k - 1 \in 1 .. n - 1 /\ k - 1 \in 1 .. Len(queue') /\ (k - 1) + 1 = k
      BY <1>2, <3>1
    <3>3. k # 1 => (Mentions(k - 1, x)' <=> Mentions((k - 1) + 1, x))
      BY <1>4, <3>2
    <3> QED  BY <1>6, <3>2, <3>3
  <2>2. CASE x \in Job1.streams
    <3>1. Mentions(1, x)
      BY <1>1, <1>2, <2>2 DEF Mentions
    <3>2. \A k \in 1 .. n : k > 1 => ~Mentions(k, x)
      BY <2>1
    <3>3. Latest(1, x)
      BY <1>0, <3>1, <3>2 DEF Latest
    <3>4. Adds(Job1) <=> x \in Wanted
      BY <1>0, <1>2, <1>3, <3>3 DEF Settled
    <3> QED  BY <1>1, <1>3, <2>2, <3>4
  <2>3. CASE x \notin Job1.streams
    <3>1. \A k \in 1 .. n : ~Mentions(k, x)
      BY <1>2, <2>1, <2>3 DEF Mentions
    <3>2. x \in subs <=> x \in Wanted
      BY <1>0, <1>3, <3>1 DEF Settled
    <3> QED  BY <1>1, <1>3, <2>3, <3>2
  <2> QED  BY <2>2, <2>3
<1> QED  BY <1>5, <1>6 DEF Settled

\* A message for an earlier connection that fails on a later one leaves stale.
LEMMA SendFailsSynced ==
    ASSUME Numbered, Synced, SendFails
    PROVE  Synced'
<1>1. Job1.conn # link /\ RollBack(Job1) /\ UNCHANGED <<conn, link>>
  BY DEF SendFails, connection
<1>2. conn # 0 => stale'
  BY <1>1 DEF RollBack
<1> QED  BY <1>1, <1>2 DEF Synced

\* A new connection is asked for all that is wanted.
LEMMA ConnectSynced ==
    ASSUME TypeOK, Numbered, Connect
    PROVE  Synced'
<1>0. PICK n : n = Len(queue)
  OBVIOUS
<1>1. /\ loop = "connecting" /\ conn' = drops + 1 /\ link' = drops + 1 /\ subs' = {}
      /\ stale' = ~(depth \subseteq symbols) /\ UNCHANGED <<symbols, depth>>
  BY DEF Connect, wanted
<1>2. Wanted' = Wanted
  BY <1>1 DEF Wanted
<1>3. Upto(drops) /\ drops \in Nat
  BY <1>1, StreamAssumption DEF Numbered, TypeOK
<1>4. \A i \in 1 .. n : queue[i].conn # drops + 1
  <2>1. TAKE i \in 1 .. n
  <2>2. queue[i] \in Job
    BY <1>0, ElementOfSeq DEF TypeOK
  <2>3. queue[i].conn \in Int
    BY <2>2, StreamAssumption DEF Job
  <2> QED  BY <1>0, <1>3, <2>3 DEF Upto
<1> SUFFICES ASSUME ~stale', NEW x \in Stream PROVE Settled(x)'
  BY DEF Synced
<1>5. CASE symbols = {}
  <2>1. Wanted = {} /\ UNCHANGED queue
    BY <1>1, <1>5 DEF Wanted, Streams, Connect
  <2>2. \A i \in 1 .. Len(queue') : ~Mentions(i, x)'
    BY <1>0, <1>1, <1>4, <2>1 DEF Mentions
  <2> QED  BY <1>1, <1>2, <2>1, <2>2 DEF Settled, Latest
<1>6. CASE symbols # {}
  <2> DEFINE j == [who |-> Loop, op |-> "resubscribe",
                   streams |-> Streams(symbols, depth), conn |-> drops + 1]
  <2>1. queue' = Append(queue, j)
    BY <1>6 DEF Connect
  <2>2. Streams(symbols, depth) \subseteq Stream
    BY StreamTypes DEF TypeOK
  <2>3. drops + 1 \in 1 .. MaxDrops + 1
    BY StreamAssumption DEF TypeOK
  <2>4. j \in Job /\ j.conn = drops + 1 /\ j.streams = Wanted /\ Adds(j)
    BY <2>2, <2>3 DEF Job, Wanted, Adds
  <2> HIDE DEF j
  <2>5. /\ n \in Nat /\ Len(queue') = n + 1 /\ queue'[n + 1] = j
        /\ \A i \in 1 .. n : queue'[i] = queue[i]
    BY <1>0, <2>1, <2>4, Grows
  <2>6. \A i \in 1 .. n : ~Mentions(i, x)'
    BY <1>1, <1>4, <2>5 DEF Mentions
  <2>7. Mentions(n + 1, x)' <=> x \in Wanted
    BY <1>1, <2>4, <2>5 DEF Mentions
  <2>8. ASSUME NEW i \in 1 .. Len(queue'), Latest(i, x)'
        PROVE  Adds(queue'[i]) <=> x \in Wanted'
    <3>1. Mentions(i, x)'
      BY <2>8 DEF Latest
    <3>2. i = n + 1 \/ i \in 1 .. n
      BY <2>5
    <3> QED  BY <1>2, <2>4, <2>5, <2>6, <2>7, <3>1, <3>2
  <2>9. n + 1 \in 1 .. Len(queue')
    BY <2>5
  <2> QED  BY <1>1, <1>2, <2>7, <2>8, <2>9 DEF Settled
<1> QED  BY <1>5, <1>6

LEMMA RequestSynced ==
    ASSUME TypeOK, Synced, UNCHANGED <<conn, link, subs, stale>>,
           NEW who \in Users \cup Clients,
           NEW op \in {"add", "remove", "addDepth", "removeDepth"},
           NEW streams \in SUBSET Stream, Send(who, op, streams),
           Wanted' = IF op \in {"add", "addDepth"} THEN Wanted \cup streams
                     ELSE Wanted \ streams
    PROVE  Synced'
<1>1. CASE conn = 0
  BY <1>1 DEF Synced
<1>2. ASSUME NEW j \in Job, queue' = Append(queue, j),
             j.who = who, j.op = op, j.streams = streams, j.conn = conn
      PROVE  Synced'
  <2>1. Adds(j) <=> op \in {"add", "addDepth"}
    BY <1>2 DEF Adds
  <2> QED  BY <1>2, <2>1, Requested
<1> QED  BY <1>1, <1>2, Sends

LEMMA LeaveSynced ==
    ASSUME TypeOK, Synced, NEW c \in Clients, NEW s \in Symbols, Leave(c, s)
    PROVE  Synced'
<1>1. UNCHANGED <<symbols, conn, link, subs, stale>>
  BY DEF Leave, connection, flags
<1>2. CASE viewers[s] = {c} /\ s \in depth
  <2>1. depth' = depth \ {s} /\ Send(c, "removeDepth", {Depth(s)})
    BY <1>2 DEF Leave
  <2>2. {Depth(s)} \in SUBSET Stream
    BY DEF Depth, Stream
  <2>3. Wanted' = Wanted \ {Depth(s)}
    BY <1>1, <2>1 DEF Wanted, Streams, Depth, Ticker
  <2> QED  BY <1>1, <2>1, <2>2, <2>3, RequestSynced
<1>3. CASE ~(viewers[s] = {c} /\ s \in depth)
  <2>1. UNCHANGED <<depth, queue>>
    BY <1>3 DEF Leave
  <2> QED  BY <1>1, <2>1, Quiet
<1> QED  BY <1>2, <1>3

LEMMA SyncedKept == TypeOK /\ Numbered /\ Synced /\ [Next]_vars => Synced'
<1> SUFFICES ASSUME TypeOK, Numbered, Synced, [Next]_vars PROVE Synced'
  OBVIOUS
<1>1. CASE SendOk \/ SendFails \/ Connect
  BY <1>1, SendOkSynced, SendFailsSynced, ConnectSynced
<1>2. CASE Dial \/ ConnectFails \/ Drop \/ Stop \/ UNCHANGED vars
  BY <1>2, Quiet DEF Dial, ConnectFails, Drop, Stop, vars, wanted, flags, connection
<1>3. CASE Disconnected
  BY <1>3 DEF Disconnected, Synced
<1>4. ASSUME NEW u \in Users, NEW s \in Symbols, AddSymbol(u, s)
      PROVE  Synced'
  <2>1. /\ symbols' = symbols \cup {s} /\ Send(u, "add", {Ticker(s)})
        /\ UNCHANGED <<depth, conn, link, subs, stale>>
    BY <1>4 DEF AddSymbol, connection, flags
  <2>2. {Ticker(s)} \in SUBSET Stream
    BY DEF Ticker, Stream
  <2>3. Wanted' = Wanted \cup {Ticker(s)}
    BY <2>1 DEF Wanted, Streams
  <2> QED  BY <2>1, <2>2, <2>3, RequestSynced
<1>5. ASSUME NEW u \in Users, NEW s \in Symbols, RemoveSymbol(u, s)
      PROVE  Synced'
  <2> DEFINE streams == Streams({s}, depth \cap {s})
  <2>1. /\ symbols' = symbols \ {s} /\ depth' = depth \ {s} /\ Send(u, "remove", streams)
        /\ UNCHANGED <<conn, link, subs, stale>>
    BY <1>5 DEF RemoveSymbol, connection
  <2>2. streams \in SUBSET Stream
    BY StreamTypes
  <2>3. Wanted' = Wanted \ streams
    BY <2>1 DEF Wanted, Streams, Depth, Ticker
  <2> HIDE DEF streams
  <2> QED  BY <2>1, <2>2, <2>3, RequestSynced
<1>6. ASSUME NEW c \in Clients, NEW s \in Symbols, FirstView(c, s)
      PROVE  Synced'
  <2>1. UNCHANGED <<symbols, conn, link, subs, stale>>
    BY <1>6 DEF FirstView, connection, flags
  <2>2. CASE s \in depth
    <3>1. UNCHANGED <<depth, queue>>
      BY <1>6, <2>2 DEF FirstView
    <3> QED  BY <2>1, <3>1, Quiet
  <2>3. CASE s \notin depth
    <3>1. depth' = depth \cup {s} /\ Send(c, "addDepth", {Depth(s)})
      BY <1>6, <2>3 DEF FirstView
    <3>2. {Depth(s)} \in SUBSET Stream
      BY DEF Depth, Stream
    <3>3. Wanted' = Wanted \cup {Depth(s)}
      BY <2>1, <3>1 DEF Wanted, Streams
    <3> QED  BY <2>1, <3>1, <3>2, <3>3, RequestSynced
  <2> QED  BY <2>2, <2>3
<1>7. ASSUME NEW c \in Clients, NEW s \in Symbols, JoinView(c, s) \/ Unview(c, s)
      PROVE  Synced'
  <2>1. CASE JoinView(c, s)
    BY <2>1, Quiet DEF JoinView, connection, flags
  <2>2. CASE Unview(c, s)
    BY <2>2, LeaveSynced DEF Unview
  <2> QED  BY <1>7, <2>1, <2>2
<1>8. ASSUME NEW c \in Clients, Open(c) \/ Close(c) \/ CleanUp(c)
      PROVE  Synced'
  <2>1. CASE \E s \in Symbols : Leave(c, s)
    BY <2>1, LeaveSynced
  <2>2. CASE UNCHANGED <<wanted, queue, connection, flags>>
    BY <2>2, Quiet DEF wanted, connection, flags
  <2> QED  BY <1>8, <2>1, <2>2 DEF Open, Close, CleanUp
<1> QED
  BY <1>1, <1>2, <1>3, <1>4, <1>5, <1>6, <1>7, <1>8 DEF Next
-------------------------------------------------------------------------------
(* Order books *)

LEMMA LeaveBooks ==
    ASSUME TypeOK, BooksForViewers, NEW c \in Clients, NEW s \in Symbols, Leave(c, s),
           UNCHANGED client
    PROVE  BooksForViewers'
<1>1. CASE failed
  BY <1>1 DEF Leave, flags, BooksForViewers
<1>2. CASE ~failed
  <2>1. ASSUME NEW t \in Symbols
        PROVE  (t \in depth') <=> (viewers'[t] # {})
    BY <1>2, <2>1 DEF Leave, BooksForViewers, TypeOK
  <2>2. ASSUME NEW t \in Symbols, NEW b \in viewers'[t]
        PROVE  client'[b] # "gone"
    BY <1>2, <2>2 DEF Leave, BooksForViewers, TypeOK
  <2> QED  BY <2>1, <2>2 DEF BooksForViewers
<1> QED  BY <1>1, <1>2

LEMMA BooksKept == TypeOK /\ Shaped /\ BooksForViewers /\ [Next]_vars => BooksForViewers'
<1> SUFFICES ASSUME TypeOK, Shaped, BooksForViewers, [Next]_vars PROVE BooksForViewers'
  OBVIOUS
<1>1. CASE UNCHANGED <<depth, viewers, client, failed>>
  BY <1>1 DEF BooksForViewers
<1>2. CASE \/ SendOk \/ Dial \/ Connect \/ ConnectFails \/ Drop \/ Disconnected \/ Stop
           \/ UNCHANGED vars
  <2>1. UNCHANGED <<depth, viewers, client, failed>>
    BY <1>2 DEF SendOk, Dial, Connect, ConnectFails, Drop, Disconnected, Stop, vars, wanted, flags
  <2> QED  BY <1>1, <2>1
<1>3. CASE SendFails
  <2>1. queue # <<>> /\ queue' = Tail(queue) /\ RollBack(Job1) /\ UNCHANGED viewers
    BY <1>3 DEF SendFails
  <2>2. Fits(Job1)
    BY <2>1, Shrinks DEF Shaped
  <2>3. CASE Job1.op # "add"
    BY <2>1, <2>3 DEF RollBack, BooksForViewers
  <2>4. CASE Job1.op = "add"
    <3>1. Job1.who \in Users
      BY <2>2, <2>4 DEF Fits
    <3>2. \A c \in Clients : c # Job1.who
      BY <3>1, StreamAssumption
    <3>3. client' = client
      BY <1>3, <3>2 DEF SendFails, TypeOK
    <3>4. depth' = depth
      BY <2>1, <2>4 DEF RollBack
    <3>5. failed' <=> failed
      BY <2>1, <2>4 DEF RollBack
    <3> QED  BY <2>1, <3>3, <3>4, <3>5 DEF BooksForViewers
  <2> QED  BY <2>3, <2>4
<1>4. ASSUME NEW u \in Users, NEW s \in Symbols, AddSymbol(u, s)
      PROVE  BooksForViewers'
  BY <1>1, <1>4 DEF AddSymbol, flags
<1>5. ASSUME NEW u \in Users, NEW s \in Symbols, RemoveSymbol(u, s)
      PROVE  BooksForViewers'
  <2>1. /\ depth' = depth \ {s} /\ failed' = (failed \/ viewers[s] # {})
        /\ UNCHANGED <<viewers, client>>
    BY <1>5 DEF RemoveSymbol
  <2> QED  BY <2>1 DEF BooksForViewers
<1>6. ASSUME NEW c \in Clients, NEW s \in Symbols, JoinView(c, s)
      PROVE  BooksForViewers'
  <2>1. /\ client[c] = "open" /\ viewers[s] # {}
        /\ viewers' = [viewers EXCEPT ![s] = @ \cup {c}]
        /\ UNCHANGED <<depth, client, failed>>
    BY <1>6 DEF JoinView, Serving, flags
  <2>2. \A t \in Symbols : viewers'[t] = IF t = s THEN viewers[s] \cup {c} ELSE viewers[t]
    BY <2>1 DEF TypeOK
  <2> QED  BY <2>1, <2>2 DEF BooksForViewers
<1>7. ASSUME NEW c \in Clients, NEW s \in Symbols, FirstView(c, s)
      PROVE  BooksForViewers'
  <2>1. /\ client[c] = "open" /\ viewers' = [viewers EXCEPT ![s] = {c}]
        /\ depth' = depth \cup {s} /\ UNCHANGED <<client, failed>>
    BY <1>7 DEF FirstView, Serving, flags
  <2>2. \A t \in Symbols : viewers'[t] = IF t = s THEN {c} ELSE viewers[t]
    BY <2>1 DEF TypeOK
  <2> QED  BY <2>1, <2>2 DEF BooksForViewers
<1>8. ASSUME NEW c \in Clients, NEW s \in Symbols, Unview(c, s)
      PROVE  BooksForViewers'
  BY <1>8, LeaveBooks DEF Unview
<1>9. ASSUME NEW c \in Clients, Open(c) \/ Close(c) \/ CleanUp(c)
      PROVE  BooksForViewers'
  <2>1. CASE \E s \in Symbols : Leave(c, s) /\ UNCHANGED client
    BY <2>1, LeaveBooks
  <2>2. CASE /\ UNCHANGED <<wanted, flags>>
             /\ \/ \E to \in {"open", "closing"} : client' = [client EXCEPT ![c] = to]
                \/ /\ client' = [client EXCEPT ![c] = "gone"]
                   /\ \A s \in Symbols : c \notin viewers[s]
    <3>1. UNCHANGED <<depth, viewers, failed>>
      BY <2>2 DEF wanted, flags
    <3>2. \A b \in Clients : client'[b] # client[b] => b = c
      BY <2>2 DEF TypeOK
    <3>3. client'[c] # "gone" \/ \A s \in Symbols : c \notin viewers[s]
      BY <2>2 DEF TypeOK
    <3>4. \A s \in Symbols : viewers[s] \subseteq Clients
      BY DEF TypeOK
    <3> QED  BY <3>1, <3>2, <3>3, <3>4 DEF BooksForViewers
  <2> QED  BY <1>9, <2>1, <2>2 DEF Open, Close, CleanUp
<1> QED
  BY <1>2, <1>3, <1>4, <1>5, <1>6, <1>7, <1>8, <1>9 DEF Next
-------------------------------------------------------------------------------
(* Theorems about the connection *)

StreamInv == TypeOK /\ Shaped /\ Numbered /\ Synced /\ BooksForViewers

LEMMA StreamStarts == Init => StreamInv
<1> SUFFICES ASSUME Init PROVE StreamInv
  OBVIOUS
<1>1. <<>> \in Seq(Job) /\ Len(<<>>) = 0 /\ 1 .. Len(<<>>) = {}
  BY EmptySeq
<1>2. drops = 0 /\ conn = 0 /\ link = 0 /\ queue = <<>> /\ loop = "down"
  BY DEF Init
<1>3. TypeOK
  <2>1. 0 \in 0 .. MaxDrops + 1 /\ 0 \in 0 .. MaxDrops
    BY StreamAssumption
  <2>2. /\ symbols \subseteq Symbols /\ depth = {} /\ viewers \in [Symbols -> SUBSET Clients]
        /\ client \in [Clients -> {"new", "open", "closing", "gone"}]
    BY DEF Init
  <2>3. subs = {} /\ stopping = FALSE /\ stale = FALSE /\ reinstated = FALSE /\ failed = FALSE
    BY DEF Init
  <2> QED  BY <1>1, <1>2, <2>1, <2>2, <2>3 DEF TypeOK
<1>4. Shaped /\ Numbered
  BY <1>1, <1>2 DEF Shaped, Numbered, Upto
<1>5. Synced /\ BooksForViewers
  BY DEF Init, Synced, BooksForViewers
<1> QED  BY <1>3, <1>4, <1>5 DEF StreamInv

\* Waiting messages, numbered connections and what the exchange sends fit together.
THEOREM StreamInductive == Spec => []StreamInv
<1>1. StreamInv /\ [Next]_vars => StreamInv'
  BY TypesKept, StepQueues, ShapedKept, NumberedKept, SyncedKept, BooksKept DEF StreamInv
<1> QED  BY <1>1, StreamStarts, PTL DEF Spec

\* Every variable keeps its type.
THEOREM Types == Spec => []TypeOK
<1>1. StreamInv => TypeOK
  BY DEF StreamInv
<1> QED  BY <1>1, StreamInductive, PTL

\* InSync: whatever was added, removed and lost, once the messages are out the
\* exchange sends what add_symbol, remove_symbol and their depth forms left wanted,
\* and a reconnect of _connect_once asks for just that.
THEOREM Sync == Spec => []InSync
<1>1. StreamInv => InSync
  <2> SUFFICES ASSUME StreamInv, queue = <<>>, loop = "receiving", link = conn, ~stale
               PROVE  subs = Streams(symbols, depth)
    BY DEF InSync
  <2>1. conn # 0
    BY DEF StreamInv, Numbered
  <2>2. 1 .. Len(queue) = {}
    BY EmptySeq
  <2>3. \A x \in Stream : x \in subs <=> x \in Wanted
    BY <2>1, <2>2 DEF StreamInv, Synced, Settled
  <2>4. subs \subseteq Stream /\ Wanted \subseteq Stream
    BY StreamTypes DEF StreamInv, TypeOK, Wanted
  <2> QED  BY <2>3, <2>4 DEF Wanted
<1> QED  BY <1>1, StreamInductive, PTL

\* BooksForViewers: subscribe_depth, unsubscribe_depth and the finally block of the
\* socket handler keep the depth streams to the symbols somebody watches.
THEOREM Books == Spec => []BooksForViewers
<1>1. StreamInv => BooksForViewers
  BY DEF StreamInv
<1> QED  BY <1>1, StreamInductive, PTL
===============================================================================
