-------------------------- MODULE TickBroadcasterProofs --------------------------
(***************************************************************************)
(* No wake-up is lost, and nobody sees a signal before its candle, for any *)
(* number of clients, kinds and publications.                              *)
(***************************************************************************)
EXTENDS TickBroadcaster, TLAPS

\* While the loop sends, what is pending arrived after its snapshot and has set
\* the event again; a loop that waits has nothing pending, or an event.
IInv ==
    /\ pc \in {"waiting", "sending"} /\ pending # Nothing => event
    /\ pc = "waiting" /\ stopping => event

LEMMA InitWakeup == Init => IInv
  BY DEF Init, IInv

\* Where a round goes on, or ends, the loop waits only if it is not to stop.
LEMMA ProceedWaits ==
    ASSUME NEW taken, NEW i, NEW connected, Proceed(taken, i, connected)
    PROVE  pc' \in {"waiting", "ended", "sending"} /\ (pc' = "waiting" => ~stopping)
  BY DEF Proceed

LEMMA StepWakeup == IInv /\ [Next]_vars => IInv'
  <1> SUFFICES ASSUME IInv, [Next]_vars PROVE IInv'
    OBVIOUS
  <1>1. CASE UNCHANGED <<pc, pending, event, stopping>>
    BY <1>1 DEF IInv, Nothing
  <1>2. ASSUME NEW c \in Clients, Connect(c) \/ View(c) \/ CloseSocket(c) \/ Disconnect(c)
        PROVE  IInv'
    BY <1>1, <1>2 DEF Connect, View, CloseSocket, Disconnect, values
  <1>3. ASSUME NEW ks \in Publications, Publish(ks)
        PROVE  IInv'
    <2>1. event' = TRUE
      BY <1>3 DEF Publish
    <2> QED BY <2>1 DEF IInv
  <1>4. CASE Wake
    <2>1. pc' = "sleeping"
      BY <1>4 DEF Wake
    <2> QED BY <2>1 DEF IInv
  <1>5. CASE Snapshot
    <2>1. CASE stopping
      <3>1. pc' = "ended"
        BY <1>5, <2>1 DEF Snapshot
      <3> QED BY <3>1 DEF IInv
    <2>2. CASE ~stopping
      <3>1. pending' = Nothing /\ stopping' = stopping
        BY <1>5, <2>2 DEF Snapshot
      <3> QED BY <2>2, <3>1 DEF IInv, Nothing
    <2> QED BY <2>1, <2>2
  <1>6. CASE Gathered
    <2>1. pc = "sending" /\ UNCHANGED <<pending, event, stopping>>
      BY <1>6 DEF Gathered, values
    <2>2. pending # Nothing => event
      BY <2>1 DEF IInv
    <2>3. pc' = "waiting" => ~stopping
      BY <1>6, ProceedWaits DEF Gathered
    <2> QED BY <2>1, <2>2, <2>3 DEF IInv, Nothing
  <1>7. ASSUME NEW c \in Clients, Sent(c) \/ SendRaises(c)
        PROVE  IInv'
    BY <1>1, <1>7 DEF Sent, SendRaises, values
  <1>8. CASE Stop
    <2>1. event' = TRUE
      BY <1>8 DEF Stop
    <2> QED BY <2>1 DEF IInv
  <1>9. CASE UNCHANGED vars
    BY <1>1, <1>9 DEF vars, values
  <1> QED BY <1>2, <1>3, <1>4, <1>5, <1>6, <1>7, <1>8, <1>9 DEF Next, Round

\* The loop never sleeps on a value or on the request to stop: whatever is
\* published between its snapshot, its sends and its wait has set the event anew.
THEOREM Wakeup == Spec => []NoLostWakeup
  <1>1. IInv => NoLostWakeup
    BY DEF IInv, NoLostWakeup
  <1> QED BY InitWakeup, StepWakeup, <1>1, PTL DEF Spec
-------------------------------------------------------------------------------
(* The kinds of a round are sent in order, to the clients there at the time *)

\* Clients are being sent to only while the loop sends; it sends a published kind.
Loop ==
    /\ pc # "sending" => sending = {} /\ broken = {}
    /\ pc = "sending" => Order[at] \in Kinds /\ batch[Order[at]] # 0

\* An open socket is a client's; a send raises only to a closed one.
Sockets ==
    /\ \A c \in Clients : socket[c] = "open" => c \in clients
    /\ \A c \in broken : socket[c] = "closed"

\* A signal waits, and is taken, together with a candle that is no older.
CandleFirst ==
    /\ pending["signals"] # 0 => pending["candles"] >= pending["signals"]
    /\ batch["signals"] # 0 => batch["candles"] >= batch["signals"]

\* Nothing is newer than the last publication, and what is pending is newer than
\* all that was taken or sent before.
Reached ==
    /\ \A k \in Kinds : pending[k] <= version /\ batch[k] <= version
    /\ \A c \in Clients : \A k \in Kinds : got[c][k] <= version
NewerPending ==
    \A k \in Kinds : pending[k] # 0 =>
        \A j \in Kinds : batch[j] < pending[k] /\ \A c \in Clients : got[c][j] < pending[k]

\* Until the candle of a round is out, it is newer than every signal sent.
NewCandle ==
    pc = "sending" /\ at <= 2 /\ batch["candles"] # 0 =>
        \A c \in Clients : got[c]["signals"] < batch["candles"]

\* Whoever is connected was sent the candle of the round before its signal, or
\* came after both were published.
CandleSeen ==
    pc = "sending" => \A c \in Clients : socket[c] = "open" =>
        \/ since[c]["signals"] >= batch["signals"]
        \/ got[c]["candles"] >= batch["signals"]
        \/ at < 2
        \/ at = 2 /\ c \in sending

Ordered ==
    /\ TypeOK /\ Loop /\ Sockets /\ CandleFirst /\ Reached /\ NewerPending
    /\ NewCandle /\ CandleSeen /\ CauseFirst

LEMMA OrderFacts ==
    /\ Len(Order) = 5 /\ Order[1] = "ticks" /\ Order[2] = "candles" /\ Order[3] = "books"
    /\ Order[4] = "indicators" /\ Order[5] = "signals"
  BY DEF Order

\* A round goes on with the first kind that has something to send and somebody
\* to send it to, or is over.
LEMMA ProceedFacts ==
  ASSUME NEW taken, NEW i \in 1 .. 6, NEW connected, Proceed(taken, i, connected)
  PROVE  \/ /\ pc' \in {"ended", "waiting"} /\ batch' = Nothing /\ at' = 1 /\ sending' = {}
         \/ /\ pc' = "sending" /\ batch' = taken /\ at' \in i .. 5
            /\ Order[at'] \in Kinds /\ taken[Order[at']] # 0
            /\ sending' = To(Order[at'], connected)
            /\ \A j \in i .. 5 : j < at' /\ Order[j] \in Kinds =>
                 taken[Order[j]] = 0 \/ To(Order[j], connected) = {}
  <1> DEFINE sendable == {j \in i .. 5 : /\ Order[j] \in Kinds /\ taken[Order[j]] # 0
                                          /\ To(Order[j], connected) # {}}
  <1>1. Len(Order) = 5
    BY OrderFacts
  <1>2. CASE sendable = {}
    BY <1>1, <1>2 DEF Proceed
  <1>3. CASE sendable # {}
    <2>1. /\ pc' = "sending" /\ batch' = taken
          /\ at' = CHOOSE j \in sendable : \A k \in sendable : j <= k
          /\ sending' = To(Order[at'], connected)
      BY <1>1, <1>3 DEF Proceed
    <2>2. \E j \in sendable : \A k \in sendable : j <= k
      <3>1. \A j \in sendable : j = 1 \/ j = 2 \/ j = 3 \/ j = 4 \/ j = 5
        OBVIOUS
      <3> HIDE DEF sendable
      <3>2. CASE 1 \in sendable
        BY <3>1, <3>2
      <3>3. CASE 1 \notin sendable /\ 2 \in sendable
        BY <3>1, <3>3
      <3>4. CASE 1 \notin sendable /\ 2 \notin sendable /\ 3 \in sendable
        BY <3>1, <3>4
      <3>5. CASE 1 \notin sendable /\ 2 \notin sendable /\ 3 \notin sendable
        <4>1. CASE 4 \in sendable
          BY <3>1, <3>5, <4>1
        <4>2. CASE 4 \notin sendable
          BY <1>3, <3>1, <3>5, <4>2
        <4> QED  BY <4>1, <4>2
      <3> QED  BY <3>2, <3>3, <3>4, <3>5
    <2>3. at' \in sendable /\ \A k \in sendable : at' <= k
      <3> HIDE DEF sendable
      <3> QED  BY <2>1, <2>2
    <2>4. at' \in i .. 5 /\ Order[at'] \in Kinds /\ taken[Order[at']] # 0
      BY <2>3
    <2>5. ASSUME NEW j \in i .. 5, j < at'
          PROVE  j \notin sendable
      <3>1. j \in Int /\ at' \in Int
        BY <2>4, <2>5
      <3>2. ~(at' <= j)
        BY <2>5, <3>1
      <3> HIDE DEF sendable
      <3> QED  BY <2>3, <3>2
    <2> QED  BY <2>1, <2>4, <2>5
  <1> QED  BY <1>2, <1>3

LEMMA InitOrdered == Init => Ordered
  <1> SUFFICES ASSUME Init PROVE Ordered
    OBVIOUS
  <1>1. 0 \in Versions /\ Nothing \in [Kinds -> Versions] /\ \A k \in Kinds : Nothing[k] = 0
    BY BroadcastAssumption DEF Versions, Nothing
  <1>2. TypeOK
    <2>1. socket \in [Clients -> {"new", "open", "closed"}]
      BY DEF Init
    <2>2. got \in [Clients -> [Kinds -> Versions]] /\ since \in [Clients -> [Kinds -> Versions]]
      BY <1>1 DEF Init
    <2>3. at \in 1 .. Len(Order)
      BY OrderFacts DEF Init
    <2>4. /\ clients \subseteq Clients /\ viewers \subseteq Clients
          /\ sending \subseteq Clients /\ broken \subseteq Clients \ sending
          /\ event \in BOOLEAN /\ stopping \in BOOLEAN
      BY DEF Init
    <2> QED  BY <1>1, <2>1, <2>2, <2>3, <2>4 DEF Init, TypeOK
  <1>3. /\ Loop /\ Sockets /\ CandleFirst /\ Reached /\ NewerPending
        /\ NewCandle /\ CandleSeen /\ CauseFirst
    BY <1>1, BroadcastAssumption
    DEF Init, Loop, Sockets, CandleFirst, Reached, NewerPending, NewCandle, CandleSeen, CauseFirst
  <1> QED  BY <1>2, <1>3 DEF Ordered

\* Browsers that come and go.
LEMMA SocketOrdered ==
  ASSUME Ordered, NEW c \in Clients, Connect(c) \/ View(c) \/ CloseSocket(c) \/ Disconnect(c)
  PROVE  Ordered'
  <1>1. UNCHANGED <<version, newest, pending, batch, at, sending, broken, got, event, stopping, pc>>
    BY DEF Connect, View, CloseSocket, Disconnect, values, round
  <1>2. version \in Versions /\ {"candles", "signals"} \subseteq Kinds /\ version \in Int
    BY BroadcastAssumption DEF Ordered, TypeOK, Versions
  <1>3. TypeOK'
    <2>1. \A v \in Versions : [k \in Kinds |-> v] \in [Kinds -> Versions]
      OBVIOUS
    <2>2. since' \in [Clients -> [Kinds -> Versions]]
      <3>1. CASE Connect(c)
        BY <1>2, <2>1, <3>1 DEF Ordered, TypeOK, Connect
      <3>2. CASE View(c)
        <4>1. [k \in Kinds |-> IF k = "books" THEN version ELSE since[c][k]] \in [Kinds -> Versions]
          BY <1>2 DEF Ordered, TypeOK
        <4> QED  BY <3>2, <4>1 DEF Ordered, TypeOK, View
      <3>3. CASE CloseSocket(c) \/ Disconnect(c)
        BY <3>3 DEF Ordered, TypeOK, CloseSocket, Disconnect
      <3> QED  BY <3>1, <3>2, <3>3
    <2>3. /\ socket' \in [Clients -> {"new", "open", "closed"}]
          /\ clients' \subseteq Clients /\ viewers' \subseteq Clients
      BY DEF Ordered, TypeOK, Connect, View, CloseSocket, Disconnect
    <2> QED  BY <1>1, <2>2, <2>3 DEF Ordered, TypeOK
  <1>4. Loop' /\ CandleFirst' /\ Reached' /\ NewerPending' /\ NewCandle'
    BY <1>1 DEF Ordered, Loop, CandleFirst, Reached, NewerPending, NewCandle
  <1>5. Sockets'
    BY <1>1 DEF Ordered, TypeOK, Sockets, Connect, View, CloseSocket, Disconnect
  <1>6. \A d \in Clients : \/ /\ since'[d]["signals"] = since[d]["signals"]
                              /\ socket'[d] = "open" => socket[d] = "open"
                           \/ since'[d]["signals"] = version
    BY <1>2 DEF Ordered, TypeOK, Connect, View, CloseSocket, Disconnect
  <1>7. CandleSeen'
    BY <1>1, <1>2, <1>6 DEF Ordered, Reached, CandleSeen
  <1>8. CauseFirst'
    <2>1. ASSUME NEW d \in Clients, got[d]["signals"] > since'[d]["signals"]
          PROVE  got[d]["candles"] >= got[d]["signals"]
      <3>1. got[d]["signals"] <= version /\ got[d]["signals"] \in Int
        BY <1>2 DEF Ordered, Reached, TypeOK, Versions
      <3>2. since'[d]["signals"] = since[d]["signals"]
        BY <1>2, <1>6, <2>1, <3>1
      <3> QED  BY <2>1, <3>2 DEF Ordered, CauseFirst
    <2> QED  BY <1>1, <2>1 DEF CauseFirst
  <1> QED  BY <1>3, <1>4, <1>5, <1>7, <1>8 DEF Ordered

\* A publication is newer than everything, and a signal comes with its candle.
LEMMA PublishOrdered ==
  ASSUME Ordered, NEW ks \in Publications, Publish(ks)
  PROVE  Ordered'
  <1>1. /\ version' = version + 1 /\ version' \in Versions /\ version \in Nat
        /\ pending' = [k \in Kinds |-> IF k \in ks THEN version' ELSE pending[k]]
        /\ newest' = [k \in Kinds |-> IF k \in ks THEN version' ELSE newest[k]]
        /\ UNCHANGED <<socket, clients, viewers, since, batch, at, sending, broken, got, stopping,
                       pc>>
        /\ event' = TRUE
    BY BroadcastAssumption DEF Ordered, TypeOK, Versions, Publish, sockets, round
  <1>2. "signals" \in ks => "candles" \in ks
    BY BroadcastAssumption DEF Publications
  <1>3. {"candles", "signals"} \subseteq Kinds
    BY BroadcastAssumption
  <1>4. TypeOK'
    BY <1>1 DEF Ordered, TypeOK
  <1>5. Loop' /\ Sockets' /\ NewCandle' /\ CandleSeen' /\ CauseFirst'
    BY <1>1 DEF Ordered, Loop, Sockets, NewCandle, CandleSeen, CauseFirst
  <1>6. /\ \A k \in Kinds : pending[k] \in Nat /\ batch[k] \in Nat
        /\ \A d \in Clients : \A k \in Kinds : got[d][k] \in Nat
    BY DEF Ordered, TypeOK, Versions
  <1>7. CandleFirst'
    BY <1>1, <1>2, <1>3, <1>6 DEF Ordered, Reached, CandleFirst
  <1>8. Reached' /\ NewerPending'
    BY <1>1, <1>6 DEF Ordered, Reached, NewerPending
  <1> QED  BY <1>4, <1>5, <1>7, <1>8 DEF Ordered

\* The snapshot starts a round with what was pending.
LEMMA SnapshotOrdered ==
  ASSUME Ordered, Snapshot
  PROVE  Ordered'
  <1> USE DEF Ordered
  <1>1. /\ UNCHANGED <<socket, clients, viewers, since, version, newest, broken, got, event,
                       stopping>>
        /\ broken = {} /\ pc = "sleeping" /\ sending = {}
        /\ {"candles", "signals"} \subseteq Kinds /\ 0 \in Versions
        /\ Nothing \in [Kinds -> Versions] /\ \A k \in Kinds : Nothing[k] = 0
    BY BroadcastAssumption DEF Snapshot, sockets, Loop, Versions, Nothing
  <1>2. CASE stopping
    <2>1. pc' = "ended" /\ UNCHANGED <<pending, batch, at, sending>>
      BY <1>2 DEF Snapshot
    <2>2. TypeOK' /\ Loop' /\ Sockets' /\ CandleFirst'
      BY <1>1, <2>1 DEF TypeOK, Loop, Sockets, CandleFirst
    <2>3. Reached' /\ NewerPending' /\ NewCandle' /\ CandleSeen' /\ CauseFirst'
      BY <1>1, <2>1 DEF Reached, NewerPending, NewCandle, CandleSeen, CauseFirst
    <2> QED  BY <2>2, <2>3
  <1>3. CASE ~stopping
    <2>1. pending' = Nothing /\ Proceed(pending, 1, clients)
      BY <1>3 DEF Snapshot
    <2>2. CASE pc' \in {"ended", "waiting"} /\ batch' = Nothing /\ at' = 1 /\ sending' = {}
      <3>1. TypeOK' /\ Loop' /\ Sockets' /\ CandleFirst'
        BY <1>1, <2>1, <2>2, OrderFacts DEF TypeOK, Loop, Sockets, CandleFirst
      <3>2. Reached' /\ NewerPending' /\ NewCandle' /\ CandleSeen' /\ CauseFirst'
        BY <1>1, <2>1, <2>2
        DEF TypeOK, Versions, Reached, NewerPending, NewCandle, CandleSeen, CauseFirst
      <3> QED  BY <3>1, <3>2
    <2>3. CASE /\ pc' = "sending" /\ batch' = pending /\ at' \in 1 .. 5
               /\ Order[at'] \in Kinds /\ pending[Order[at']] # 0
               /\ sending' = To(Order[at'], clients)
               /\ \A j \in 1 .. 5 : j < at' /\ Order[j] \in Kinds =>
                    pending[Order[j]] = 0 \/ To(Order[j], clients) = {}
      <3>1. sending' \subseteq Clients
        BY <2>3 DEF To, TypeOK
      <3>2. TypeOK' /\ Loop' /\ Sockets' /\ CandleFirst'
        BY <1>1, <2>1, <2>3, <3>1, OrderFacts DEF TypeOK, Loop, Sockets, CandleFirst
      <3>3. Reached' /\ NewerPending' /\ CauseFirst'
        <4>1. Reached'
          BY <1>1, <2>1, <2>3 DEF TypeOK, Versions, Reached
        <4>2. NewerPending' /\ CauseFirst'
          BY <1>1, <2>1 DEF NewerPending, CauseFirst
        <4> QED  BY <4>1, <4>2
      <3>4. NewCandle'
        BY <1>1, <2>3 DEF NewerPending, NewCandle
      <3>5. CandleSeen'
        <4>1. SUFFICES ASSUME NEW c \in Clients, socket[c] = "open", at' >= 2
                       PROVE  \/ since[c]["signals"] >= pending["signals"]
                              \/ at' = 2 /\ c \in sending'
          BY <1>1, <2>3 DEF CandleSeen
        <4>2. c \in clients
          BY <4>1 DEF Sockets
        <4>3. CASE at' = 2
          BY <2>3, <4>2, <4>3, OrderFacts DEF To
        <4>4. CASE at' > 2
          <5>1. 2 \in 1 .. 5 /\ 2 < at'
            BY <2>3, <4>4
          <5>2. pending["candles"] = 0
            BY <1>1, <2>3, <4>2, <5>1, OrderFacts DEF To
          <5>3. pending["signals"] = 0
            BY <1>1, <5>2 DEF CandleFirst, TypeOK, Versions
          <5> QED  BY <1>1, <5>3 DEF TypeOK, Versions
        <4> QED  BY <2>3, <4>1, <4>3, <4>4
      <3> QED  BY <3>2, <3>3, <3>4, <3>5
    <2> QED  BY <2>1, <2>2, <2>3, ProceedFacts
  <1> QED  BY <1>2, <1>3

\* A kind reaches a client; the candle of a round does before its signal.
LEMMA SentOrdered ==
  ASSUME Ordered, NEW c \in Clients, Sent(c)
  PROVE  Ordered'
  <1> USE DEF Ordered
  <1> DEFINE kind == Order[at]
  <1>1. /\ UNCHANGED <<socket, clients, viewers, since, version, newest, pending, batch, at,
                       broken, event, stopping, pc>>
        /\ sending' = sending \ {c} /\ c \in sending /\ socket[c] = "open" /\ pc = "sending"
        /\ kind \in Kinds /\ at \in 1 .. 5 /\ {"candles", "signals"} \subseteq Kinds
    BY BroadcastAssumption, OrderFacts DEF Sent, sockets, values, Loop, TypeOK
  <1>2. /\ got' \in [Clients -> [Kinds -> Versions]]
        /\ \A d \in Clients, k \in Kinds :
             got'[d][k] = IF d = c /\ k = kind THEN batch[kind] ELSE got[d][k]
    BY <1>1 DEF Sent, TypeOK
  <1>3. TypeOK' /\ Loop' /\ Sockets' /\ CandleFirst'
    BY <1>1, <1>2 DEF TypeOK, Loop, Sockets, CandleFirst
  <1>4. Reached' /\ NewerPending'
    BY <1>1, <1>2 DEF Reached, NewerPending
  <1>5. /\ \A k \in Kinds : batch[k] \in Nat
        /\ \A d \in Clients, k \in Kinds : got[d][k] \in Nat /\ since[d][k] \in Nat
    BY DEF TypeOK, Versions
  <1>6. (kind = "signals" <=> at = 5) /\ (kind = "candles" <=> at = 2)
    BY <1>1, OrderFacts
  <1> HIDE DEF kind
  <1>7. NewCandle'
    BY <1>1, <1>2, <1>6 DEF NewCandle
  <1>8. CandleSeen'
    BY <1>1, <1>2, <1>5, <1>6 DEF CandleSeen, CandleFirst
  <1>9. CauseFirst'
    <2>1. SUFFICES ASSUME got'[c]["signals"] > since[c]["signals"]
                   PROVE  got'[c]["candles"] >= got'[c]["signals"]
      BY <1>1, <1>2 DEF CauseFirst
    <2>2. CASE at = 5
      BY <1>1, <1>2, <1>5, <1>6, <2>1, <2>2 DEF CandleSeen
    <2>3. CASE at = 2
      <3>1. batch["candles"] # 0
        BY <1>1, <1>6, <2>3 DEF Loop, kind
      <3>2. got[c]["signals"] < batch["candles"]
        BY <1>1, <2>3, <3>1 DEF NewCandle
      <3>3. got'[c]["candles"] = batch["candles"] /\ got'[c]["signals"] = got[c]["signals"]
        BY <1>1, <1>2, <1>6, <2>3
      <3> QED  BY <1>1, <1>5, <3>2, <3>3
    <2>4. CASE at # 2 /\ at # 5
      BY <1>1, <1>2, <1>6, <2>1, <2>4 DEF CauseFirst
    <2> QED  BY <2>2, <2>3, <2>4
  <1> QED  BY <1>3, <1>4, <1>7, <1>8, <1>9

LEMMA RaisesOrdered ==
  ASSUME Ordered, NEW c \in Clients, SendRaises(c)
  PROVE  Ordered'
  <1> USE DEF Ordered
  <1>1. /\ UNCHANGED <<socket, clients, viewers, since, version, newest, pending, batch, at, got,
                       event, stopping, pc>>
        /\ sending' = sending \ {c} /\ broken' = broken \cup {c}
        /\ c \in sending /\ socket[c] = "closed"
    BY DEF SendRaises, sockets, values
  <1>2. TypeOK' /\ Loop' /\ Sockets' /\ CandleFirst'
    BY <1>1 DEF TypeOK, Loop, Sockets, CandleFirst
  <1>3. Reached' /\ NewerPending' /\ NewCandle' /\ CandleSeen' /\ CauseFirst'
    BY <1>1 DEF Reached, NewerPending, NewCandle, CandleSeen, CauseFirst
  <1> QED  BY <1>2, <1>3

\* The next kind goes to the clients that are left; no open one was dropped.
LEMMA GatheredOrdered ==
  ASSUME Ordered, Gathered
  PROVE  Ordered'
  <1> USE DEF Ordered
  <1>1. /\ UNCHANGED <<socket, viewers, since, version, newest, pending, got, event, stopping>>
        /\ clients' = clients \ broken /\ broken' = {} /\ pc = "sending" /\ sending = {}
        /\ {"candles", "signals"} \subseteq Kinds /\ 0 \in Versions /\ at \in 1 .. 5
        /\ Nothing \in [Kinds -> Versions] /\ \A k \in Kinds : Nothing[k] = 0
    BY BroadcastAssumption, OrderFacts DEF Gathered, values, Versions, Nothing, TypeOK
  <1>2. Sockets' /\ clients' \subseteq Clients
    BY <1>1 DEF Sockets, TypeOK
  <1>3. Proceed(batch, at + 1, clients') /\ at + 1 \in 1 .. 6
    BY <1>1 DEF Gathered
  <1>4. CASE pc' \in {"ended", "waiting"} /\ batch' = Nothing /\ at' = 1 /\ sending' = {}
    <2>1. TypeOK' /\ Loop' /\ CandleFirst'
      BY <1>1, <1>2, <1>4, OrderFacts DEF TypeOK, Loop, CandleFirst
    <2>2. Reached' /\ NewerPending' /\ CauseFirst'
      <3>1. Reached'
        BY <1>1, <1>4 DEF TypeOK, Versions, Reached
      <3>2. NewerPending'
        BY <1>1, <1>4 DEF TypeOK, Versions, NewerPending
      <3>3. CauseFirst'
        BY <1>1 DEF CauseFirst
      <3> QED  BY <3>1, <3>2, <3>3
    <2>3. NewCandle' /\ CandleSeen'
      BY <1>1, <1>4 DEF TypeOK, Versions, NewCandle, CandleSeen
    <2> QED  BY <1>2, <2>1, <2>2, <2>3
  <1>5. CASE /\ pc' = "sending" /\ batch' = batch /\ at' \in at + 1 .. 5
             /\ Order[at'] \in Kinds /\ batch[Order[at']] # 0
             /\ sending' = To(Order[at'], clients')
             /\ \A j \in at + 1 .. 5 : j < at' /\ Order[j] \in Kinds =>
                  batch[Order[j]] = 0 \/ To(Order[j], clients') = {}
    <2>1. sending' \subseteq Clients
      BY <1>2, <1>5 DEF To, TypeOK
    <2>2. TypeOK' /\ Loop' /\ CandleFirst'
      <3>1. at' \in 1 .. Len(Order)
        BY <1>1, <1>5, OrderFacts
      <3>2. TypeOK'
        BY <1>1, <1>2, <1>5, <2>1, <3>1 DEF TypeOK
      <3>3. Loop'
        BY <1>1, <1>5 DEF Loop
      <3>4. CandleFirst'
        BY <1>1, <1>5 DEF CandleFirst
      <3> QED  BY <3>2, <3>3, <3>4
    <2>3. Reached' /\ NewerPending' /\ CauseFirst'
      BY <1>1, <1>5 DEF Reached, NewerPending, CauseFirst
    <2>4. NewCandle'
      BY <1>1, <1>5 DEF NewCandle
    <2>5. CandleSeen'
      <3>1. SUFFICES ASSUME NEW c \in Clients, socket[c] = "open", at' >= 2,
                            ~(since[c]["signals"] >= batch["signals"]),
                            ~(got[c]["candles"] >= batch["signals"])
                     PROVE  at' = 2 /\ c \in sending'
        <4>1. at' \in Int
          BY <1>1, <1>5
        <4>2. ~(at' < 2) => at' >= 2
          BY <4>1
        <4> QED  BY <1>1, <1>5, <4>2 DEF CandleSeen
      <3>2. c \in clients' /\ at < 2
        BY <1>1, <1>2, <3>1 DEF Sockets, CandleSeen
      <3>3. CASE at' = 2
        BY <1>5, <3>2, <3>3, OrderFacts DEF To
      <3>4. CASE at' > 2
        <4>1. 2 \in at + 1 .. 5 /\ 2 < at'
          <5>1. at' \in Int /\ at \in Int
            BY <1>1, <1>5
          <5> QED  BY <3>2, <3>4, <5>1
        <4>2. batch["candles"] = 0
          BY <1>1, <1>5, <3>2, <4>1, OrderFacts DEF To
        <4>3. batch["signals"] = 0
          BY <1>1, <4>2 DEF CandleFirst, TypeOK, Versions
        <4> QED  BY <1>1, <3>1, <4>3 DEF TypeOK, Versions
      <3> QED  BY <1>5, <3>1, <3>3, <3>4
    <2> QED  BY <1>2, <2>2, <2>3, <2>4, <2>5
  <1> QED  BY <1>3, <1>4, <1>5, ProceedFacts

LEMMA StepOrdered == Ordered /\ [Next]_vars => Ordered'
  <1> SUFFICES ASSUME Ordered, [Next]_vars PROVE Ordered'
    OBVIOUS
  <1>1. CASE Wake \/ Stop \/ UNCHANGED vars
    <2>1. UNCHANGED <<sockets, values, round>>
      BY <1>1 DEF Wake, Stop, vars
    <2>2. UNCHANGED <<socket, clients, viewers, since, version, newest, pending, batch, at,
                      sending, broken, got>>
      BY <2>1 DEF sockets, values, round
    <2>3. event' \in BOOLEAN /\ stopping' \in BOOLEAN
      <3>1. CASE Wake
        BY <3>1 DEF Wake, Ordered, TypeOK
      <3>2. CASE Stop
        BY <3>2 DEF Stop
      <3>3. CASE UNCHANGED vars
        BY <3>3 DEF vars, Ordered, TypeOK
      <3> QED  BY <1>1, <3>1, <3>2, <3>3
    <2>4. pc' = pc \/ (pc = "waiting" /\ pc' = "sleeping")
      <3>1. CASE Wake
        BY <3>1 DEF Wake
      <3>2. CASE Stop
        BY <3>2 DEF Stop
      <3>3. CASE UNCHANGED vars
        BY <3>3 DEF vars
      <3> QED  BY <1>1, <3>1, <3>2, <3>3
    <2>5. TypeOK' /\ Loop' /\ Sockets' /\ CandleFirst'
      BY <2>2, <2>3, <2>4 DEF Ordered, TypeOK, Loop, Sockets, CandleFirst
    <2>6. Reached' /\ NewerPending' /\ NewCandle' /\ CandleSeen' /\ CauseFirst'
      BY <2>2, <2>4 DEF Ordered, Reached, NewerPending, NewCandle, CandleSeen, CauseFirst
    <2> QED  BY <2>5, <2>6 DEF Ordered
  <1> QED  BY <1>1, SocketOrdered, PublishOrdered, SnapshotOrdered, SentOrdered, RaisesOrdered, GatheredOrdered
           DEF Next, Round

\* Every state of the loop satisfies the invariant of its rounds.
THEOREM Rounds == Spec => []Ordered
  BY InitOrdered, StepOrdered, PTL DEF Spec

\* Every variable keeps its type.
THEOREM Types == Spec => []TypeOK
  <1>1. Ordered => TypeOK  BY DEF Ordered
  <1> QED  BY <1>1, Rounds, PTL

\* Nobody sees a signal before the candle that gave it (_broadcast_all), for any
\* number of clients coming and going and of publications between the sends.
THEOREM CausesFirst == Spec => []CauseFirst
  <1>1. Ordered => CauseFirst  BY DEF Ordered
  <1> QED  BY <1>1, Rounds, PTL
===============================================================================
