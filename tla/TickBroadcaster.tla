----------------------------- MODULE TickBroadcaster -----------------------------
(***************************************************************************)
(* The fan-out of live values to the browser sockets (class                *)
(* TickBroadcaster, services/tick_broadcaster.py): publishers store the    *)
(* newest value of a kind and set an event; one loop waits for the event,  *)
(* sleeps an interval, takes all that is pending and sends it, kind by     *)
(* kind, to the clients connected then.  One symbol; a value is the number *)
(* of the publication it came from.                                        *)
(***************************************************************************)
EXTENDS Integers, Sequences, FiniteSets

CONSTANTS Clients,
          Kinds,       \* kinds that get published
          MaxVersion   \* bound on publications

\* Mutation: the most urgent kind goes first.
OrderSignalsFirst == <<"signals", "ticks", "candles", "books", "indicators">>

\* What the loop sends, in this order; books go to the viewers only.
Order == <<"ticks", "candles", "books", "indicators", "signals">>

ASSUME BroadcastAssumption ==
    /\ {"candles", "signals"} \subseteq Kinds
    /\ Kinds \subseteq {Order[i] : i \in 1 .. Len(Order)} /\ MaxVersion \in Nat

VARIABLES socket,    \* the browser's side of each socket
          clients,   \* _clients
          viewers,   \* _depth_clients of the symbol
          version,   \* publications so far
          newest,    \* newest[k]: the last publication of kind k
          pending,   \* _pending and its siblings, 0 for nothing
          event, stopping,
          pc,        \* where _run is
          batch,     \* what the loop took
          at,        \* index in Order of the kind being sent
          sending,   \* clients whose send_json has not returned
          broken,    \* clients whose send_json raised
          got,       \* got[c][k]: the last publication c was sent
          since      \* since[c][k]: publications before c was there to get kind k

sockets == <<socket, clients, viewers, since>>
values == <<version, newest, pending>>
round == <<batch, at, sending, broken, got>>
vars == <<sockets, values, round, event, stopping, pc>>

Versions == 0 .. MaxVersion
Nothing == [k \in Kinds |-> 0]

TypeOK ==
    /\ socket \in [Clients -> {"new", "open", "closed"}]
    /\ clients \subseteq Clients /\ viewers \subseteq Clients
    /\ version \in Versions /\ newest \in [Kinds -> Versions] /\ pending \in [Kinds -> Versions]
    /\ event \in BOOLEAN /\ stopping \in BOOLEAN
    /\ pc \in {"waiting", "sleeping", "sending", "ended"}
    /\ batch \in [Kinds -> Versions] /\ at \in 1 .. Len(Order)
    /\ sending \subseteq Clients /\ broken \subseteq Clients \ sending
    /\ got \in [Clients -> [Kinds -> Versions]] /\ since \in [Clients -> [Kinds -> Versions]]

-------------------------------------------------------------------------------
(* Browsers and publishers                                                    *)

Connect(c) ==
    /\ socket[c] = "new" /\ socket' = [socket EXCEPT ![c] = "open"]
    /\ clients' = clients \cup {c} /\ since' = [since EXCEPT ![c] = [k \in Kinds |-> version]]
    /\ UNCHANGED <<viewers, values, round, event, stopping, pc>>

View(c) ==
    /\ socket[c] = "open" /\ c \in clients \ viewers /\ viewers' = viewers \cup {c}
    /\ since' = [since EXCEPT ![c] = [k \in Kinds |-> IF k = "books" THEN version ELSE @[k]]]
    /\ UNCHANGED <<socket, clients, values, round, event, stopping, pc>>

\* The browser goes away, unnoticed until a send or the handler's receive fails.
CloseSocket(c) ==
    /\ socket[c] = "open" /\ socket' = [socket EXCEPT ![c] = "closed"]
    /\ UNCHANGED <<clients, viewers, since, values, round, event, stopping, pc>>

\* disconnect, when the handler has noticed.
Disconnect(c) ==
    /\ socket[c] = "closed" /\ c \in clients \cup viewers
    /\ clients' = clients \ {c} /\ viewers' = viewers \ {c}
    /\ UNCHANGED <<socket, since, values, round, event, stopping, pc>>

\* What is published together: handle_tick a tick and its candle, handle_candle
\* and handle_signal a candle with what its close gives, the stream a book.
Publications == {p \cap Kinds : p \in {{"ticks", "candles"}, {"candles", "indicators"},
                                     {"candles", "indicators", "signals"}, {"books"}}} \ {{}}

\* publish and its siblings.
Publish(ks) ==
    /\ version < MaxVersion /\ version' = version + 1
    /\ newest' = [k \in Kinds |-> IF k \in ks THEN version' ELSE newest[k]]
    /\ pending' = [k \in Kinds |-> IF k \in ks THEN version' ELSE pending[k]]
    /\ event' = TRUE
    /\ UNCHANGED <<sockets, round, stopping, pc>>

-------------------------------------------------------------------------------
(* The loop                                                                   *)

\* The event is cleared before the sleep, so what comes during it wakes again.
Wake ==
    /\ pc = "waiting" /\ event
    /\ event' = FALSE /\ pc' = "sleeping"
    /\ UNCHANGED <<sockets, values, round, stopping>>

To(kind, connected) == IF kind = "books" THEN viewers ELSE connected

\* _broadcast_all and _broadcast_book from the i-th kind on: the first one with
\* something to send and somebody to send it to; behind the last one the round
\* is over.
Proceed(taken, i, connected) ==
    LET sendable == {j \in i .. Len(Order) :
                       /\ Order[j] \in Kinds /\ taken[Order[j]] # 0
                       /\ To(Order[j], connected) # {}}
    IN IF sendable = {}
       THEN /\ pc' = IF stopping THEN "ended" ELSE "waiting"
            /\ batch' = Nothing /\ at' = 1 /\ sending' = {}
       ELSE /\ pc' = "sending" /\ batch' = taken
            /\ at' = CHOOSE j \in sendable : \A k \in sendable : j <= k
            /\ sending' = To(Order[at'], connected)

Snapshot ==
    /\ pc = "sleeping"
    /\ IF stopping THEN pc' = "ended" /\ UNCHANGED <<pending, batch, at, sending>>
       ELSE pending' = Nothing /\ Proceed(pending, 1, clients)
    /\ UNCHANGED <<sockets, version, newest, broken, got, event, stopping>>

Sent(c) ==
    /\ c \in sending /\ socket[c] = "open"
    /\ got' = [got EXCEPT ![c][Order[at]] = batch[Order[at]]]
    /\ sending' = sending \ {c}
    /\ UNCHANGED <<sockets, values, batch, at, broken, event, stopping, pc>>

\* Mutation: the first exception ends the gather.
SendRaisesForAll(c) ==
    /\ c \in sending /\ socket[c] = "closed"
    /\ broken' = broken \cup {c} /\ sending' = {}
    /\ UNCHANGED <<sockets, values, batch, at, got, event, stopping, pc>>

\* Mutation: a send that raised is still waited for.
SendRaisesUnfinished(c) ==
    /\ c \in sending /\ socket[c] = "closed"
    /\ broken' = broken \cup {c} /\ UNCHANGED sending
    /\ UNCHANGED <<sockets, values, batch, at, got, event, stopping, pc>>

SendRaises(c) ==
    /\ c \in sending /\ socket[c] = "closed"
    /\ broken' = broken \cup {c} /\ sending' = sending \ {c}
    /\ UNCHANGED <<sockets, values, batch, at, got, event, stopping, pc>>

\* Mutation: the event is cleared once a round is over.
GatheredClearing ==
    /\ pc = "sending" /\ sending = {}
    /\ clients' = clients \ broken /\ broken' = {} /\ event' = FALSE
    /\ Proceed(batch, at + 1, clients')
    /\ UNCHANGED <<socket, viewers, since, values, got, stopping>>

\* All sends of a kind are over.  Clients whose send raised leave the set; a
\* viewer among them stays a viewer until its handler disconnects it.
Gathered ==
    /\ pc = "sending" /\ sending = {}
    /\ clients' = clients \ broken /\ broken' = {}
    /\ Proceed(batch, at + 1, clients')
    /\ UNCHANGED <<socket, viewers, since, values, got, event, stopping>>

Stop ==
    /\ ~stopping /\ stopping' = TRUE /\ event' = TRUE
    /\ UNCHANGED <<sockets, values, round, pc>>

-------------------------------------------------------------------------------

Init ==
    /\ socket = [c \in Clients |-> "new"] /\ clients = {} /\ viewers = {}
    /\ since = [c \in Clients |-> Nothing]
    /\ version = 0 /\ newest = Nothing /\ pending = Nothing
    /\ event = FALSE /\ stopping = FALSE /\ pc = "waiting"
    /\ batch = Nothing /\ at = 1 /\ sending = {} /\ broken = {}
    /\ got = [c \in Clients |-> Nothing]

Round ==
    \/ Wake \/ Snapshot \/ Gathered
    \/ \E c \in Clients : Sent(c) \/ SendRaises(c)

Next ==
    \/ \E c \in Clients : Connect(c) \/ View(c) \/ CloseSocket(c) \/ Disconnect(c)
    \/ \E ks \in Publications : Publish(ks)
    \/ Round \/ Stop

\* A send to a dead browser ends: the server's keep-alive closes the socket.
Spec == Init /\ [][Next]_vars /\ WF_vars(Round)

-------------------------------------------------------------------------------
(* Properties *)

\* A value stored between the clearing of the event and the wait is not
\* forgotten: the loop never waits for an event while something is pending.
NoLostWakeup ==
    pc = "waiting" /\ (pending # Nothing \/ stopping) => event

\* A browser sees the candle before the signal its close gave: the two are
\* published together, but a round may start between newer ones, and clients come
\* and go in the middle of it.
CauseFirst ==
    \A c \in Clients :
      got[c]["signals"] > since[c]["signals"] => got[c]["candles"] >= got[c]["signals"]

\* Whoever has not seen the newest value of a kind published while it was there.
Behind == {b \in Clients \X Kinds :
             LET c == b[1] k == b[2]
             IN /\ c \in To(k, clients) /\ socket[c] = "open"
                /\ newest[k] > since[c][k] /\ newest[k] # got[c][k]}

\* A value published while a client was connected, or a newer one in its place,
\* reaches it, whatever other clients do: once publications pause, everybody who
\* stays is up to date, unless the server stops.
Arrives == Behind # {} ~> (Behind = {} \/ stopping)
===============================================================================
