------------------------------ MODULE MarketStream ------------------------------
(***************************************************************************)
(* The subscriptions of the market-data connection: BinanceStreamClient    *)
(* (services/market_data.py), the depth viewers of the browser sockets     *)
(* (routes.tick_stream, TickBroadcaster.subscribe_depth and                *)
(* unsubscribe_depth), and the exchange's side of the connection.          *)
(*                                                                         *)
(* The sets of wanted streams change at once when a request arrives; the   *)
(* message follows through the send lock, first come first served, on the  *)
(* connection that was current when the request arrived.                   *)
(***************************************************************************)
EXTENDS Integers, Sequences, FiniteSets

CONSTANTS Symbols,
          Users,       \* requests to add or remove a symbol, at once
          Clients,     \* browser sockets
          MaxStreams,  \* websocket_max_streams
          MaxDrops,    \* bound on lost and refused connections
          Loop         \* the stream loop, as a sender

ASSUME StreamAssumption ==
    /\ MaxStreams \in Nat /\ MaxDrops \in Nat
    /\ IsFiniteSet(Symbols) /\ Loop \notin Users \cup Clients
    /\ Users \cap Clients = {}

VARIABLES symbols,   \* _symbols
          depth,     \* _depth_symbols
          viewers,   \* TickBroadcaster._depth_clients
          client,    \* client[c]: state of the handler of socket c
          queue,     \* senders waiting for _send_lock, in order
          conn,      \* _websocket, 0 for None: connections are numbered
          loop,      \* where _run is
          link,      \* the connection that is alive, 0 for none
          subs,      \* streams the exchange sends on it
          drops, stopping,
          stale,      \* a request was undone on a later connection than its own, or
                      \* undoing it left depth wanted for a symbol that is not
          reinstated, \* a failed removal was undone
          failed      \* a depth message failed, or a viewed symbol was removed

wanted == <<symbols, depth, viewers>>
flags == <<stale, reinstated, failed>>
connection == <<conn, loop, link, subs>>
vars == <<wanted, client, queue, connection, drops, stopping, flags>>

Stream == {"ticker", "depth"} \X Symbols
Job == [who : Users \cup Clients \cup {Loop},
        op : {"resubscribe", "add", "remove", "addDepth", "removeDepth"},
        streams : SUBSET Stream, conn : 1 .. MaxDrops + 1]

TypeOK ==
    /\ symbols \subseteq Symbols /\ depth \subseteq Symbols
    /\ viewers \in [Symbols -> SUBSET Clients]
    /\ client \in [Clients -> {"new", "open", "closing", "gone"}]
    /\ queue \in Seq(Job)
    /\ conn \in 0 .. MaxDrops + 1 /\ link \in 0 .. MaxDrops + 1 /\ subs \subseteq Stream
    /\ loop \in {"down", "connecting", "subscribing", "receiving", "ended"}
    /\ drops \in 0 .. MaxDrops /\ stopping \in BOOLEAN
    /\ stale \in BOOLEAN /\ reinstated \in BOOLEAN /\ failed \in BOOLEAN

-------------------------------------------------------------------------------
(* Sending                                                                    *)

Ticker(s) == <<"ticker", s>>
Depth(s) == <<"depth", s>>
Streams(ss, ds) == {Ticker(s) : s \in ss} \cup {Depth(s) : s \in ds}

Full == Cardinality(symbols) + Cardinality(depth) >= MaxStreams
Waiting(who) == \E i \in 1 .. Len(queue) : queue[i].who = who

\* Mutation: a message is sent although there is no connection.
SendAlways(who, op, streams) ==
    queue' = Append(queue, [who |-> who, op |-> op, streams |-> streams, conn |-> conn])

\* _send_streams: without a connection there is nothing to send, the next one
\* subscribes to what is wanted then.
Send(who, op, streams) ==
    queue' = IF conn = 0 THEN queue
             ELSE Append(queue, [who |-> who, op |-> op, streams |-> streams, conn |-> conn])

Job1 == Head(queue)
Tickers(job) == {s \in Symbols : Ticker(s) \in job.streams}
Depths(job) == {s \in Symbols : Depth(s) \in job.streams}

SendOk ==
    /\ queue # <<>> /\ Job1.conn = link
    /\ queue' = Tail(queue)
    /\ subs' = IF Job1.op \in {"remove", "removeDepth"} THEN subs \ Job1.streams
               ELSE subs \cup Job1.streams
    /\ IF Job1.who = Loop
       THEN loop' = IF stopping THEN "ended" ELSE "receiving"
       ELSE UNCHANGED loop
    /\ UNCHANGED <<wanted, client, conn, link, drops, stopping, flags>>

\* What a request undoes when its message fails.
RollBack(job) ==
    /\ symbols' = CASE job.op = "add" -> symbols \ Tickers(job)
                    [] job.op = "remove" -> symbols \cup Tickers(job)
                    [] OTHER -> symbols
    /\ depth' = CASE job.op = "addDepth" -> depth \ Depths(job)
                  [] job.op \in {"remove", "removeDepth"} -> depth \cup Depths(job)
                  [] OTHER -> depth
    /\ reinstated' = (reinstated \/ job.op \in {"remove", "removeDepth"})
    /\ failed' = (failed \/ job.op # "add")
    /\ stale' = (stale \/ conn # 0 \/ ~(depth' \subseteq symbols'))

\* The connection the message was meant for is gone.  A browser's handler ends
\* with the exception: while it serves, by way of its finally block; inside that
\* block, on the spot.
SendFails ==
    /\ queue # <<>> /\ Job1.conn # link /\ Job1.who # Loop
    /\ queue' = Tail(queue)
    /\ RollBack(Job1)
    /\ client' = [c \in Clients |->
         IF c # Job1.who THEN client[c] ELSE IF client[c] = "open" THEN "closing" ELSE "gone"]
    /\ UNCHANGED <<viewers, connection, drops, stopping>>

-------------------------------------------------------------------------------
(* The stream loop and its connection                                         *)

Dial ==
    /\ loop = "down" /\ ~stopping /\ loop' = "connecting"
    /\ UNCHANGED <<wanted, client, queue, conn, link, subs, drops, stopping, flags>>

\* Mutation: a new connection is trusted to keep the old subscriptions.
ConnectResuming ==
    /\ loop = "connecting"
    /\ conn' = drops + 1 /\ link' = drops + 1 /\ subs' = {}
    /\ stale' = ~(depth \subseteq symbols)
    /\ loop' = (IF stopping THEN "ended" ELSE "receiving")
    /\ UNCHANGED <<wanted, client, queue, drops, stopping, reinstated, failed>>

\* Mutation: the depth streams are forgotten on a reconnect.
ConnectTickersOnly ==
    /\ loop = "connecting"
    /\ conn' = drops + 1 /\ link' = drops + 1 /\ subs' = {}
    /\ stale' = ~(depth \subseteq symbols)
    /\ loop' = "subscribing"
    /\ queue' = Append(queue, [who |-> Loop, op |-> "resubscribe",
                               streams |-> Streams(symbols, {}), conn |-> drops + 1])
    /\ UNCHANGED <<wanted, client, drops, stopping, reinstated, failed>>

\* _connect_once: connected, and subscribing to all that is wanted now.
Connect ==
    /\ loop = "connecting"
    /\ conn' = drops + 1 /\ link' = drops + 1 /\ subs' = {}
    /\ stale' = ~(depth \subseteq symbols)
    /\ IF symbols = {}
       THEN loop' = (IF stopping THEN "ended" ELSE "receiving") /\ UNCHANGED queue
       ELSE /\ loop' = "subscribing"
            /\ queue' = Append(queue, [who |-> Loop, op |-> "resubscribe",
                                       streams |-> Streams(symbols, depth), conn |-> drops + 1])
    /\ UNCHANGED <<wanted, client, drops, stopping, reinstated, failed>>

ConnectFails ==
    /\ loop = "connecting" /\ drops < MaxDrops /\ drops' = drops + 1
    /\ loop' = IF stopping THEN "ended" ELSE "down"
    /\ UNCHANGED <<wanted, client, queue, conn, link, subs, stopping, flags>>

\* The connection is lost, silent for too long, or the server announces its end.
Drop ==
    /\ link # 0 /\ drops < MaxDrops /\ drops' = drops + 1
    /\ link' = 0 /\ subs' = {}
    /\ UNCHANGED <<wanted, client, queue, conn, loop, stopping, flags>>

\* The loop hears of it from recv, or when its own SUBSCRIBE has its turn.
Disconnected ==
    /\ link # conn
    /\ \/ loop = "receiving" /\ UNCHANGED queue
       \/ loop = "subscribing" /\ queue # <<>> /\ Job1.who = Loop /\ queue' = Tail(queue)
    /\ conn' = 0 /\ loop' = IF stopping THEN "ended" ELSE "down"
    /\ UNCHANGED <<wanted, client, link, subs, drops, stopping, flags>>

\* Mutation: a loop that waits to reconnect is not woken.
StopUnheard ==
    /\ ~stopping /\ stopping' = TRUE
    /\ link' = 0 /\ subs' = {}
    /\ UNCHANGED <<wanted, client, queue, conn, loop, drops, flags>>

\* stop, at shutdown: the socket closes and the loop runs out.
Stop ==
    /\ ~stopping /\ stopping' = TRUE
    /\ link' = 0 /\ subs' = {}
    /\ loop' = IF loop = "down" THEN "ended" ELSE loop
    /\ UNCHANGED <<wanted, client, queue, conn, drops, flags>>

-------------------------------------------------------------------------------
(* Requests                                                                   *)

\* Mutation: the limit counts symbols only.
AddSymbolUncounted(u, s) ==
    /\ ~Waiting(u) /\ s \notin symbols /\ Cardinality(symbols) < MaxStreams
    /\ symbols' = symbols \cup {s}
    /\ Send(u, "add", {Ticker(s)})
    /\ UNCHANGED <<depth, viewers, client, connection, drops, stopping, flags>>

AddSymbol(u, s) ==
    /\ ~Waiting(u) /\ s \notin symbols /\ ~Full
    /\ symbols' = symbols \cup {s}
    /\ Send(u, "add", {Ticker(s)})
    /\ UNCHANGED <<depth, viewers, client, connection, drops, stopping, flags>>

RemoveSymbol(u, s) ==
    /\ ~Waiting(u) /\ s \in symbols
    /\ symbols' = symbols \ {s} /\ depth' = depth \ {s}
    /\ Send(u, "remove", Streams({s}, depth \cap {s}))
    /\ failed' = (failed \/ viewers[s] # {})
    /\ UNCHANGED <<viewers, client, connection, drops, stopping, stale, reinstated>>

Serving(c) == client[c] = "open" /\ ~Waiting(c)

Open(c) ==
    /\ client[c] = "new" /\ client' = [client EXCEPT ![c] = "open"]
    /\ UNCHANGED <<wanted, queue, connection, drops, stopping, flags>>

\* subscribe_depth of a further viewer asks nothing of the market client.
JoinView(c, s) ==
    /\ Serving(c) /\ viewers[s] # {}
    /\ viewers' = [viewers EXCEPT ![s] = @ \cup {c}]
    /\ UNCHANGED <<symbols, depth, client, queue, connection, drops, stopping, flags>>

\* The first viewer has the depth stream added; an inactive symbol or a full
\* connection is an error that leaves no viewer.
FirstView(c, s) ==
    /\ Serving(c) /\ viewers[s] = {}
    /\ s \in symbols /\ (s \in depth \/ ~Full)
    /\ viewers' = [viewers EXCEPT ![s] = {c}]
    /\ IF s \in depth THEN UNCHANGED <<depth, queue>>
       ELSE depth' = depth \cup {s} /\ Send(c, "addDepth", {Depth(s)})
    /\ UNCHANGED <<symbols, client, connection, drops, stopping, flags>>

\* Mutation: every viewer that leaves ends the stream.
LeaveEndingStream(c, s) ==
    /\ viewers' = [viewers EXCEPT ![s] = @ \ {c}]
    /\ IF s \in depth
       THEN depth' = depth \ {s} /\ Send(c, "removeDepth", {Depth(s)})
       ELSE UNCHANGED <<depth, queue>>
    /\ UNCHANGED <<symbols, connection, drops, stopping, flags>>

\* unsubscribe_depth, and remove_depth_symbol when nobody is left.
Leave(c, s) ==
    /\ viewers' = [viewers EXCEPT ![s] = @ \ {c}]
    /\ IF viewers[s] = {c} /\ s \in depth
       THEN depth' = depth \ {s} /\ Send(c, "removeDepth", {Depth(s)})
       ELSE UNCHANGED <<depth, queue>>
    /\ UNCHANGED <<symbols, connection, drops, stopping, flags>>

Unview(c, s) == Serving(c) /\ c \in viewers[s] /\ Leave(c, s) /\ UNCHANGED client

\* The socket closes: the finally block leaves every depth view, one by one.
Close(c) ==
    /\ Serving(c) /\ client' = [client EXCEPT ![c] = "closing"]
    /\ UNCHANGED <<wanted, queue, connection, drops, stopping, flags>>

CleanUp(c) ==
    /\ client[c] = "closing" /\ ~Waiting(c)
    /\ \/ \E s \in Symbols : c \in viewers[s] /\ Leave(c, s) /\ UNCHANGED client
       \/ /\ \A s \in Symbols : c \notin viewers[s]
          /\ client' = [client EXCEPT ![c] = "gone"]
          /\ UNCHANGED <<wanted, queue, connection, drops, stopping, flags>>

-------------------------------------------------------------------------------

Init ==
    /\ symbols \in SUBSET Symbols /\ Cardinality(symbols) <= MaxStreams
    /\ depth = {} /\ viewers = [s \in Symbols |-> {}]
    /\ client = [c \in Clients |-> "new"]
    /\ queue = <<>> /\ conn = 0 /\ loop = "down" /\ link = 0 /\ subs = {}
    /\ drops = 0 /\ stopping = FALSE
    /\ stale = FALSE /\ reinstated = FALSE /\ failed = FALSE

Next ==
    \/ SendOk \/ SendFails
    \/ Dial \/ Connect \/ ConnectFails \/ Drop \/ Disconnected \/ Stop
    \/ \E u \in Users, s \in Symbols : AddSymbol(u, s) \/ RemoveSymbol(u, s)
    \/ \E c \in Clients : Open(c) \/ Close(c) \/ CleanUp(c)
    \/ \E c \in Clients, s \in Symbols : JoinView(c, s) \/ FirstView(c, s) \/ Unview(c, s)

Spec == Init /\ [][Next]_vars

\* The lock is granted in turn and no send waits for ever (a dead connection
\* fails it); the loop goes on.
Fairness ==
    /\ WF_vars(SendOk \/ SendFails)
    /\ WF_vars(Dial) /\ WF_vars(Connect) /\ WF_vars(Disconnected)

LiveSpec == Spec /\ Fairness

-------------------------------------------------------------------------------
(* Properties *)

\* Once the messages are out, the exchange sends what the two sets say, whatever
\* was added, removed and lost meanwhile.  The exception: a request that waited
\* for the send lock across a reconnect is undone although the new connection
\* has taken its snapshot already, or takes a symbol away from its depth stream.
InSync ==
    queue = <<>> /\ loop = "receiving" /\ link = conn /\ ~stale =>
      subs = Streams(symbols, depth)

\* Requests that wait for their message do not get past the stream limit
\* together; only undoing a failed removal can.
WithinLimit ==
    reinstated \/ Cardinality(symbols) + Cardinality(depth) <= MaxStreams

\* As long as no depth message fails and no watched symbol is removed, order
\* books are streamed exactly for the symbols somebody watches, and closed
\* sockets watch nothing.
BooksForViewers ==
    failed \/ \A s \in Symbols :
                /\ (s \in depth) = (viewers[s] # {})
                /\ \A c \in viewers[s] : client[c] # "gone"

\* An active symbol gets its ticks, however often the connection is lost.
TicksArrive ==
    \A s \in Symbols :
      (s \in symbols) ~> (Ticker(s) \in subs \/ s \notin symbols \/ stale \/ stopping)

\* Shutdown does not hang on the stream loop.
StopEnds == stopping ~> (loop = "ended")
===============================================================================
