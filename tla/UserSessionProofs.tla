--------------------------- MODULE UserSessionProofs ---------------------------
(***************************************************************************)
(* The account's keys, for any number of browsers, keys and restarts: only *)
(* accepted keys trade unless an answer met another request's session, at  *)
(* rest the live keys are the stored ones unless requests ran side by side *)
(* or an exception ended a sign-up or an update, and an open position has  *)
(* keys to close it unless startup could not bring them back.              *)
(***************************************************************************)
EXTENDS UserSession, TLAPS

\* A logout on its way, and a request that is neither over nor a logout.
Dropping == [Idle EXCEPT !.pc = "drop", !.kind = "logout"]
Busy(w) == task[w].pc \notin {"idle", "drop"}

\* A task's kind, key and place fit together.
Shaped ==
    \A w \in Workers :
        /\ task[w].pc = "idle" => task[w] = Idle
        /\ task[w].kind = "none" => task[w].pc \in {"idle", "restore"}
        /\ task[w].pc = "restore" => w = Boot
        /\ task[w].pc = "connect" =>
             task[w].kind \in {"signup", "login", "me", "verify", "update", "connect", "boot"}
        /\ task[w].pc = "verify" =>
             task[w].kind \in {"signup", "login", "me", "verify", "update", "undo", "connect", "boot"}
        /\ task[w].pc = "persist" => task[w].kind \in {"signup", "update"}
        /\ task[w].pc = "token" => task[w].kind \in {"signup", "login"}
        /\ task[w].pc = "delete" => task[w].kind = "signup"
        /\ task[w].pc \in {"connect", "verify", "persist", "token"} => task[w].key \in Keys

\* The restore runs alone, and has its session while it waits for Binance.
BootAlone ==
    task[Boot] # Idle =>
        /\ task[Boot].pc \in {"restore", "connect", "verify"}
        /\ task[Boot].pc = "restore" => task[Boot].kind = "none"
        /\ task[Boot].pc # "restore" => task[Boot].kind = "boot"
        /\ task[Boot].pc = "verify" => session # NoSession
        /\ \A b \in Browsers : task[b] = Idle

\* Before keys are stored nobody is signed in and nothing is automated or open;
\* the only request that runs is the sign-up that may store them.
Keyless ==
    stored = NoKey =>
        /\ signed = {} /\ ~automated /\ ~window /\ ~position /\ ~entering
        /\ \A w \in Workers :
             \/ task[w].kind = "none"
             \/ task[w].kind = "signup" /\ task[w].pc \in {"connect", "verify", "persist", "delete"}

Registered == stored # NoKey => registered

\* A sign-up that has not stored its keys is the account's only request.
SignupAlone ==
    \A w \in Workers :
        task[w].kind = "signup" /\ task[w].pc # "token" =>
            /\ registered /\ stored = NoKey
            /\ \A v \in Workers \ {w} : task[v] = Idle

\* A request that was never mingled with another has only logouts beside it.
Solo ==
    \A w \in Workers : Busy(w) /\ ~task[w].mingled =>
        \A v \in Workers \ {w} : task[v] \in {Idle, Dropping}

Mingling == \A w \in Workers : task[w].mingled => overlap

\* The keys such a request works with are the stored ones, unless it brings its
\* own to be stored; an update remembers those it may have to bring back.
Sourced ==
    \A w \in Workers : Busy(w) /\ ~task[w].mingled =>
        /\ task[w].kind \in {"login", "me", "verify", "undo", "connect", "boot"} => task[w].key = stored
        /\ task[w].pc = "token" => task[w].key = stored
        /\ task[w].kind = "update" => task[w].previous = stored /\ stored \in Keys

\* Whose key a session has that one request alone has connected.
Carried ==
    ~overlap /\ ~broken /\ session # NoSession =>
        /\ (\A w \in Workers : ~Busy(w)) => session.key = stored
        /\ \A w \in Workers :
             /\ task[w].pc = "connect" /\ task[w].kind # "connect" => session.key = stored
             /\ task[w].pc \in {"verify", "persist", "token"} => session.key = task[w].key
             /\ task[w].pc \notin {"delete", "restore"}

SessionHasKey == session = NoSession \/ session.key \in Keys

IInv ==
    /\ TypeOK /\ SessionHasKey /\ Shaped /\ BootAlone /\ Keyless /\ Registered /\ SignupAlone
    /\ Solo /\ Mingling /\ Sourced /\ Carried
    /\ OnlyAcceptedTradeUnlessMixed /\ KeysForPositions

-------------------------------------------------------------------------------
(* Facts about the records *)

\* What the three constant records hold.
LEMMA IdleFacts ==
    /\ Idle.pc = "idle" /\ Idle.kind = "none" /\ Idle.mingled = FALSE /\ Idle.key = NoKey
    /\ Dropping.pc = "drop" /\ Dropping.kind = "logout" /\ Dropping.mingled = FALSE
    /\ NoSession.key = NoKey /\ NoSession.verified = FALSE /\ NoSession.enabled = FALSE
  BY DEF Idle, Dropping, NoSession

\* The sets the tasks and the session range over.
Task == [pc : {"idle", "connect", "verify", "persist", "token", "drop", "delete", "restore"},
         kind : Kinds, key : Keys \cup {NoKey}, previous : Keys \cup {NoKey}, mingled : BOOLEAN]
Session == [key : Keys \cup {NoKey}, verified : BOOLEAN, enabled : BOOLEAN]

\* TypeOK in terms of these sets.
LEMMA TypeParts ==
  TypeOK => /\ task \in [Workers -> Task] /\ session \in Session
            /\ session.enabled => session.verified /\ session.key # NoKey
  BY DEF TypeOK, Task, Session

LEMMA InitIInv == Init => IInv
  <1> SUFFICES ASSUME Init PROVE IInv
    OBVIOUS
  <1>1. TypeOK
    <2>1. Idle \in Task /\ NoSession \in Session
      BY DEF Idle, Task, Kinds, NoSession, Session
    <2>2. task \in [Workers -> Task] /\ session \in Session /\ ~session.enabled
      BY <2>1, IdleFacts DEF Init
    <2>3. crashes \in 0 .. MaxCrashes /\ stored \in Keys \cup {NoKey} /\ signed \subseteq Browsers /\ answered \subseteq Keys
      BY KeyAssumption DEF Init
    <2>4. /\ registered \in BOOLEAN /\ automated \in BOOLEAN /\ window \in BOOLEAN /\ position \in BOOLEAN
          /\ entering \in BOOLEAN /\ late \in BOOLEAN /\ mixed \in BOOLEAN /\ overlap \in BOOLEAN
          /\ broken \in BOOLEAN /\ locked \in BOOLEAN
      BY DEF Init
    <2> QED  BY <2>2, <2>3, <2>4 DEF TypeOK, Task, Session
  <1>2. \A w \in Workers : task[w] = Idle
    BY DEF Init
  <1>3. SessionHasKey /\ Shaped /\ BootAlone /\ SignupAlone /\ Solo /\ Mingling /\ Sourced
    BY <1>2, IdleFacts
    DEF Init, SessionHasKey, Shaped, BootAlone, SignupAlone, Solo, Mingling, Sourced, Workers, Busy
  <1>4. Keyless /\ Registered /\ Carried /\ OnlyAcceptedTradeUnlessMixed /\ KeysForPositions
    BY <1>2, IdleFacts
    DEF Init, Keyless, Registered, Carried, OnlyAcceptedTradeUnlessMixed, KeysForPositions
  <1> QED  BY <1>1, <1>3, <1>4 DEF IInv

-------------------------------------------------------------------------------
(* Steps of the strategy and of time *)

\* Steps that leave the tasks, the session and the stored keys alone.
LEMMA Untouched ==
  ASSUME IInv, UNCHANGED <<task, session, stored, registered, overlap, broken, locked, answered,
                           mixed>>
  PROVE  /\ SessionHasKey' /\ Shaped' /\ BootAlone' /\ SignupAlone' /\ Registered' /\ Solo' /\ Mingling'
         /\ Sourced' /\ Carried' /\ OnlyAcceptedTradeUnlessMixed'
  <1>1. SessionHasKey' /\ OnlyAcceptedTradeUnlessMixed'
    BY DEF IInv, SessionHasKey, OnlyAcceptedTradeUnlessMixed
  <1>2. Shaped'
    BY DEF IInv, Shaped
  <1>3. BootAlone'
    BY DEF IInv, BootAlone
  <1>4. SignupAlone' /\ Registered'
    BY DEF IInv, SignupAlone, Registered
  <1>5. Solo' /\ Mingling'
    BY DEF IInv, Solo, Mingling, Busy
  <1>6. Sourced'
    BY DEF IInv, Sourced, Busy
  <1>7. Carried'
    BY DEF IInv, Carried, Busy
  <1> QED  BY <1>1, <1>2, <1>3, <1>4, <1>5, <1>6, <1>7

LEMMA StrategyStep ==
  ASSUME IInv, Enter \/ (\E executes \in BOOLEAN : Entered(executes)) \/ Exited \/ Expire
                \/ \E b \in Browsers : TokenExpires(b)
  PROVE  IInv'
  <1> USE DEF rows, strategy, ghosts
  <1>1. UNCHANGED <<task, session, stored, registered, overlap, broken, locked, answered, mixed>>
    BY DEF Enter, Entered, Exited, Expire, TokenExpires
  <1>2. TypeOK'
    <2>1. /\ task' \in [Workers -> Task] /\ session' \in Session
          /\ session'.enabled => session'.verified /\ session'.key # NoKey
      BY <1>1, TypeParts DEF IInv
    <2>2. registered' \in BOOLEAN /\ stored' \in Keys \cup {NoKey} /\ answered' \subseteq Keys
      BY <1>1 DEF IInv, TypeOK
    <2>3. mixed' \in BOOLEAN /\ overlap' \in BOOLEAN /\ broken' \in BOOLEAN /\ locked' \in BOOLEAN
      BY <1>1 DEF IInv, TypeOK
    <2>4. crashes' \in 0 .. MaxCrashes
      BY <1>1 DEF IInv, TypeOK, Enter, Entered, Exited, Expire, TokenExpires
    <2>5. signed' \subseteq Browsers
      BY <1>1 DEF IInv, TypeOK, Enter, Entered, Exited, Expire, TokenExpires
    <2>6. automated' \in BOOLEAN /\ window' \in BOOLEAN
      BY <1>1 DEF IInv, TypeOK, Enter, Entered, Exited, Expire, TokenExpires
    <2>7. position' \in BOOLEAN /\ entering' \in BOOLEAN
      BY <1>1 DEF IInv, TypeOK, Enter, Entered, Exited, Expire, TokenExpires
    <2>8. late' \in BOOLEAN
      BY <1>1 DEF IInv, TypeOK, Enter, Entered, Exited, Expire, TokenExpires
    <2> QED BY <2>1, <2>2, <2>3, <2>4, <2>5, <2>6, <2>7, <2>8 DEF TypeOK, Task, Session
  <1>3. Keyless'
    BY <1>1 DEF IInv, Keyless, Enter, Entered, Exited, Expire, TokenExpires
  <1>4. KeysForPositions'
    BY <1>1 DEF IInv, KeysForPositions, Enter, Entered, Exited, Expire, TokenExpires
  <1> QED  BY <1>1, <1>2, <1>3, <1>4, Untouched DEF IInv
\* A task that goes on keeps what it works with; one that ends leaves nothing.
LEMMA GoesTask ==
  ASSUME task \in [Workers -> Task], NEW w \in Workers, NEW pc, Goes(w, pc),
         pc \in {"verify", "persist", "token", "delete"}
  PROVE  /\ task' \in [Workers -> Task]
         /\ task'[w].pc = pc /\ task'[w].kind = task[w].kind /\ task'[w].key = task[w].key
         /\ task'[w].previous = task[w].previous /\ task'[w].mingled = task[w].mingled
         /\ \A v \in Workers \ {w} : task'[v] = task[v]
  <1>1. task' = [task EXCEPT ![w] = [task[w] EXCEPT !.pc = pc]] /\ task[w] \in Task
    BY DEF Goes
  <1>2. [task[w] EXCEPT !.pc = pc] \in Task
    BY <1>1 DEF Task
  <1>3. task' \in [Workers -> Task] /\ \A v \in Workers \ {w} : task'[v] = task[v]
    BY <1>1, <1>2
  <1>4. task'[w] = [task[w] EXCEPT !.pc = pc]
    BY <1>1
  <1> QED  BY <1>1, <1>3, <1>4 DEF Task

LEMMA EndsTask ==
  ASSUME task \in [Workers -> Task], NEW w \in Workers, Ends(w)
  PROVE  /\ task' \in [Workers -> Task] /\ task'[w] = Idle
         /\ \A v \in Workers \ {w} : task'[v] = task[v]
  <1>1. Idle \in Task
    BY DEF Idle, Task, Kinds
  <1> QED  BY <1>1 DEF Ends

\* The task that starts; those that run mingle with it.
LEMMA StartsTask ==
  ASSUME TypeOK, NEW w \in Workers, NEW kind \in Kinds, NEW key \in Keys, Starts(w, kind, key)
  PROVE  /\ task' \in [Workers -> Task]
         /\ task'[w].pc = "connect" /\ task'[w].kind = kind /\ task'[w].key = key
         /\ task'[w].previous = stored /\ task'[w].mingled = ~Alone(w)
         /\ \A v \in Workers \ {w} :
              IF task[v] = Idle THEN task'[v] = Idle
              ELSE /\ task'[v].pc = task[v].pc /\ task'[v].kind = task[v].kind
                   /\ task'[v].key = task[v].key /\ task'[v].previous = task[v].previous
                   /\ task'[v].mingled = TRUE
  <1> DEFINE new == [pc |-> "connect", kind |-> kind, key |-> key, previous |-> stored, mingled |-> ~Alone(w)]
  <1>1. /\ task' = [v \in Workers |->
                      IF v = w THEN new
                      ELSE IF task[v] = Idle THEN Idle ELSE [task[v] EXCEPT !.mingled = TRUE]]
        /\ task \in [Workers -> Task]
    BY TypeParts DEF Starts
  <1>2. Alone(w) \in BOOLEAN /\ stored \in Keys \cup {NoKey}
    BY DEF Alone, TypeOK
  <1>3. new \in Task
    BY <1>2 DEF Task
  <1>4. \A v \in Workers : [task[v] EXCEPT !.mingled = TRUE] \in Task
    BY <1>1 DEF Task
  <1>5. Idle \in Task
    BY DEF Idle, Task, Kinds
  <1>6. task' \in [Workers -> Task]
    BY <1>1, <1>3, <1>4, <1>5
  <1>7. task'[w] = new
    BY <1>1
  <1>8. \A v \in Workers \ {w} : task'[v] = IF task[v] = Idle THEN Idle ELSE [task[v] EXCEPT !.mingled = TRUE]
    BY <1>1
  <1>9. \A v \in Workers \ {w} :
              IF task[v] = Idle THEN task'[v] = Idle
              ELSE /\ task'[v].pc = task[v].pc /\ task'[v].kind = task[v].kind
                   /\ task'[v].key = task[v].key /\ task'[v].previous = task[v].previous
                   /\ task'[v].mingled = TRUE
    BY <1>1, <1>8 DEF Task
  <1> QED  BY <1>6, <1>7, <1>9

-------------------------------------------------------------------------------
(* Steps of the requests that run *)

\* connect_user_credentials: the new session replaces whatever was there.
LEMMA ConnectStep ==
  ASSUME IInv, NEW w \in Workers, Connect(w)
  PROVE  IInv'
  <1>0. task \in [Workers -> Task] /\ session \in Session
    BY TypeParts DEF IInv
  <1>1. /\ task' \in [Workers -> Task] /\ task[w].pc = "connect"
        /\ task'[w].pc = "verify" /\ task'[w].kind = task[w].kind /\ task'[w].key = task[w].key
        /\ task'[w].previous = task[w].previous /\ task'[w].mingled = task[w].mingled
        /\ \A v \in Workers \ {w} : task'[v] = task[v]
    BY <1>0, GoesTask DEF Connect
  <1>2. /\ session' = Fresh(task[w].key) /\ mixed' = FALSE /\ overlap' = task[w].mingled
        /\ broken' = FALSE /\ locked' = FALSE
        /\ UNCHANGED <<registered, stored, signed, automated, window, position, entering, late,
                       answered, crashes>>
    BY DEF Connect, Replaces, rows, strategy
  <1>3. task[w].key \in Keys
    BY <1>1 DEF IInv, Shaped
  <1>4. session' \in Session /\ ~session'.enabled /\ session'.key = task[w].key /\ session' # NoSession
    BY <1>2, <1>3, KeyAssumption DEF Fresh, Session, NoSession
  <1>5. TypeOK'
    <2>1. overlap' \in BOOLEAN
      BY <1>0, <1>2 DEF Task
    <2> QED BY <1>1, <1>2, <1>4, <2>1 DEF IInv, TypeOK, Task, Session
  <1>6. SessionHasKey' /\ Shaped' /\ OnlyAcceptedTradeUnlessMixed' /\ KeysForPositions'
    BY <1>1, <1>2, <1>3, <1>4, IdleFacts
    DEF IInv, SessionHasKey, Shaped, OnlyAcceptedTradeUnlessMixed, KeysForPositions
  <1>7. BootAlone' /\ Keyless' /\ Registered' /\ SignupAlone'
    BY <1>1, <1>2, <1>4, IdleFacts, KeyAssumption
    DEF IInv, BootAlone, Keyless, Registered, SignupAlone, Workers
  <1>8. Solo' /\ Sourced' /\ Mingling'
    BY <1>0, <1>1, <1>2, IdleFacts DEF IInv, Solo, Sourced, Mingling, Busy, Task
  <1>9. Carried'
    BY <1>0, <1>1, <1>2, <1>4, IdleFacts DEF IInv, Carried, Solo, Sourced, Busy, Task
  <1> QED BY <1>5, <1>6, <1>7, <1>8, <1>9 DEF IInv

\* The session belongs to the request at work on it, if that one is alone.
LEMMA OwnSession ==
  ASSUME IInv, NEW w \in Workers, Busy(w), ~overlap, ~broken
  PROVE  /\ \A v \in Workers \ {w} : ~Busy(v)
         /\ task[w].kind \in {"login", "me", "verify", "undo", "connect", "boot"} => task[w].key = stored
         /\ task[w].kind = "update" => task[w].previous = stored
         /\ task[w].pc \in {"verify", "persist", "token"} /\ session # NoSession => session.key = task[w].key
         /\ task[w].pc = "token" => task[w].key = stored
  <1>1. ~task[w].mingled
    BY DEF IInv, Mingling
  <1>2. \A v \in Workers \ {w} : task[v] \in {Idle, Dropping}
    BY <1>1 DEF IInv, Solo
  <1>3. \A v \in Workers \ {w} : ~Busy(v)
    BY <1>2, IdleFacts DEF Busy
  <1> QED  BY <1>1, <1>3 DEF IInv, Sourced, Carried

\* ... and still does when it goes on,
LEMMA CarriedOn ==
  ASSUME IInv, NEW w \in Workers, Busy(w), overlap' = overlap, broken' = broken,
         \A v \in Workers \ {w} : task'[v] = task[v],
         task'[w].pc \in {"verify", "persist", "token"},
         ~overlap /\ ~broken /\ session' # NoSession => session'.key = task'[w].key
  PROVE  Carried'
  <1>1. SUFFICES ASSUME ~overlap, ~broken, session' # NoSession
                 PROVE  /\ (\A v \in Workers : ~Busy(v)') => session'.key = stored'
                        /\ \A v \in Workers :
                             /\ task'[v].pc = "connect" /\ task'[v].kind # "connect" => session'.key = stored'
                             /\ task'[v].pc \in {"verify", "persist", "token"} => session'.key = task'[v].key
                             /\ task'[v].pc \notin {"delete", "restore"}
    BY DEF Carried, Busy
  <1>2. \A v \in Workers \ {w} : task'[v].pc \in {"idle", "drop"}
    BY <1>1, OwnSession DEF Busy
  <1>3. session'.key = task'[w].key
    BY <1>1
  <1> QED  BY <1>2, <1>3 DEF Busy

\* ... until it ends and leaves the stored keys connected.
LEMMA CarriedToEnd ==
  ASSUME IInv, NEW w \in Workers, Busy(w), overlap => overlap', broken => broken',
         \A v \in Workers \ {w} : task'[v] = task[v],
         task'[w] = Idle,
         ~overlap' /\ ~broken' /\ session' # NoSession => session'.key = stored'
  PROVE  Carried'
  <1>1. SUFFICES ASSUME ~overlap', ~broken', session' # NoSession
                 PROVE  /\ (\A v \in Workers : ~Busy(v)') => session'.key = stored'
                        /\ \A v \in Workers :
                             /\ task'[v].pc = "connect" /\ task'[v].kind # "connect" => session'.key = stored'
                             /\ task'[v].pc \in {"verify", "persist", "token"} => session'.key = task'[v].key
                             /\ task'[v].pc \notin {"delete", "restore"}
    BY DEF Carried, Busy
  <1>2. \A v \in Workers : task'[v].pc \in {"idle", "drop"}
    BY <1>1, OwnSession, IdleFacts DEF Busy
  <1> QED  BY <1>1, <1>2

\* A request that starts alone finds the stored keys connected, or nothing.
LEMMA CarriedAtStart ==
  ASSUME IInv, NEW w \in Workers, task[w] = Idle, task'[w].pc = "connect",
         \A v \in Workers \ {w} : task[v] = Idle => task'[v] = Idle,
         overlap' = (overlap \/ ~Alone(w)), broken' = broken, session' = session,
         task'[w].kind = "connect" \/ stored' = stored
  PROVE  Carried'
  <1>1. SUFFICES ASSUME ~overlap, ~broken, Alone(w), session # NoSession
                 PROVE  /\ (\A v \in Workers : ~Busy(v)') => session'.key = stored'
                        /\ \A v \in Workers :
                             /\ task'[v].pc = "connect" /\ task'[v].kind # "connect" => session'.key = stored'
                             /\ task'[v].pc \in {"verify", "persist", "token"} => session'.key = task'[v].key
                             /\ task'[v].pc \notin {"delete", "restore"}
    BY DEF Carried, Busy
  <1>2. \A v \in Workers : task[v] = Idle
    BY <1>1 DEF Alone
  <1>3. session.key = stored
    BY <1>1, <1>2, IdleFacts DEF IInv, Carried, Busy
  <1>4. \A v \in Workers \ {w} : task'[v].pc = "idle"
    BY <1>2, IdleFacts
  <1> QED  BY <1>3, <1>4 DEF Busy

\* Binance's answer marks the session that is there, whosever it is.
LEMMA AcceptedStep ==
  ASSUME IInv, NEW w \in Workers, Accepted(w)
  PROVE  IInv'
  <1>1. task \in [Workers -> Task] /\ session \in Session /\ task[w].pc = "verify" /\ session # NoSession /\ Busy(w)
    BY TypeParts DEF IInv, Accepted, Busy
  <1>2. /\ session' = Verified(TRUE) /\ answered' = answered \cup {task[w].key}
        /\ mixed' \in BOOLEAN /\ (~mixed' => session.key = task[w].key)
        /\ UNCHANGED <<registered, stored, signed, automated, window, position, entering, late,
                       overlap, broken, locked, crashes>>
    BY DEF Accepted, rows, strategy
  <1>3. /\ session' \in Session /\ session'.enabled /\ session'.verified
        /\ session'.key = session.key /\ session' # NoSession
    BY <1>1, <1>2, IdleFacts DEF Verified, Session
  <1>4. /\ task[w].key \in Keys /\ session.key \in Keys /\ session.key # NoKey
        /\ task[w].kind \in {"signup", "login", "me", "verify", "update", "undo", "connect", "boot"}
    BY <1>1, <1>2, KeyAssumption DEF IInv, Shaped, SessionHasKey
  <1>t. /\ registered' \in BOOLEAN /\ stored' \in Keys \cup {NoKey} /\ signed' \subseteq Browsers
        /\ automated' \in BOOLEAN /\ window' \in BOOLEAN /\ position' \in BOOLEAN
        /\ entering' \in BOOLEAN /\ late' \in BOOLEAN /\ answered' \subseteq Keys
        /\ mixed' \in BOOLEAN /\ overlap' \in BOOLEAN /\ broken' \in BOOLEAN /\ locked' \in BOOLEAN
        /\ crashes' \in 0 .. MaxCrashes
    BY <1>2, <1>4 DEF IInv, TypeOK
  <1>s. session'.enabled => session'.verified /\ session'.key # NoKey
    BY <1>3, <1>4
  <1>5. CASE task[w].kind \in {"signup", "update"}
    <2>1. Goes(w, "persist")
      BY <1>5 DEF Accepted
    <2>2. /\ task' \in [Workers -> Task]
          /\ task'[w].pc = "persist" /\ task'[w].kind = task[w].kind /\ task'[w].key = task[w].key
          /\ task'[w].previous = task[w].previous /\ task'[w].mingled = task[w].mingled
          /\ \A v \in Workers \ {w} : task'[v] = task[v]
      BY <1>1, <2>1, GoesTask
    <2>a. TypeOK'
      BY <1>3, <1>s, <1>t, <2>2 DEF TypeOK, Task, Session
    <2>b. Shaped'
      BY <1>4, <1>5, <2>2, IdleFacts DEF IInv, Shaped
    <2>c. SessionHasKey' /\ OnlyAcceptedTradeUnlessMixed' /\ KeysForPositions'
      BY <1>1, <1>2, <1>3, <1>4, <1>5, <2>2, IdleFacts
      DEF IInv, SessionHasKey, OnlyAcceptedTradeUnlessMixed, KeysForPositions, BootAlone, Keyless,
          Workers
    <2>d. BootAlone'
      BY <1>1, <1>2, <1>3, <1>4, <1>5, <2>2, IdleFacts DEF IInv, BootAlone, Workers
    <2>e. Keyless' /\ Registered' /\ SignupAlone'
      BY <1>1, <1>2, <1>3, <1>4, <1>5, <2>2, IdleFacts, KeyAssumption
      DEF IInv, Shaped, Keyless, Registered, SignupAlone
    <2>f. Solo' /\ Sourced' /\ Mingling'
      <3>1. Solo'
        BY <1>1, <1>2, <1>3, <1>4, <1>5, <2>2, IdleFacts DEF IInv, SignupAlone, Solo, Busy, Task
      <3>2. Sourced'
        BY <1>1, <1>2, <1>3, <1>4, <1>5, <2>2, IdleFacts
           DEF IInv, SignupAlone, Solo, Sourced, Busy, Task
      <3>3. Mingling'
        BY <1>1, <1>2, <1>3, <1>4, <1>5, <2>2, IdleFacts DEF IInv, Mingling, Task
      <3> QED  BY <3>1, <3>2, <3>3
    <2>g. Carried'
      BY <1>1, <1>2, <1>3, <1>4, <1>5, <2>2, OwnSession, CarriedOn
    <2> QED  BY <2>a, <2>b, <2>c, <2>d, <2>e, <2>f, <2>g DEF IInv
  <1>6. CASE task[w].kind = "login"
    <2>1. Goes(w, "token")
      BY <1>6 DEF Accepted
    <2>2. /\ task' \in [Workers -> Task]
          /\ task'[w].pc = "token" /\ task'[w].kind = task[w].kind /\ task'[w].key = task[w].key
          /\ task'[w].previous = task[w].previous /\ task'[w].mingled = task[w].mingled
          /\ \A v \in Workers \ {w} : task'[v] = task[v]
      BY <1>1, <2>1, GoesTask
    <2>a. TypeOK'
      BY <1>3, <1>s, <1>t, <2>2 DEF TypeOK, Task, Session
    <2>b. Shaped'
      BY <1>4, <1>6, <2>2, IdleFacts DEF IInv, Shaped
    <2>c. SessionHasKey' /\ OnlyAcceptedTradeUnlessMixed' /\ KeysForPositions'
      BY <1>1, <1>2, <1>3, <1>4, <1>6, <2>2, IdleFacts
      DEF IInv, SessionHasKey, OnlyAcceptedTradeUnlessMixed, KeysForPositions, BootAlone, Keyless,
          Workers
    <2>d. BootAlone'
      BY <1>1, <1>2, <1>3, <1>4, <1>6, <2>2, IdleFacts DEF IInv, BootAlone, Workers
    <2>e. Keyless' /\ Registered' /\ SignupAlone'
      BY <1>1, <1>2, <1>3, <1>4, <1>6, <2>2, IdleFacts, KeyAssumption
      DEF IInv, Shaped, Keyless, Registered, SignupAlone
    <2>f. Solo' /\ Sourced' /\ Mingling'
      <3>1. Solo'
        BY <1>1, <1>2, <1>3, <1>4, <1>6, <2>2, IdleFacts DEF IInv, SignupAlone, Solo, Busy, Task
      <3>2. Sourced'
        BY <1>1, <1>2, <1>3, <1>4, <1>6, <2>2, IdleFacts
           DEF IInv, SignupAlone, Solo, Sourced, Busy, Task
      <3>3. Mingling'
        BY <1>1, <1>2, <1>3, <1>4, <1>6, <2>2, IdleFacts DEF IInv, Mingling, Task
      <3> QED  BY <3>1, <3>2, <3>3
    <2>g. Carried'
      BY <1>1, <1>2, <1>3, <1>4, <1>6, <2>2, OwnSession, CarriedOn
    <2> QED  BY <2>a, <2>b, <2>c, <2>d, <2>e, <2>f, <2>g DEF IInv
  <1>7. CASE task[w].kind \notin {"signup", "update", "login"}
    <2>1. Ends(w)
      BY <1>7 DEF Accepted
    <2>2. /\ task' \in [Workers -> Task] /\ task'[w] = Idle
          /\ \A v \in Workers \ {w} : task'[v] = task[v]
      BY <1>1, <2>1, EndsTask
    <2>a. TypeOK'
      BY <1>3, <1>s, <1>t, <2>2 DEF TypeOK, Task, Session
    <2>b. Shaped'
      BY <2>2, IdleFacts DEF IInv, Shaped
    <2>c. SessionHasKey' /\ OnlyAcceptedTradeUnlessMixed' /\ KeysForPositions'
      BY <1>1, <1>2, <1>3, <1>4, <1>7, <2>2, IdleFacts
      DEF IInv, SessionHasKey, OnlyAcceptedTradeUnlessMixed, KeysForPositions, BootAlone, Keyless,
          Workers
    <2>d. BootAlone'
      BY <1>1, <1>2, <1>3, <1>4, <1>7, <2>2, IdleFacts DEF IInv, BootAlone, Workers
    <2>e. Keyless' /\ Registered' /\ SignupAlone'
      BY <1>1, <1>2, <1>3, <1>4, <1>7, <2>2, IdleFacts, KeyAssumption
      DEF IInv, Shaped, Keyless, Registered, SignupAlone
    <2>f. Solo' /\ Sourced' /\ Mingling'
      <3>1. Solo'
        BY <1>1, <1>2, <1>3, <1>4, <1>7, <2>2, IdleFacts DEF IInv, SignupAlone, Solo, Busy, Task
      <3>2. Sourced'
        BY <1>1, <1>2, <1>3, <1>4, <1>7, <2>2, IdleFacts
           DEF IInv, SignupAlone, Solo, Sourced, Busy, Task
      <3>3. Mingling'
        BY <1>1, <1>2, <1>3, <1>4, <1>7, <2>2, IdleFacts DEF IInv, Mingling, Task
      <3> QED  BY <3>1, <3>2, <3>3
    <2>g. Carried'
      BY <1>1, <1>2, <1>3, <1>4, <1>7, <2>2, OwnSession, CarriedToEnd
    <2> QED  BY <2>a, <2>b, <2>c, <2>d, <2>e, <2>f, <2>g DEF IInv
  <1> QED  BY <1>5, <1>6, <1>7

\* A refused update brings back the keys that were stored when it began.
LEMMA UndoStep ==
  ASSUME IInv, NEW w \in Workers, Undo(w)
  PROVE  IInv'
  <1>1. /\ task \in [Workers -> Task] /\ session \in Session /\ task[w].pc = "verify" /\ Busy(w)
        /\ task[w].kind = "update" /\ task[w].previous # NoKey
    BY TypeParts DEF IInv, Undo, Busy
  <1>2. /\ session' = Fresh(task[w].previous) /\ mixed' = FALSE /\ overlap' = task[w].mingled
        /\ broken' = FALSE /\ locked' = FALSE
        /\ UNCHANGED <<registered, stored, signed, automated, window, position, entering, late,
                       answered, crashes>>
    BY DEF Undo, Replaces, rows, strategy
  <1>3. task[w].previous \in Keys /\ overlap' \in BOOLEAN
    BY <1>1, <1>2 DEF Task
  <1>4. /\ session' \in Session /\ ~session'.enabled /\ session'.key = task[w].previous
        /\ session' # NoSession
    BY <1>2, <1>3, KeyAssumption DEF Fresh, Session, NoSession
  <1>5. /\ task' \in [Workers -> Task] /\ task'[w].pc = "verify" /\ task'[w].kind = "undo"
        /\ task'[w].key = task[w].previous /\ task'[w].previous = task[w].previous
        /\ task'[w].mingled = task[w].mingled
        /\ \A v \in Workers \ {w} : task'[v] = task[v]
    <2> DEFINE new == [task[w] EXCEPT !.kind = "undo", !.key = task[w].previous]
    <2>1. new \in Task
      BY <1>1 DEF Task, Kinds
    <2>2. task' = [task EXCEPT ![w] = new]
      BY <1>1 DEF Undo
    <2>3. task'[w] = new
      BY <1>1, <2>2
    <2>4. new.pc = "verify" /\ new.kind = "undo" /\ new.key = task[w].previous /\ new.previous = task[w].previous /\ new.mingled = task[w].mingled
      BY <1>1 DEF Task
    <2> HIDE DEF new
    <2>5. task' \in [Workers -> Task] /\ \A v \in Workers \ {w} : task'[v] = task[v]
      BY <1>1, <2>1, <2>2
    <2> QED  BY <2>3, <2>4, <2>5
  <1>a. TypeOK'
    BY <1>1, <1>2, <1>3, <1>4, <1>5 DEF IInv, TypeOK, Task, Session
  <1>b. Shaped'
    BY <1>3, <1>5, IdleFacts DEF IInv, Shaped
  <1>c. SessionHasKey' /\ OnlyAcceptedTradeUnlessMixed' /\ KeysForPositions'
    BY <1>1, <1>2, <1>3, <1>4, <1>5, IdleFacts
    DEF IInv, SessionHasKey, OnlyAcceptedTradeUnlessMixed, KeysForPositions, BootAlone, Keyless,
        Workers
  <1>d. BootAlone'
    BY <1>1, <1>2, <1>3, <1>4, <1>5, IdleFacts DEF IInv, BootAlone, Workers
  <1>e. Keyless' /\ Registered' /\ SignupAlone'
    BY <1>1, <1>2, <1>3, <1>4, <1>5, IdleFacts, KeyAssumption
    DEF IInv, Shaped, Keyless, Registered, SignupAlone
  <1>f. Solo' /\ Sourced' /\ Mingling'
    <2>1. Solo'
      BY <1>1, <1>2, <1>3, <1>4, <1>5, IdleFacts DEF IInv, SignupAlone, Solo, Busy, Task
    <2>2. Sourced'
      BY <1>1, <1>2, <1>3, <1>4, <1>5, IdleFacts DEF IInv, SignupAlone, Solo, Sourced, Busy, Task
    <2>3. Mingling'
      BY <1>1, <1>2, <1>5, IdleFacts DEF IInv, Solo, Mingling, Busy, Task
    <2> QED  BY <2>1, <2>2, <2>3
  <1>g. Carried'
    BY <1>1, <1>2, <1>3, <1>4, <1>5, IdleFacts DEF IInv, Carried, Solo, Sourced, Busy, Task
  <1> QED  BY <1>a, <1>b, <1>c, <1>d, <1>e, <1>f, <1>g DEF IInv

\* Nobody was signed in before the sign-up: nothing keeps its session.
LEMMA SignupRefusedStep ==
  ASSUME IInv, NEW w \in Workers, SignupRefused(w)
  PROVE  IInv'
  <1>1. /\ task \in [Workers -> Task] /\ session \in Session /\ task[w].pc = "verify" /\ Busy(w)
        /\ task[w].kind = "signup"
    BY TypeParts DEF IInv, SignupRefused, Busy
  <1>2. stored = NoKey /\ ~window /\ ~position /\ \A v \in Workers \ {w} : task[v] = Idle
    BY <1>1 DEF IInv, SignupAlone, Keyless
  <1>3. /\ session' = NoSession
        /\ UNCHANGED <<registered, stored, signed, automated, window, position, entering, late,
                       answered, mixed, overlap, broken, locked, crashes>>
    BY <1>2 DEF SignupRefused, Drops, rows, strategy, ghosts
  <1>4. /\ task' \in [Workers -> Task]
        /\ task'[w].pc = "delete" /\ task'[w].kind = task[w].kind /\ task'[w].key = task[w].key
        /\ task'[w].previous = task[w].previous /\ task'[w].mingled = task[w].mingled
        /\ \A v \in Workers \ {w} : task'[v] = task[v]
    BY <1>1, GoesTask DEF SignupRefused
  <1>5. session' \in Session /\ session'.enabled = FALSE
    BY <1>3, IdleFacts DEF NoSession, Session
  <1>a. TypeOK'
    BY <1>1, <1>2, <1>3, <1>4, <1>5 DEF IInv, TypeOK, Task, Session
  <1>b. Shaped'
    BY <1>1, <1>4, IdleFacts DEF IInv, Shaped
  <1>c. SessionHasKey' /\ OnlyAcceptedTradeUnlessMixed' /\ KeysForPositions'
    BY <1>1, <1>2, <1>3, <1>4, <1>5, IdleFacts
    DEF IInv, SessionHasKey, OnlyAcceptedTradeUnlessMixed, KeysForPositions, BootAlone, Keyless,
        Workers
  <1>d. BootAlone'
    BY <1>1, <1>2, <1>3, <1>4, <1>5, IdleFacts DEF IInv, BootAlone, Workers
  <1>e. Keyless' /\ Registered' /\ SignupAlone'
    BY <1>1, <1>2, <1>3, <1>4, <1>5, IdleFacts, KeyAssumption
    DEF IInv, Shaped, Keyless, Registered, SignupAlone
  <1>f. Solo' /\ Sourced' /\ Mingling'
    <2>1. Solo'
      BY <1>1, <1>2, <1>3, <1>4, <1>5, IdleFacts DEF IInv, SignupAlone, Solo, Busy, Task
    <2>2. Sourced'
      BY <1>1, <1>2, <1>3, <1>4, <1>5, IdleFacts DEF IInv, SignupAlone, Solo, Sourced, Busy, Task
    <2>3. Mingling'
      BY <1>1, <1>2, <1>3, <1>4, <1>5, IdleFacts DEF IInv, Mingling, Task
    <2> QED  BY <2>1, <2>2, <2>3
  <1>g. Carried'
    BY <1>1, <1>2, <1>3, <1>4, <1>5, IdleFacts DEF Carried
  <1> QED  BY <1>a, <1>b, <1>c, <1>d, <1>e, <1>f, <1>g DEF IInv

\* An answer that is not an acceptance never enables a session.
LEMMA UnacceptedStep ==
  ASSUME IInv, NEW w \in Workers, Unaccepted(w)
  PROVE  IInv'
  <1>1. /\ task \in [Workers -> Task] /\ session \in Session /\ task[w].pc = "verify" /\ Busy(w)
        /\ task[w].kind \notin {"signup", "update"}
    BY TypeParts DEF IInv, Unaccepted, Busy
  <1>2. /\ session' \in Answer(w)
        /\ UNCHANGED <<registered, stored, signed, automated, window, position, entering, late,
                       answered, mixed, overlap, broken, locked, crashes>>
    BY DEF Unaccepted, rows, strategy, ghosts
  <1>3. /\ session' \in Session /\ session'.key = session.key
        /\ session'.enabled => session'.verified /\ session'.key # NoKey /\ session.enabled
        /\ session' = NoSession <=> session = NoSession
    <2>1. CASE session' = session
      BY <1>1, <2>1 DEF IInv, TypeOK
    <2>2. CASE session' = Verified(FALSE) /\ session # NoSession
      BY <1>1, <2>2, IdleFacts DEF Verified, Session
    <2> QED  BY <1>2, <2>1, <2>2 DEF Answer
  <1>4. /\ task[w].key \in Keys
        /\ task[w].kind \in {"login", "me", "verify", "undo", "connect", "boot"}
    BY <1>1 DEF IInv, Shaped
  <1>6. CASE task[w].kind = "login"
    <2>2. /\ task' \in [Workers -> Task]
          /\ task'[w].pc = "token" /\ task'[w].kind = task[w].kind /\ task'[w].key = task[w].key
          /\ task'[w].previous = task[w].previous /\ task'[w].mingled = task[w].mingled
          /\ \A v \in Workers \ {w} : task'[v] = task[v]
      BY <1>1, <1>6, GoesTask DEF Unaccepted
    <2>a. TypeOK'
      BY <1>1, <1>2, <1>3, <1>4, <1>6, <2>2 DEF IInv, TypeOK, Task, Session
    <2>b. Shaped'
      BY <1>4, <1>6, <2>2, IdleFacts DEF IInv, Shaped
    <2>c. SessionHasKey' /\ OnlyAcceptedTradeUnlessMixed' /\ KeysForPositions'
      BY <1>1, <1>2, <1>3, <1>4, <1>6, <2>2, IdleFacts
      DEF IInv, SessionHasKey, OnlyAcceptedTradeUnlessMixed, KeysForPositions, BootAlone, Keyless,
          Workers
    <2>d. BootAlone'
      BY <1>1, <1>2, <1>3, <1>4, <1>6, <2>2, IdleFacts DEF IInv, BootAlone, Workers
    <2>e. Keyless' /\ Registered' /\ SignupAlone'
      BY <1>1, <1>2, <1>3, <1>4, <1>6, <2>2, IdleFacts, KeyAssumption
      DEF IInv, Shaped, Keyless, Registered, SignupAlone
    <2>f. Solo' /\ Sourced' /\ Mingling'
      <3>1. Solo'
        BY <1>1, <1>2, <1>3, <1>4, <1>6, <2>2, IdleFacts DEF IInv, SignupAlone, Solo, Busy, Task
      <3>2. Sourced'
        BY <1>1, <1>2, <1>3, <1>4, <1>6, <2>2, IdleFacts
           DEF IInv, SignupAlone, Solo, Sourced, Busy, Task
      <3>3. Mingling'
        BY <1>1, <1>2, <1>3, <1>4, <1>6, <2>2, IdleFacts DEF IInv, Mingling, Task
      <3> QED  BY <3>1, <3>2, <3>3
    <2>g. Carried'
      BY <1>1, <1>2, <1>3, <1>4, <1>6, <2>2, OwnSession, CarriedOn
    <2> QED  BY <2>a, <2>b, <2>c, <2>d, <2>e, <2>f, <2>g DEF IInv
  <1>7. CASE task[w].kind # "login"
    <2>2. /\ task' \in [Workers -> Task] /\ task'[w] = Idle
          /\ \A v \in Workers \ {w} : task'[v] = task[v]
      BY <1>1, <1>7, EndsTask DEF Unaccepted
    <2>a. TypeOK'
      BY <1>1, <1>2, <1>3, <1>4, <1>7, <2>2 DEF IInv, TypeOK, Task, Session
    <2>b. Shaped'
      BY <2>2, IdleFacts DEF IInv, Shaped
    <2>c. SessionHasKey' /\ OnlyAcceptedTradeUnlessMixed' /\ KeysForPositions'
      BY <1>1, <1>2, <1>3, <1>4, <1>7, <2>2, IdleFacts
      DEF IInv, SessionHasKey, OnlyAcceptedTradeUnlessMixed, KeysForPositions, BootAlone, Keyless,
          Workers
    <2>d. BootAlone'
      BY <1>1, <1>2, <1>3, <1>4, <1>7, <2>2, IdleFacts DEF IInv, BootAlone, Workers
    <2>e. Keyless' /\ Registered' /\ SignupAlone'
      BY <1>1, <1>2, <1>3, <1>4, <1>7, <2>2, IdleFacts, KeyAssumption
      DEF IInv, Shaped, Keyless, Registered, SignupAlone
    <2>f. Solo' /\ Sourced' /\ Mingling'
      <3>1. Solo'
        BY <1>1, <1>2, <1>3, <1>4, <1>7, <2>2, IdleFacts DEF IInv, SignupAlone, Solo, Busy, Task
      <3>2. Sourced'
        BY <1>1, <1>2, <1>3, <1>4, <1>7, <2>2, IdleFacts
           DEF IInv, SignupAlone, Solo, Sourced, Busy, Task
      <3>3. Mingling'
        BY <1>1, <1>2, <1>3, <1>4, <1>7, <2>2, IdleFacts DEF IInv, Mingling, Task
      <3> QED  BY <3>1, <3>2, <3>3
    <2>g. Carried'
      BY <1>1, <1>2, <1>3, <1>4, <1>7, <2>2, OwnSession, CarriedToEnd
    <2> QED  BY <2>a, <2>b, <2>c, <2>d, <2>e, <2>f, <2>g DEF IInv
  <1> QED  BY <1>6, <1>7

\* The verified keys become the stored ones.
LEMMA PersistStep ==
  ASSUME IInv, NEW w \in Workers, Persist(w)
  PROVE  IInv'
  <1>1. task \in [Workers -> Task] /\ session \in Session /\ task[w].pc = "persist" /\ Busy(w)
    BY TypeParts DEF IInv, Persist, Busy
  <1>2. /\ stored' = task[w].key
        /\ UNCHANGED <<registered, signed, automated, session, window, position, entering, late,
                       answered, mixed, overlap, broken, locked, crashes>>
    BY DEF Persist, strategy, ghosts
  <1>3. task[w].key \in Keys /\ stored' \in Keys /\ stored' # NoKey /\ task[w].kind \in {"signup", "update"}
    BY <1>1, <1>2, KeyAssumption DEF IInv, Shaped
  <1>4. session.enabled => session.verified /\ session.key # NoKey
    BY TypeParts DEF IInv
  <1>6. CASE task[w].kind = "signup"
    <2>2. /\ task' \in [Workers -> Task]
          /\ task'[w].pc = "token" /\ task'[w].kind = task[w].kind /\ task'[w].key = task[w].key
          /\ task'[w].previous = task[w].previous /\ task'[w].mingled = task[w].mingled
          /\ \A v \in Workers \ {w} : task'[v] = task[v]
      BY <1>1, <1>6, GoesTask DEF Persist
    <2>a. TypeOK'
      BY <1>1, <1>2, <1>3, <1>4, <1>6, <2>2 DEF IInv, TypeOK, Task, Session
    <2>b. Shaped'
      BY <1>3, <1>6, <2>2, IdleFacts DEF IInv, Shaped
    <2>c. SessionHasKey' /\ OnlyAcceptedTradeUnlessMixed' /\ KeysForPositions'
      BY <1>1, <1>2, <1>3, <1>4, <1>6, <2>2, IdleFacts
      DEF IInv, SessionHasKey, OnlyAcceptedTradeUnlessMixed, KeysForPositions, BootAlone, Keyless,
          Workers
    <2>d. BootAlone'
      BY <1>1, <1>2, <1>3, <1>4, <1>6, <2>2, IdleFacts DEF IInv, BootAlone, Workers
    <2>e. Keyless' /\ Registered' /\ SignupAlone'
      BY <1>1, <1>2, <1>3, <1>4, <1>6, <2>2, IdleFacts, KeyAssumption
      DEF IInv, Shaped, Keyless, Registered, SignupAlone
    <2>f. Solo' /\ Sourced' /\ Mingling'
      <3>1. Solo'
        BY <1>1, <1>2, <1>3, <1>4, <1>6, <2>2, IdleFacts DEF IInv, SignupAlone, Solo, Busy, Task
      <3>2. Sourced'
        BY <1>1, <1>2, <1>3, <1>4, <1>6, <2>2, IdleFacts
           DEF IInv, SignupAlone, Solo, Sourced, Busy, Task
      <3>3. Mingling'
        BY <1>1, <1>2, <1>3, <1>4, <1>6, <2>2, IdleFacts DEF IInv, Mingling, Task
      <3> QED  BY <3>1, <3>2, <3>3
    <2>g. Carried'
      BY <1>1, <1>2, <1>3, <1>4, <1>6, <2>2, OwnSession, CarriedOn
    <2> QED  BY <2>a, <2>b, <2>c, <2>d, <2>e, <2>f, <2>g DEF IInv
  <1>7. CASE task[w].kind # "signup"
    <2>2. /\ task' \in [Workers -> Task] /\ task'[w] = Idle
          /\ \A v \in Workers \ {w} : task'[v] = task[v]
      BY <1>1, <1>7, EndsTask DEF Persist
    <2>a. TypeOK'
      BY <1>1, <1>2, <1>3, <1>4, <1>7, <2>2 DEF IInv, TypeOK, Task, Session
    <2>b. Shaped'
      BY <2>2, IdleFacts DEF IInv, Shaped
    <2>c. SessionHasKey' /\ OnlyAcceptedTradeUnlessMixed' /\ KeysForPositions'
      BY <1>1, <1>2, <1>3, <1>4, <1>7, <2>2, IdleFacts
      DEF IInv, SessionHasKey, OnlyAcceptedTradeUnlessMixed, KeysForPositions, BootAlone, Keyless,
          Workers
    <2>d. BootAlone'
      BY <1>1, <1>2, <1>3, <1>4, <1>7, <2>2, IdleFacts DEF IInv, BootAlone, Workers
    <2>e. Keyless' /\ Registered' /\ SignupAlone'
      BY <1>1, <1>2, <1>3, <1>4, <1>7, <2>2, IdleFacts, KeyAssumption
      DEF IInv, Shaped, Keyless, Registered, SignupAlone
    <2>f. Solo' /\ Sourced' /\ Mingling'
      <3>1. Solo'
        BY <1>1, <1>2, <1>3, <1>4, <1>7, <2>2, IdleFacts DEF IInv, SignupAlone, Solo, Busy, Task
      <3>2. Sourced'
        BY <1>1, <1>2, <1>3, <1>4, <1>7, <2>2, IdleFacts
           DEF IInv, SignupAlone, Solo, Sourced, Busy, Task
      <3>3. Mingling'
        BY <1>1, <1>2, <1>3, <1>4, <1>7, <2>2, IdleFacts DEF IInv, Mingling, Task
      <3> QED  BY <3>1, <3>2, <3>3
    <2>g. Carried'
      BY <1>1, <1>2, <1>3, <1>4, <1>7, <2>2, OwnSession, CarriedToEnd
    <2> QED  BY <2>a, <2>b, <2>c, <2>d, <2>e, <2>f, <2>g DEF IInv
  <1> QED  BY <1>6, <1>7

\* The write raises: the connected keys are not the stored ones, which broken records.
LEMMA PersistFailsStep ==
  ASSUME IInv, NEW w \in Workers, PersistFails(w)
  PROVE  IInv'
  <1>1. task \in [Workers -> Task] /\ session \in Session /\ task[w].pc = "persist" /\ Busy(w)
    BY TypeParts DEF IInv, PersistFails, Busy
  <1>2. /\ broken' = TRUE
        /\ UNCHANGED <<registered, stored, signed, automated, session, window, position,
                       entering, late, answered, mixed, overlap, locked, crashes>>
    BY DEF PersistFails, rows, strategy
  <1>3. /\ task' \in [Workers -> Task] /\ task'[w] = Idle
        /\ \A v \in Workers \ {w} : task'[v] = task[v]
    BY <1>1, EndsTask DEF PersistFails
  <1>4. session.enabled => session.verified /\ session.key # NoKey
    BY TypeParts DEF IInv
  <1>a. TypeOK'
    BY <1>1, <1>2, <1>3, <1>4 DEF IInv, TypeOK, Task, Session
  <1>b. Shaped'
    BY <1>3, IdleFacts DEF IInv, Shaped
  <1>c. SessionHasKey' /\ OnlyAcceptedTradeUnlessMixed' /\ KeysForPositions'
    BY <1>1, <1>2, <1>3, <1>4, IdleFacts
    DEF IInv, SessionHasKey, OnlyAcceptedTradeUnlessMixed, KeysForPositions, BootAlone, Keyless,
        Workers
  <1>d. BootAlone'
    BY <1>1, <1>2, <1>3, <1>4, IdleFacts DEF IInv, BootAlone, Workers
  <1>e. Keyless' /\ Registered' /\ SignupAlone'
    BY <1>1, <1>2, <1>3, <1>4, IdleFacts, KeyAssumption
    DEF IInv, Shaped, Keyless, Registered, SignupAlone
  <1>f. Solo' /\ Sourced' /\ Mingling'
    <2>1. Solo'
      BY <1>1, <1>2, <1>3, <1>4, IdleFacts DEF IInv, SignupAlone, Solo, Busy, Task
    <2>2. Sourced'
      BY <1>1, <1>2, <1>3, <1>4, IdleFacts DEF IInv, SignupAlone, Solo, Sourced, Busy, Task
    <2>3. Mingling'
      BY <1>1, <1>2, <1>3, <1>4, IdleFacts DEF IInv, Mingling, Task
    <2> QED  BY <2>1, <2>2, <2>3
  <1>g. Carried'
    BY <1>1, <1>2, <1>3, <1>4, CarriedToEnd
  <1> QED  BY <1>a, <1>b, <1>c, <1>d, <1>e, <1>f, <1>g DEF IInv

\* An exception ends a request where it is; of the sessions it leaves, only that
\* of a sign-up or an update has other keys than the stored ones.
LEMMA RaisesStep ==
  ASSUME IInv, NEW w \in Workers, Raises(w)
  PROVE  IInv'
  <1>1. /\ task \in [Workers -> Task] /\ session \in Session /\ Busy(w)
        /\ task[w].pc \in {"verify", "token", "delete"}
    BY TypeParts DEF IInv, Raises, Busy
  <1>2. /\ session' \in Answer(w) \cup {session}
        /\ broken' = (broken \/ (task[w].pc = "verify" /\ task[w].kind \in {"signup", "update"}))
        /\ UNCHANGED <<registered, stored, signed, automated, window, position, entering, late,
                       answered, mixed, overlap, locked, crashes>>
    BY DEF Raises, rows, strategy
  <1>3. /\ session' \in Session /\ session'.key = session.key
        /\ session'.enabled => session'.verified /\ session'.key # NoKey /\ session.enabled
        /\ session' = NoSession <=> session = NoSession
    <2>1. CASE session' = session
      BY <1>1, <2>1 DEF IInv, TypeOK
    <2>2. CASE session' = Verified(FALSE) /\ session # NoSession
      BY <1>1, <2>2, IdleFacts DEF Verified, Session
    <2> QED  BY <1>2, <2>1, <2>2 DEF Answer
  <1>4. /\ task' \in [Workers -> Task] /\ task'[w] = Idle
        /\ \A v \in Workers \ {w} : task'[v] = task[v]
    BY <1>1, EndsTask DEF Raises
  <1>5. broken' \in BOOLEAN
    BY <1>2 DEF IInv, TypeOK
  <1>a. TypeOK'
    BY <1>1, <1>2, <1>3, <1>4, <1>5 DEF IInv, TypeOK, Task, Session
  <1>b. Shaped'
    BY <1>4, IdleFacts DEF IInv, Shaped
  <1>c. SessionHasKey' /\ OnlyAcceptedTradeUnlessMixed' /\ KeysForPositions'
    BY <1>1, <1>2, <1>3, <1>4, IdleFacts
    DEF IInv, SessionHasKey, OnlyAcceptedTradeUnlessMixed, KeysForPositions, BootAlone, Keyless,
        Workers
  <1>d. BootAlone'
    BY <1>1, <1>2, <1>3, <1>4, IdleFacts DEF IInv, BootAlone, Workers
  <1>e. Keyless' /\ Registered' /\ SignupAlone'
    BY <1>1, <1>2, <1>3, <1>4, IdleFacts, KeyAssumption
    DEF IInv, Shaped, Keyless, Registered, SignupAlone
  <1>f. Solo' /\ Sourced' /\ Mingling'
    <2>1. Solo'
      BY <1>1, <1>2, <1>3, <1>4, IdleFacts DEF IInv, SignupAlone, Solo, Busy, Task
    <2>2. Sourced'
      BY <1>1, <1>2, <1>3, <1>4, IdleFacts DEF IInv, SignupAlone, Solo, Sourced, Busy, Task
    <2>3. Mingling'
      BY <1>1, <1>2, <1>3, <1>4, IdleFacts DEF IInv, Mingling, Task
    <2> QED  BY <2>1, <2>2, <2>3
  <1>g. Carried'
    <2>1. ASSUME ~overlap', ~broken', session' # NoSession
          PROVE  session'.key = stored'
      <3>1. ~overlap /\ ~broken /\ session # NoSession
        BY <1>2, <1>3, <2>1
      <3>2. task[w].pc \in {"verify", "token"} /\ ~(task[w].pc = "verify" /\ task[w].kind \in {"signup", "update"})
        BY <1>1, <1>2, <2>1, <3>1 DEF IInv, Carried
      <3>3. session.key = task[w].key
        BY <1>1, <3>1, <3>2, OwnSession
      <3>4. task[w].key = stored
        <4>1. CASE task[w].pc = "token"
          BY <1>1, <3>1, <4>1, OwnSession
        <4>2. CASE task[w].pc = "verify"
          <5>1. task[w].kind \in {"login", "me", "verify", "undo", "connect", "boot"}
            BY <3>2, <4>2 DEF IInv, Shaped
          <5> QED  BY <1>1, <3>1, <5>1, OwnSession
        <4> QED  BY <3>2, <4>1, <4>2
      <3> QED  BY <1>2, <1>3, <3>3, <3>4
    <2> QED  BY <1>1, <1>2, <1>4, <2>1, CarriedToEnd
  <1> QED  BY <1>a, <1>b, <1>c, <1>d, <1>e, <1>f, <1>g DEF IInv

\* Only an account with stored keys gets a token.
LEMMA TokenStep ==
  ASSUME IInv, NEW w \in Workers, Token(w)
  PROVE  IInv'
  <1>1. /\ task \in [Workers -> Task] /\ session \in Session /\ task[w].pc = "token" /\ Busy(w)
        /\ w \in Browsers
    BY TypeParts, IdleFacts DEF IInv, Token, Busy, BootAlone, Workers
  <1>2. /\ signed' = signed \cup {w}
        /\ UNCHANGED <<registered, stored, automated, session, window, position, entering, late,
                       answered, mixed, overlap, broken, locked, crashes>>
    BY DEF Token, strategy, ghosts
  <1>3. /\ task' \in [Workers -> Task] /\ task'[w] = Idle
        /\ \A v \in Workers \ {w} : task'[v] = task[v]
    BY <1>1, EndsTask DEF Token
  <1>4. session.enabled => session.verified /\ session.key # NoKey
    BY TypeParts DEF IInv
  <1>a. TypeOK'
    BY <1>1, <1>2, <1>3, <1>4 DEF IInv, TypeOK, Task, Session
  <1>b. Shaped'
    BY <1>3, IdleFacts DEF IInv, Shaped
  <1>c. SessionHasKey' /\ OnlyAcceptedTradeUnlessMixed' /\ KeysForPositions'
    BY <1>1, <1>2, <1>3, <1>4, IdleFacts
    DEF IInv, SessionHasKey, OnlyAcceptedTradeUnlessMixed, KeysForPositions, BootAlone, Keyless,
        Workers
  <1>d. BootAlone'
    BY <1>1, <1>2, <1>3, <1>4, IdleFacts DEF IInv, BootAlone, Workers
  <1>e. Keyless' /\ Registered' /\ SignupAlone'
    BY <1>1, <1>2, <1>3, <1>4, IdleFacts, KeyAssumption
    DEF IInv, Shaped, Keyless, Registered, SignupAlone
  <1>f. Solo' /\ Sourced' /\ Mingling'
    <2>1. Solo'
      BY <1>1, <1>2, <1>3, <1>4, IdleFacts DEF IInv, SignupAlone, Solo, Busy, Task
    <2>2. Sourced'
      BY <1>1, <1>2, <1>3, <1>4, IdleFacts DEF IInv, SignupAlone, Solo, Sourced, Busy, Task
    <2>3. Mingling'
      BY <1>1, <1>2, <1>3, <1>4, IdleFacts DEF IInv, Mingling, Task
    <2> QED  BY <2>1, <2>2, <2>3
  <1>g. Carried'
    BY <1>1, <1>2, <1>3, <1>4, OwnSession, CarriedToEnd
  <1> QED  BY <1>a, <1>b, <1>c, <1>d, <1>e, <1>f, <1>g DEF IInv

\* delete_user after a refused sign-up, the only request there is.
LEMMA DeleteStep ==
  ASSUME IInv, NEW w \in Workers, Delete(w)
  PROVE  IInv'
  <1>1. /\ task \in [Workers -> Task] /\ session \in Session /\ task[w].pc = "delete" /\ Busy(w)
        /\ task[w].kind = "signup"
    BY TypeParts DEF IInv, Delete, Busy, Shaped
  <1>2. /\ registered' = FALSE /\ stored' = NoKey /\ signed' = {} /\ automated' = FALSE
        /\ UNCHANGED <<session, window, position, entering, late, answered, mixed, overlap,
                       broken, locked, crashes>>
    BY DEF Delete, strategy, ghosts
  <1>3. /\ task' \in [Workers -> Task] /\ task'[w] = Idle
        /\ \A v \in Workers \ {w} : task'[v] = task[v]
    BY <1>1, EndsTask DEF Delete
  <1>4. /\ session.enabled => session.verified /\ session.key # NoKey
        /\ stored = NoKey /\ ~window /\ ~position /\ ~entering
        /\ \A v \in Workers \ {w} : task[v] = Idle
    BY <1>1, TypeParts DEF IInv, SignupAlone, Keyless
  <1>a. TypeOK'
    BY <1>1, <1>2, <1>3, <1>4 DEF IInv, TypeOK, Task, Session
  <1>b. Shaped'
    BY <1>3, IdleFacts DEF IInv, Shaped
  <1>c. SessionHasKey' /\ OnlyAcceptedTradeUnlessMixed' /\ KeysForPositions'
    BY <1>1, <1>2, <1>3, <1>4, IdleFacts
    DEF IInv, SessionHasKey, OnlyAcceptedTradeUnlessMixed, KeysForPositions, BootAlone, Keyless,
        Workers
  <1>d. BootAlone'
    BY <1>1, <1>2, <1>3, <1>4, IdleFacts DEF IInv, BootAlone, Workers
  <1>e. Keyless' /\ Registered' /\ SignupAlone'
    BY <1>1, <1>2, <1>3, <1>4, IdleFacts, KeyAssumption
    DEF IInv, Shaped, Keyless, Registered, SignupAlone
  <1>f. Solo' /\ Sourced' /\ Mingling'
    <2>1. Solo'
      BY <1>1, <1>2, <1>3, <1>4, IdleFacts DEF IInv, SignupAlone, Solo, Busy, Task
    <2>2. Sourced'
      BY <1>1, <1>2, <1>3, <1>4, IdleFacts DEF IInv, SignupAlone, Solo, Sourced, Busy, Task
    <2>3. Mingling'
      BY <1>1, <1>2, <1>3, <1>4, IdleFacts DEF IInv, Mingling, Task
    <2> QED  BY <2>1, <2>2, <2>3
  <1>g. Carried'
    BY <1>1, <1>2, <1>3, <1>4, CarriedToEnd DEF IInv, Carried
  <1> QED  BY <1>a, <1>b, <1>c, <1>d, <1>e, <1>f, <1>g DEF IInv

\* A logout removes the session only when nothing depends on it.
LEMMA DropStep ==
  ASSUME IInv, NEW w \in Workers, Drop(w)
  PROVE  IInv'
  <1>1. task \in [Workers -> Task] /\ session \in Session /\ task[w].pc = "drop"
    BY TypeParts DEF IInv, Drop
  <1>2. /\ session' \in {session, NoSession} /\ (position => session' = session)
        /\ UNCHANGED <<registered, stored, signed, automated, window, position, entering, late,
                       answered, mixed, overlap, broken, locked, crashes>>
    BY DEF Drop, Drops, rows, strategy, ghosts
  <1>3. /\ task' \in [Workers -> Task] /\ task'[w] = Idle
        /\ \A v \in Workers \ {w} : task'[v] = task[v]
    BY <1>1, EndsTask DEF Drop
  <1>4. /\ session' \in Session
        /\ session'.enabled => session'.verified /\ session'.key # NoKey /\ session' = session
    BY <1>1, <1>2, TypeParts, IdleFacts DEF IInv, Session, NoSession
  <1>a. TypeOK'
    BY <1>1, <1>2, <1>3, <1>4 DEF IInv, TypeOK, Task, Session
  <1>b. Shaped'
    BY <1>3, IdleFacts DEF IInv, Shaped
  <1>c. SessionHasKey' /\ OnlyAcceptedTradeUnlessMixed' /\ KeysForPositions'
    BY <1>1, <1>2, <1>3, <1>4, IdleFacts
    DEF IInv, SessionHasKey, OnlyAcceptedTradeUnlessMixed, KeysForPositions, BootAlone, Keyless,
        Workers
  <1>d. BootAlone'
    BY <1>1, <1>2, <1>3, <1>4, IdleFacts DEF IInv, BootAlone, Workers
  <1>e. Keyless' /\ Registered' /\ SignupAlone'
    BY <1>1, <1>2, <1>3, <1>4, IdleFacts, KeyAssumption
    DEF IInv, Shaped, Keyless, Registered, SignupAlone
  <1>f. Solo' /\ Sourced' /\ Mingling'
    <2>1. Solo'
      BY <1>1, <1>2, <1>3, <1>4, IdleFacts DEF IInv, SignupAlone, Solo, Busy, Task
    <2>2. Sourced'
      BY <1>1, <1>2, <1>3, <1>4, IdleFacts DEF IInv, SignupAlone, Solo, Sourced, Busy, Task
    <2>3. Mingling'
      BY <1>1, <1>2, <1>3, <1>4, IdleFacts DEF IInv, Mingling, Task
    <2> QED  BY <2>1, <2>2, <2>3
  <1>g. Carried'
    BY <1>1, <1>2, <1>3, <1>4, IdleFacts DEF IInv, Carried, Busy
  <1> QED  BY <1>a, <1>b, <1>c, <1>d, <1>e, <1>f, <1>g DEF IInv

-------------------------------------------------------------------------------
(* Requests that start, and restarts *)

\* A sign-up starts when nothing is stored and nothing runs.
LEMMA SignupStep ==
  ASSUME IInv, NEW b \in Browsers, NEW key \in Keys, Signup(b, key)
  PROVE  IInv'
  <1>1. /\ task \in [Workers -> Task] /\ session \in Session /\ b \in Workers
        /\ task[b] = Idle /\ task[Boot] = Idle /\ Boot \in Workers /\ b # Boot
        /\ Alone(b) = (\A v \in Workers \ {b} : task[v] = Idle)
    BY TypeParts, KeyAssumption DEF IInv, Signup, Ready, SignedIn, Workers, Alone
  <1>2. /\ overlap' = (overlap \/ ~Alone(b)) /\ UNCHANGED <<answered, mixed, broken, locked,
                                                            crashes>>
        /\ UNCHANGED <<stored, signed, automated, window, position, entering, late, session>>
        /\ registered' = TRUE
    BY DEF Signup, Starts, rows, strategy
  <1>3. /\ session.enabled => session.verified /\ session.key # NoKey
        /\ ~registered /\ stored = NoKey /\ \A v \in Workers \ {b} : task[v] = Idle
    BY TypeParts, KeyAssumption DEF IInv, Signup, Ready, Keyless, Registered, SignupAlone, Shaped
  <1>4. /\ task' \in [Workers -> Task]
        /\ task'[b].pc = "connect" /\ task'[b].kind = "signup" /\ task'[b].key = key
        /\ task'[b].previous = stored /\ task'[b].mingled = ~Alone(b)
        /\ \A v \in Workers \ {b} :
             IF task[v] = Idle THEN task'[v] = Idle
             ELSE /\ task'[v].pc = task[v].pc /\ task'[v].kind = task[v].kind
                  /\ task'[v].key = task[v].key /\ task'[v].previous = task[v].previous
                  /\ task'[v].mingled = TRUE
    <2>1. Starts(b, "signup", key) /\ "signup" \in Kinds /\ key \in Keys
      BY <1>3 DEF Signup, Kinds
    <2> QED  BY <1>1, <2>1, StartsTask DEF IInv
  <1>a. TypeOK'
    BY <1>1, <1>2, <1>3, <1>4 DEF IInv, TypeOK, Task, Session
  <1>b. Shaped'
    BY <1>1, <1>3, <1>4, IdleFacts DEF IInv, Shaped
  <1>c. SessionHasKey' /\ OnlyAcceptedTradeUnlessMixed' /\ KeysForPositions'
    BY <1>1, <1>2, <1>3, <1>4, IdleFacts
    DEF IInv, SessionHasKey, OnlyAcceptedTradeUnlessMixed, KeysForPositions, BootAlone, Keyless,
        Workers
  <1>d. BootAlone'
    BY <1>1, <1>2, <1>3, <1>4, IdleFacts DEF IInv, BootAlone, Workers
  <1>e. Keyless' /\ Registered' /\ SignupAlone'
    BY <1>1, <1>2, <1>3, <1>4, IdleFacts, KeyAssumption
    DEF IInv, Shaped, Keyless, Registered, SignupAlone
  <1>f. Solo' /\ Sourced' /\ Mingling'
    <2>1. Solo'
      BY <1>1, <1>2, <1>3, <1>4, IdleFacts DEF IInv, SignupAlone, Solo, Busy, Task
    <2>2. Sourced'
      BY <1>1, <1>2, <1>3, <1>4, IdleFacts DEF IInv, SignupAlone, Solo, Sourced, Busy, Task
    <2>3. Mingling'
      BY <1>1, <1>2, <1>3, <1>4, IdleFacts DEF IInv, Mingling, Task
    <2> QED  BY <2>1, <2>2, <2>3
  <1>g. Carried'
    BY <1>1, <1>2, <1>3, <1>4, CarriedAtStart
  <1> QED  BY <1>a, <1>b, <1>c, <1>d, <1>e, <1>f, <1>g DEF IInv

\* The others start with keys stored; whatever runs is marked as mingled.
LEMMA UpdateStep ==
  ASSUME IInv, NEW b \in Browsers, NEW key \in Keys, Update(b, key)
  PROVE  IInv'
  <1>1. /\ task \in [Workers -> Task] /\ session \in Session /\ b \in Workers
        /\ task[b] = Idle /\ task[Boot] = Idle /\ Boot \in Workers /\ b # Boot
        /\ Alone(b) = (\A v \in Workers \ {b} : task[v] = Idle)
    BY TypeParts, KeyAssumption DEF IInv, Update, Ready, SignedIn, Workers, Alone
  <1>2. /\ overlap' = (overlap \/ ~Alone(b)) /\ UNCHANGED <<answered, mixed, broken, locked,
                                                            crashes>>
        /\ UNCHANGED <<registered, stored, signed, automated, window, position, entering, late,
                       session>>
    BY DEF Update, Starts, rows, strategy
  <1>3. /\ session.enabled => session.verified /\ session.key # NoKey
        /\ stored \in Keys /\ stored # NoKey /\ registered
    BY TypeParts, KeyAssumption DEF IInv, Update, SignedIn, Keyless, Registered, TypeOK
  <1>4. /\ task' \in [Workers -> Task]
        /\ task'[b].pc = "connect" /\ task'[b].kind = "update" /\ task'[b].key = key
        /\ task'[b].previous = stored /\ task'[b].mingled = ~Alone(b)
        /\ \A v \in Workers \ {b} :
             IF task[v] = Idle THEN task'[v] = Idle
             ELSE /\ task'[v].pc = task[v].pc /\ task'[v].kind = task[v].kind
                  /\ task'[v].key = task[v].key /\ task'[v].previous = task[v].previous
                  /\ task'[v].mingled = TRUE
    <2>1. Starts(b, "update", key) /\ "update" \in Kinds /\ key \in Keys
      BY <1>3 DEF Update, Kinds
    <2> QED  BY <1>1, <2>1, StartsTask DEF IInv
  <1>a. TypeOK'
    BY <1>1, <1>2, <1>3, <1>4 DEF IInv, TypeOK, Task, Session
  <1>b. Shaped'
    BY <1>1, <1>3, <1>4, IdleFacts DEF IInv, Shaped
  <1>c. SessionHasKey' /\ OnlyAcceptedTradeUnlessMixed' /\ KeysForPositions'
    BY <1>1, <1>2, <1>3, <1>4, IdleFacts
    DEF IInv, SessionHasKey, OnlyAcceptedTradeUnlessMixed, KeysForPositions, BootAlone, Keyless,
        Workers
  <1>d. BootAlone'
    BY <1>1, <1>2, <1>3, <1>4, IdleFacts DEF IInv, BootAlone, Workers
  <1>e. Keyless' /\ Registered' /\ SignupAlone'
    BY <1>1, <1>2, <1>3, <1>4, IdleFacts, KeyAssumption
    DEF IInv, Shaped, Keyless, Registered, SignupAlone
  <1>f. Solo' /\ Sourced' /\ Mingling'
    <2>1. Solo'
      BY <1>1, <1>2, <1>3, <1>4, IdleFacts DEF IInv, SignupAlone, Solo, Busy, Task
    <2>2. Sourced'
      BY <1>1, <1>2, <1>3, <1>4, IdleFacts DEF IInv, SignupAlone, Solo, Sourced, Busy, Task
    <2>3. Mingling'
      BY <1>1, <1>2, <1>3, <1>4, IdleFacts DEF IInv, Mingling, Task
    <2> QED  BY <2>1, <2>2, <2>3
  <1>g. Carried'
    BY <1>1, <1>2, <1>3, <1>4, CarriedAtStart
  <1> QED  BY <1>a, <1>b, <1>c, <1>d, <1>e, <1>f, <1>g DEF IInv

LEMMA ConnectOrderSessionStep ==
  ASSUME IInv, NEW b \in Browsers, NEW key \in Keys, ConnectOrderSession(b, key)
  PROVE  IInv'
  <1>1. /\ task \in [Workers -> Task] /\ session \in Session /\ b \in Workers
        /\ task[b] = Idle /\ task[Boot] = Idle /\ Boot \in Workers /\ b # Boot
        /\ Alone(b) = (\A v \in Workers \ {b} : task[v] = Idle)
    BY TypeParts, KeyAssumption DEF IInv, ConnectOrderSession, Ready, SignedIn, Workers, Alone
  <1>2. /\ overlap' = (overlap \/ ~Alone(b)) /\ UNCHANGED <<answered, mixed, broken, locked,
                                                            crashes>>
        /\ UNCHANGED <<registered, signed, automated, window, position, entering, late,
                       session>> /\ stored' = key
    BY DEF ConnectOrderSession, Starts, rows, strategy
  <1>3. /\ session.enabled => session.verified /\ session.key # NoKey
        /\ stored \in Keys /\ stored # NoKey /\ registered /\ key # NoKey
    BY TypeParts, KeyAssumption DEF IInv, ConnectOrderSession, SignedIn, Keyless, Registered, TypeOK
  <1>4. /\ task' \in [Workers -> Task]
        /\ task'[b].pc = "connect" /\ task'[b].kind = "connect" /\ task'[b].key = key
        /\ task'[b].previous = stored /\ task'[b].mingled = ~Alone(b)
        /\ \A v \in Workers \ {b} :
             IF task[v] = Idle THEN task'[v] = Idle
             ELSE /\ task'[v].pc = task[v].pc /\ task'[v].kind = task[v].kind
                  /\ task'[v].key = task[v].key /\ task'[v].previous = task[v].previous
                  /\ task'[v].mingled = TRUE
    <2>1. Starts(b, "connect", key) /\ "connect" \in Kinds /\ key \in Keys
      BY <1>3 DEF ConnectOrderSession, Kinds
    <2> QED  BY <1>1, <2>1, StartsTask DEF IInv
  <1>a. TypeOK'
    BY <1>1, <1>2, <1>3, <1>4 DEF IInv, TypeOK, Task, Session
  <1>b. Shaped'
    BY <1>1, <1>3, <1>4, IdleFacts DEF IInv, Shaped
  <1>c. SessionHasKey' /\ OnlyAcceptedTradeUnlessMixed' /\ KeysForPositions'
    BY <1>1, <1>2, <1>3, <1>4, IdleFacts
    DEF IInv, SessionHasKey, OnlyAcceptedTradeUnlessMixed, KeysForPositions, BootAlone, Keyless,
        Workers
  <1>d. BootAlone'
    BY <1>1, <1>2, <1>3, <1>4, IdleFacts DEF IInv, BootAlone, Workers
  <1>e. Keyless' /\ Registered' /\ SignupAlone'
    BY <1>1, <1>2, <1>3, <1>4, IdleFacts, KeyAssumption
    DEF IInv, Shaped, Keyless, Registered, SignupAlone
  <1>f. Solo' /\ Sourced' /\ Mingling'
    <2>1. Solo'
      BY <1>1, <1>2, <1>3, <1>4, IdleFacts DEF IInv, SignupAlone, Solo, Busy, Task
    <2>2. Sourced'
      BY <1>1, <1>2, <1>3, <1>4, IdleFacts DEF IInv, SignupAlone, Solo, Sourced, Busy, Task
    <2>3. Mingling'
      BY <1>1, <1>2, <1>3, <1>4, IdleFacts DEF IInv, Mingling, Task
    <2> QED  BY <2>1, <2>2, <2>3
  <1>g. Carried'
    BY <1>1, <1>2, <1>3, <1>4, CarriedAtStart
  <1> QED  BY <1>a, <1>b, <1>c, <1>d, <1>e, <1>f, <1>g DEF IInv

LEMMA ReconnectStep ==
  ASSUME IInv, NEW b \in Browsers, NEW kind \in {"login", "me", "verify"}, Reconnect(b, kind)
  PROVE  IInv'
  <1>1. /\ task \in [Workers -> Task] /\ session \in Session /\ b \in Workers
        /\ task[b] = Idle /\ task[Boot] = Idle /\ Boot \in Workers /\ b # Boot
        /\ Alone(b) = (\A v \in Workers \ {b} : task[v] = Idle)
    BY TypeParts, KeyAssumption DEF IInv, Reconnect, Ready, SignedIn, Workers, Alone
  <1>2. /\ overlap' = (overlap \/ ~Alone(b)) /\ UNCHANGED <<answered, mixed, broken, locked,
                                                            crashes>>
        /\ UNCHANGED <<registered, stored, signed, automated, window, position, entering, late,
                       session>>
    BY DEF Reconnect, Starts, rows, strategy
  <1>3. /\ session.enabled => session.verified /\ session.key # NoKey
        /\ stored \in Keys /\ stored # NoKey /\ registered
    BY TypeParts, KeyAssumption DEF IInv, Reconnect, Keyless, Registered, TypeOK
  <1>4. /\ task' \in [Workers -> Task]
        /\ task'[b].pc = "connect" /\ task'[b].kind = kind /\ task'[b].key = stored
        /\ task'[b].previous = stored /\ task'[b].mingled = ~Alone(b)
        /\ \A v \in Workers \ {b} :
             IF task[v] = Idle THEN task'[v] = Idle
             ELSE /\ task'[v].pc = task[v].pc /\ task'[v].kind = task[v].kind
                  /\ task'[v].key = task[v].key /\ task'[v].previous = task[v].previous
                  /\ task'[v].mingled = TRUE
    <2>1. Starts(b, kind, stored) /\ kind \in Kinds /\ stored \in Keys
      BY <1>3 DEF Reconnect, Kinds
    <2> QED  BY <1>1, <2>1, StartsTask DEF IInv
  <1>a. TypeOK'
    BY <1>1, <1>2, <1>3, <1>4 DEF IInv, TypeOK, Task, Session
  <1>b. Shaped'
    BY <1>1, <1>3, <1>4, IdleFacts DEF IInv, Shaped
  <1>c. SessionHasKey' /\ OnlyAcceptedTradeUnlessMixed' /\ KeysForPositions'
    BY <1>1, <1>2, <1>3, <1>4, IdleFacts
    DEF IInv, SessionHasKey, OnlyAcceptedTradeUnlessMixed, KeysForPositions, BootAlone, Keyless,
        Workers
  <1>d. BootAlone'
    BY <1>1, <1>2, <1>3, <1>4, IdleFacts DEF IInv, BootAlone, Workers
  <1>e. Keyless' /\ Registered' /\ SignupAlone'
    BY <1>1, <1>2, <1>3, <1>4, IdleFacts, KeyAssumption
    DEF IInv, Shaped, Keyless, Registered, SignupAlone
  <1>f. Solo' /\ Sourced' /\ Mingling'
    <2>1. Solo'
      BY <1>1, <1>2, <1>3, <1>4, IdleFacts DEF IInv, SignupAlone, Solo, Busy, Task
    <2>2. Sourced'
      BY <1>1, <1>2, <1>3, <1>4, IdleFacts DEF IInv, SignupAlone, Solo, Sourced, Busy, Task
    <2>3. Mingling'
      BY <1>1, <1>2, <1>3, <1>4, IdleFacts DEF IInv, Mingling, Task
    <2> QED  BY <2>1, <2>2, <2>3
  <1>g. Carried'
    BY <1>1, <1>2, <1>3, <1>4, CarriedAtStart
  <1> QED  BY <1>a, <1>b, <1>c, <1>d, <1>e, <1>f, <1>g DEF IInv

LEMMA LogoutStep ==
  ASSUME IInv, NEW b \in Browsers, Logout(b)
  PROVE  IInv'
  <1>1. /\ task \in [Workers -> Task] /\ session \in Session /\ b \in Workers
        /\ task[b] = Idle /\ task[Boot] = Idle /\ Boot \in Workers /\ b # Boot
    BY TypeParts, KeyAssumption DEF IInv, Logout, Ready, SignedIn, Workers
  <1>2. /\ signed' = signed \ {b}
        /\ UNCHANGED <<registered, stored, automated, session, window, position, entering, late,
                       answered, mixed, overlap, broken, locked, crashes>>
    BY DEF Logout, strategy, ghosts
  <1>3. /\ session.enabled => session.verified /\ session.key # NoKey
        /\ stored # NoKey
    BY TypeParts DEF IInv, Logout, SignedIn, Keyless
  <1>4. /\ task' \in [Workers -> Task] /\ task'[b] = Dropping
        /\ \A v \in Workers \ {b} : task'[v] = task[v]
    <2>1. Dropping \in Task
      BY DEF Dropping, Idle, Task, Kinds
    <2>2. task' = [task EXCEPT ![b] = Dropping]
      BY DEF Logout, Dropping
    <2> QED  BY <1>1, <2>1, <2>2
  <1>a. TypeOK'
    BY <1>1, <1>2, <1>3, <1>4 DEF IInv, TypeOK, Task, Session
  <1>b. Shaped'
    BY <1>1, <1>4, IdleFacts DEF IInv, Shaped
  <1>c. SessionHasKey' /\ OnlyAcceptedTradeUnlessMixed' /\ KeysForPositions'
    BY <1>1, <1>2, <1>3, <1>4, IdleFacts
    DEF IInv, SessionHasKey, OnlyAcceptedTradeUnlessMixed, KeysForPositions, BootAlone, Keyless,
        Workers
  <1>d. BootAlone'
    BY <1>1, <1>2, <1>3, <1>4, IdleFacts DEF IInv, BootAlone, Workers
  <1>e. Keyless' /\ Registered' /\ SignupAlone'
    BY <1>1, <1>2, <1>3, <1>4, IdleFacts, KeyAssumption
    DEF IInv, Shaped, Keyless, Registered, SignupAlone
  <1>f. Solo' /\ Sourced' /\ Mingling'
    <2>1. Solo'
      BY <1>1, <1>2, <1>3, <1>4, IdleFacts DEF IInv, SignupAlone, Solo, Busy, Task
    <2>2. Sourced'
      BY <1>1, <1>2, <1>3, <1>4, IdleFacts DEF IInv, SignupAlone, Solo, Sourced, Busy, Task
    <2>3. Mingling'
      BY <1>1, <1>2, <1>3, <1>4, IdleFacts DEF IInv, Mingling, Task
    <2> QED  BY <2>1, <2>2, <2>3
  <1>g. Carried'
    BY <1>1, <1>2, <1>3, <1>4, IdleFacts DEF IInv, Carried, Busy
  <1> QED  BY <1>a, <1>b, <1>c, <1>d, <1>e, <1>f, <1>g DEF IInv

LEMMA DisconnectStep ==
  ASSUME IInv, NEW b \in Browsers, DisconnectOrderSession(b)
  PROVE  IInv'
  <1>1. /\ task \in [Workers -> Task] /\ session \in Session /\ task[Boot] = Idle /\ Boot \in Workers
    BY TypeParts, KeyAssumption DEF IInv, DisconnectOrderSession, Ready, SignedIn, Workers
  <1>2. /\ session' \in {session, NoSession} /\ (position => session' = session)
        /\ UNCHANGED <<task, registered, stored, signed, automated, window, position, entering,
                       late, answered, mixed, overlap, broken, locked, crashes>>
    BY DEF DisconnectOrderSession, Drops, rows, strategy, ghosts
  <1>3. task' \in [Workers -> Task]
    BY <1>1, <1>2
  <1>4. /\ session' \in Session
        /\ session'.enabled => session'.verified /\ session'.key # NoKey /\ session' = session
    BY <1>1, <1>2, TypeParts, IdleFacts DEF IInv, Session, NoSession
  <1>a. TypeOK'
    BY <1>1, <1>2, <1>3, <1>4 DEF IInv, TypeOK, Task, Session
  <1>b. Shaped'
    BY <1>2, IdleFacts DEF IInv, Shaped
  <1>c. SessionHasKey' /\ OnlyAcceptedTradeUnlessMixed' /\ KeysForPositions'
    BY <1>1, <1>2, <1>3, <1>4, IdleFacts
    DEF IInv, SessionHasKey, OnlyAcceptedTradeUnlessMixed, KeysForPositions, BootAlone, Keyless,
        Workers
  <1>d. BootAlone'
    BY <1>1, <1>2, <1>3, <1>4, IdleFacts DEF IInv, BootAlone, Workers
  <1>e. Keyless' /\ Registered' /\ SignupAlone'
    BY <1>1, <1>2, <1>3, <1>4, IdleFacts, KeyAssumption
    DEF IInv, Shaped, Keyless, Registered, SignupAlone
  <1>f. Solo' /\ Sourced' /\ Mingling'
    <2>1. Solo'
      BY <1>1, <1>2, <1>3, <1>4, IdleFacts DEF IInv, SignupAlone, Solo, Busy, Task
    <2>2. Sourced'
      BY <1>1, <1>2, <1>3, <1>4, IdleFacts DEF IInv, SignupAlone, Solo, Sourced, Busy, Task
    <2>3. Mingling'
      BY <1>1, <1>2, <1>3, <1>4, IdleFacts DEF IInv, Mingling, Task
    <2> QED  BY <2>1, <2>2, <2>3
  <1>g. Carried'
    BY <1>1, <1>2, <1>3, <1>4, IdleFacts DEF IInv, Carried, Busy
  <1> QED  BY <1>a, <1>b, <1>c, <1>d, <1>e, <1>f, <1>g DEF IInv

LEMMA AutomateStep ==
  ASSUME IInv, NEW b \in Browsers, NEW on \in BOOLEAN, Automate(b, on)
  PROVE  IInv'
  <1>1. UNCHANGED <<task, session, stored, registered, overlap, broken, locked, answered, mixed,
                    signed, position, entering, late, crashes>>
    BY DEF Automate, ghosts
  <1>2. stored # NoKey /\ window' \in BOOLEAN /\ automated' \in BOOLEAN
    BY DEF IInv, Automate, SignedIn, Keyless
  <1>3. TypeOK'
    BY <1>1, <1>2 DEF IInv, TypeOK
  <1>4. Keyless' /\ KeysForPositions'
    BY <1>1, <1>2 DEF IInv, Keyless, KeysForPositions
  <1> QED  BY <1>1, <1>3, <1>4, Untouched DEF IInv

\* After a restart only the restore runs,
LEMMA RestartStep ==
  ASSUME IInv, Restart
  PROVE  IInv'
  <1> DEFINE restoring == [Idle EXCEPT !.pc = "restore"]
  <1>1. restoring \in Task /\ Idle \in Task
    BY DEF Idle, Task, Kinds
  <1>2. /\ restoring.pc = "restore" /\ restoring.kind = "none" /\ restoring.mingled = FALSE
    BY DEF Idle
  <1>3. task' = [w \in Workers |-> IF w = Boot THEN restoring ELSE Idle]
    BY DEF Restart
  <1> HIDE DEF restoring
  <1>4. /\ task' \in [Workers -> Task] /\ Boot \in Workers /\ task'[Boot] = restoring
        /\ \A v \in Workers \ {Boot} : task'[v] = Idle
    BY <1>1, <1>3 DEF Workers
  <1>5. /\ session' = NoSession /\ mixed' = FALSE /\ overlap' = FALSE
        /\ window' = FALSE /\ entering' = FALSE /\ late' = FALSE /\ crashes' \in 0 .. MaxCrashes
        /\ broken' = FALSE /\ locked' = FALSE
        /\ UNCHANGED <<registered, stored, signed, automated, position, answered>>
    BY KeyAssumption DEF Restart, rows, IInv, TypeOK
  <1>6. session' \in Session /\ session'.enabled = FALSE
    BY <1>5, IdleFacts DEF NoSession, Session
  <1>a. TypeOK'
    BY <1>2, <1>4, <1>5, <1>6 DEF IInv, TypeOK, Task, Session
  <1>b. Shaped'
    BY <1>2, <1>4, IdleFacts DEF IInv, Shaped
  <1>c. SessionHasKey' /\ OnlyAcceptedTradeUnlessMixed' /\ KeysForPositions'
    BY <1>2, <1>4, <1>5, <1>6, IdleFacts
    DEF IInv, SessionHasKey, OnlyAcceptedTradeUnlessMixed, KeysForPositions, BootAlone, Keyless,
        Workers
  <1>d. BootAlone'
    BY <1>2, <1>4, <1>5, <1>6, IdleFacts, KeyAssumption DEF IInv, BootAlone, Workers
  <1>e. Keyless' /\ Registered' /\ SignupAlone'
    BY <1>2, <1>4, <1>5, <1>6, IdleFacts, KeyAssumption
    DEF IInv, Shaped, Keyless, Registered, SignupAlone
  <1>f. Solo' /\ Sourced' /\ Mingling'
    <2>1. Solo'
      BY <1>2, <1>4, <1>5, <1>6, IdleFacts DEF IInv, SignupAlone, Solo, Busy, Task
    <2>2. Sourced'
      BY <1>2, <1>4, <1>5, <1>6, IdleFacts DEF IInv, SignupAlone, Solo, Sourced, Busy, Task
    <2>3. Mingling'
      BY <1>2, <1>4, <1>5, <1>6, IdleFacts DEF IInv, Mingling, Task
    <2> QED  BY <2>1, <2>2, <2>3
  <1>g. Carried'
    BY <1>2, <1>4, <1>5, <1>6, IdleFacts DEF Carried
  <1> QED  BY <1>a, <1>b, <1>c, <1>d, <1>e, <1>f, <1>g DEF IInv

\* and a position left open brings its keys back.
LEMMA RestoreStep ==
  ASSUME IInv, Restore
  PROVE  IInv'
  <1> DEFINE booting == [Idle EXCEPT !.pc = "connect", !.kind = "boot", !.key = stored]
  <1>1. /\ task \in [Workers -> Task] /\ session \in Session /\ task[Boot].pc = "restore" /\ Boot \in Workers
        /\ \A v \in Workers \ {Boot} : task[v] = Idle
    BY TypeParts, IdleFacts DEF IInv, Restore, BootAlone, Workers
  <1>2. Idle \in Task /\ booting \in Task
    BY DEF Idle, Task, Kinds, IInv, TypeOK
  <1>3. booting.pc = "connect" /\ booting.kind = "boot" /\ booting.key = stored /\ booting.mingled = FALSE
    BY DEF Idle
  <1>4. task' = [task EXCEPT ![Boot] = IF stored # NoKey /\ (automated \/ position) THEN booting ELSE Idle]
    BY DEF Restore
  <1> HIDE DEF booting
  <1>5. /\ window' = automated /\ automated \in BOOLEAN
        /\ UNCHANGED <<registered, stored, signed, automated, session, position, entering, late,
                       answered, mixed, overlap, broken, locked, crashes>>
    BY DEF Restore, rows, ghosts, IInv, TypeOK
  <1>6. session.enabled => session.verified /\ session.key # NoKey
    BY TypeParts DEF IInv
  <1>7. CASE stored # NoKey /\ (automated \/ position)
    <2>1. /\ task' \in [Workers -> Task] /\ task'[Boot] = booting
          /\ \A v \in Workers \ {Boot} : task'[v] = task[v]
      BY <1>1, <1>2, <1>4, <1>7
    <2>2. stored \in Keys
      BY <1>7 DEF IInv, TypeOK
    <2>a. TypeOK'
      BY <1>1, <1>3, <1>5, <1>6, <1>7, <2>1, <2>2 DEF IInv, TypeOK, Task, Session
    <2>b. Shaped'
      BY <1>1, <1>3, <2>1, <2>2, IdleFacts DEF IInv, Shaped
    <2>c. SessionHasKey' /\ OnlyAcceptedTradeUnlessMixed' /\ KeysForPositions'
      BY <1>1, <1>3, <1>5, <1>6, <1>7, <2>1, <2>2, IdleFacts
      DEF IInv, SessionHasKey, OnlyAcceptedTradeUnlessMixed, KeysForPositions, BootAlone, Keyless,
          Workers
    <2>d. BootAlone'
      BY <1>1, <1>3, <1>5, <1>6, <1>7, <2>1, <2>2, IdleFacts DEF IInv, BootAlone, Workers
    <2>e. Keyless' /\ Registered' /\ SignupAlone'
      BY <1>1, <1>3, <1>5, <1>6, <1>7, <2>1, <2>2, IdleFacts, KeyAssumption
      DEF IInv, Shaped, Keyless, Registered, SignupAlone
    <2>f. Solo' /\ Sourced' /\ Mingling'
      <3>1. Solo'
        BY <1>1, <1>3, <1>5, <1>6, <1>7, <2>1, <2>2, IdleFacts
           DEF IInv, SignupAlone, Solo, Busy, Task
      <3>2. Sourced'
        BY <1>1, <1>3, <1>5, <1>6, <1>7, <2>1, <2>2, IdleFacts
           DEF IInv, SignupAlone, Solo, Sourced, Busy, Task
      <3>3. Mingling'
        BY <1>1, <1>3, <1>5, <1>6, <1>7, <2>1, <2>2, IdleFacts DEF IInv, Mingling, Task
      <3> QED  BY <3>1, <3>2, <3>3
    <2>g. Carried'
      BY <1>1, <1>3, <1>5, <1>6, <1>7, <2>1, <2>2, IdleFacts DEF IInv, Carried, Busy
    <2> QED  BY <2>a, <2>b, <2>c, <2>d, <2>e, <2>f, <2>g DEF IInv
  <1>8. CASE ~(stored # NoKey /\ (automated \/ position))
    <2>1. /\ task' \in [Workers -> Task] /\ task'[Boot] = Idle
          /\ \A v \in Workers \ {Boot} : task'[v] = task[v]
      BY <1>1, <1>2, <1>4, <1>8
    <2>2. ~position
      BY <1>8 DEF IInv, Keyless
    <2>a. TypeOK'
      BY <1>1, <1>3, <1>5, <1>6, <1>8, <2>1, <2>2 DEF IInv, TypeOK, Task, Session
    <2>b. Shaped'
      BY <1>1, <1>3, <2>1, IdleFacts DEF IInv, Shaped
    <2>c. SessionHasKey' /\ OnlyAcceptedTradeUnlessMixed' /\ KeysForPositions'
      BY <1>1, <1>3, <1>5, <1>6, <1>8, <2>1, <2>2, IdleFacts
      DEF IInv, SessionHasKey, OnlyAcceptedTradeUnlessMixed, KeysForPositions, BootAlone, Keyless,
          Workers
    <2>d. BootAlone'
      BY <1>1, <1>3, <1>5, <1>6, <1>8, <2>1, <2>2, IdleFacts DEF IInv, BootAlone, Workers
    <2>e. Keyless' /\ Registered' /\ SignupAlone'
      BY <1>1, <1>3, <1>5, <1>6, <1>8, <2>1, <2>2, IdleFacts, KeyAssumption
      DEF IInv, Shaped, Keyless, Registered, SignupAlone
    <2>f. Solo' /\ Sourced' /\ Mingling'
      <3>1. Solo'
        BY <1>1, <1>3, <1>5, <1>6, <1>8, <2>1, <2>2, IdleFacts
           DEF IInv, SignupAlone, Solo, Busy, Task
      <3>2. Sourced'
        BY <1>1, <1>3, <1>5, <1>6, <1>8, <2>1, <2>2, IdleFacts
           DEF IInv, SignupAlone, Solo, Sourced, Busy, Task
      <3>3. Mingling'
        BY <1>1, <1>3, <1>5, <1>6, <1>8, <2>1, <2>2, IdleFacts DEF IInv, Mingling, Task
      <3> QED  BY <3>1, <3>2, <3>3
    <2>g. Carried'
      BY <1>1, <1>3, <1>5, <1>6, <1>8, <2>1, <2>2, IdleFacts DEF IInv, Carried, Busy
    <2> QED  BY <2>a, <2>b, <2>c, <2>d, <2>e, <2>f, <2>g DEF IInv
  <1> QED  BY <1>7, <1>8

\* Startup may not bring the keys back, which locked records.
LEMMA RestoreFailsStep ==
  ASSUME IInv, RestoreFails
  PROVE  IInv'
  <1>1. /\ task \in [Workers -> Task] /\ session \in Session /\ task[Boot].pc = "restore" /\ Boot \in Workers
        /\ \A v \in Workers \ {Boot} : task[v] = Idle
    BY TypeParts, IdleFacts DEF IInv, RestoreFails, BootAlone, Workers
  <1>2. /\ window' \in {automated, FALSE} /\ automated \in BOOLEAN /\ locked' = TRUE
        /\ UNCHANGED <<registered, stored, signed, automated, session, position, entering, late,
                       answered, mixed, overlap, broken, crashes>>
    BY DEF RestoreFails, rows, IInv, TypeOK
  <1>3. /\ task' \in [Workers -> Task] /\ task'[Boot] = Idle
        /\ \A v \in Workers \ {Boot} : task'[v] = task[v]
    BY <1>1, EndsTask DEF RestoreFails
  <1>4. session.enabled => session.verified /\ session.key # NoKey
    BY TypeParts DEF IInv
  <1>a. TypeOK'
    <2>1. window' \in BOOLEAN /\ locked' \in BOOLEAN /\ session' \in Session
      BY <1>1, <1>2
    <2> QED  BY <1>2, <1>3, <1>4, <2>1 DEF IInv, TypeOK, Task, Session
  <1>b. Shaped'
    BY <1>1, <1>3, IdleFacts DEF IInv, Shaped
  <1>c. SessionHasKey' /\ OnlyAcceptedTradeUnlessMixed' /\ KeysForPositions'
    BY <1>2 DEF IInv, SessionHasKey, OnlyAcceptedTradeUnlessMixed, KeysForPositions
  <1>d. BootAlone'
    BY <1>1, <1>3, IdleFacts DEF BootAlone
  <1>e. Keyless' /\ Registered' /\ SignupAlone'
    <2>1. \A w \in Workers : task'[w] = Idle
      BY <1>3, <1>1
    <2>2. Keyless'
      BY <1>2, <2>1, IdleFacts DEF IInv, Keyless
    <2>3. SignupAlone'
      BY <2>1, IdleFacts DEF SignupAlone
    <2> QED  BY <1>2, <2>2, <2>3 DEF IInv, Registered
  <1>f. Solo' /\ Sourced' /\ Mingling'
    BY <1>1, <1>2, <1>3, IdleFacts DEF IInv, Solo, Sourced, Mingling, Busy
  <1>g. Carried'
    <2>1. ~(~overlap /\ ~broken /\ session # NoSession)
      BY <1>1 DEF IInv, Carried
    <2> QED  BY <1>2, <2>1 DEF Carried
  <1> QED  BY <1>a, <1>b, <1>c, <1>d, <1>e, <1>f, <1>g DEF IInv

-------------------------------------------------------------------------------
(* The invariant and the theorems *)

LEMMA NextIInv == IInv /\ [Next]_vars => IInv'
  <1> SUFFICES ASSUME IInv, [Next]_vars PROVE IInv'
    OBVIOUS
  <1>1. ASSUME NEW b \in Browsers, Request(b) PROVE IInv'
    BY <1>1, SignupStep, UpdateStep, ConnectOrderSessionStep, ReconnectStep, LogoutStep,
           DisconnectStep, AutomateStep
    DEF Request
  <1>2. ASSUME NEW w \in Workers, Step(w) PROVE IInv'
    BY <1>2, ConnectStep, AcceptedStep, UndoStep, SignupRefusedStep, UnacceptedStep, PersistStep,
       PersistFailsStep, RaisesStep,
       TokenStep, DeleteStep, DropStep DEF Step
  <1>3. CASE UNCHANGED vars
    <2>1. UNCHANGED <<task, session, stored, registered, overlap, broken, locked, answered,
                      mixed, signed, automated, window, position, entering, late, crashes>>
      BY <1>3 DEF vars, rows, strategy, ghosts
    <2>2. TypeOK'
      BY <2>1 DEF IInv, TypeOK
    <2>3. Keyless' /\ KeysForPositions'
      BY <2>1 DEF IInv, Keyless, KeysForPositions
    <2> QED  BY <2>1, <2>2, <2>3, Untouched DEF IInv
  <1> QED  BY <1>1, <1>2, <1>3, StrategyStep, RestartStep, RestoreStep, RestoreFailsStep DEF Next

\* Every state the sessions reach satisfies the inductive invariant.
LEMMA Inductive == Spec => []IInv
  BY InitIInv, NextIInv, PTL DEF Spec

\* Every variable keeps its type; in particular a session that may trade was
\* verified and has a key.
THEOREM Types == Spec => []TypeOK
  <1>1. IInv => TypeOK  BY DEF IInv
  <1> QED  BY <1>1, Inductive, PTL

\* No session trades with keys Binance never accepted, unless the acceptance of
\* other keys met it (connect_user_credentials marks whatever session is there).
THEOREM OnlyAccepted == Spec => []OnlyAcceptedTradeUnlessMixed
  <1>1. IInv => OnlyAcceptedTradeUnlessMixed  BY DEF IInv
  <1> QED  BY <1>1, Inductive, PTL

\* At rest the live keys are the stored ones, through any number of refused and
\* accepted updates, sign-ins and restarts, unless requests connected the account
\* side by side or an exception ended a sign-up or an update.
THEOREM LiveKeysAreStored == Spec => []LiveIsStored
  <1>1. IInv => LiveIsStored
    BY IdleFacts DEF IInv, Carried, LiveIsStored, AtRest, Busy
  <1> QED  BY <1>1, Inductive, PTL

\* An open position has keys to close it, or they are being restored, unless its
\* entry executed after the session had gone or startup could not restore them.
THEOREM KeysForOpenPositions == Spec => []KeysForPositions
  <1>1. IInv => KeysForPositions  BY DEF IInv
  <1> QED  BY <1>1, Inductive, PTL
===============================================================================
