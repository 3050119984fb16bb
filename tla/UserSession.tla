------------------------------ MODULE UserSession ------------------------------
(***************************************************************************)
(* One account's credentials: the rows that keep them (users,              *)
(* user_credentials, sessions, user_strategy_symbols; db_handler.py), the  *)
(* decrypted copy OrderService trades with (_user_sessions, _UserSession)  *)
(* and the requests that move keys between them (api/auth_routes.py and    *)
(* the order-session routes of api/routes.py).                             *)
(*                                                                         *)
(* A browser runs one request at a time; Boot is the restore at startup,   *)
(* which ends before the first request.  A step goes from await to await.  *)
(***************************************************************************)
EXTENDS Integers, FiniteSets

CONSTANTS Browsers, Boot,
          Keys,      \* API keys the user may submit
          Trading,   \* those that may trade
          Reading,   \* those Binance knows but that may not trade
          MaxCrashes, \* bound on restarts
          NoKey

ASSUME KeyAssumption ==
    /\ MaxCrashes \in Nat /\ NoKey \notin Keys /\ Boot \notin Browsers
    /\ Trading \subseteq Keys /\ Reading \subseteq Keys \ Trading

VARIABLES registered,  \* the users row
          stored,      \* user_credentials
          signed,      \* browsers whose token is in sessions
          automated,   \* an unexpired user_strategy_symbols row
          window,      \* _strategy_symbols
          session,     \* _user_sessions
          position,    \* an open position, in memory and in user_positions
          entering,    \* a strategy entry whose order is on its way
          task,
          answered,    \* keys Binance said may trade
          mixed,       \* the session was verified by the answer for another key
          overlap,     \* the session's connection mingled with another request
          late,        \* the position opened when its session was gone
          broken,      \* an exception left the session with keys not stored
          locked,      \* startup could not bring the keys back
          crashes

rows == <<registered, stored, signed, automated>>
strategy == <<window, position, entering, late>>
ghosts == <<answered, mixed, overlap, broken, locked, crashes>>
vars == <<rows, strategy, session, task, ghosts>>

Workers == Browsers \cup {Boot}
NoSession == [key |-> NoKey, verified |-> FALSE, enabled |-> FALSE]
Idle == [pc |-> "idle", kind |-> "none", key |-> NoKey, previous |-> NoKey, mingled |-> FALSE]
Kinds == {"none", "signup", "login", "me", "verify", "update", "undo", "connect", "boot", "logout"}

TypeOK ==
    /\ registered \in BOOLEAN /\ stored \in Keys \cup {NoKey} /\ signed \subseteq Browsers
    /\ automated \in BOOLEAN /\ window \in BOOLEAN /\ position \in BOOLEAN
    /\ entering \in BOOLEAN /\ late \in BOOLEAN
    /\ session \in [key : Keys \cup {NoKey}, verified : BOOLEAN, enabled : BOOLEAN]
    /\ session.enabled => session.verified /\ session.key # NoKey
    /\ task \in [Workers -> [pc : {"idle", "connect", "verify", "persist", "token", "drop",
                                   "delete", "restore"},
                             kind : Kinds, key : Keys \cup {NoKey}, previous : Keys \cup {NoKey},
                             mingled : BOOLEAN]]
    /\ answered \subseteq Keys /\ mixed \in BOOLEAN /\ overlap \in BOOLEAN
    /\ broken \in BOOLEAN /\ locked \in BOOLEAN
    /\ crashes \in 0 .. MaxCrashes

Alone(w) == \A v \in Workers \ {w} : task[v] = Idle
Ready(w) == task[w] = Idle /\ task[Boot] = Idle
SignedIn(b) == Ready(b) /\ b \in signed

\* A request starts that will connect keys; those that run mingle with it.
Starts(w, kind, key) ==
    /\ task' = [v \in Workers |->
                  IF v = w THEN [pc |-> "connect", kind |-> kind, key |-> key,
                                 previous |-> stored, mingled |-> ~Alone(w)]
                  ELSE IF task[v] = Idle THEN Idle ELSE [task[v] EXCEPT !.mingled = TRUE]]
    /\ overlap' = (overlap \/ ~Alone(w))
    /\ UNCHANGED <<answered, mixed, broken, locked, crashes>>

Goes(w, pc) == task' = [task EXCEPT ![w].pc = pc]
Ends(w) == task' = [task EXCEPT ![w] = Idle]

-------------------------------------------------------------------------------
(* Requests                                                                   *)

Signup(b, key) ==
    /\ Ready(b) /\ ~registered /\ registered' = TRUE
    /\ Starts(b, "signup", key)
    /\ UNCHANGED <<stored, signed, automated, strategy, session>>

\* What reads the stored keys to connect with them: a sign-in, GET /auth/me when
\* no session is in memory, and POST /auth/verify-binance.
Reconnect(b, kind) ==
    /\ registered /\ stored # NoKey
    /\ \/ kind = "login" /\ Ready(b)
       \/ kind = "me" /\ SignedIn(b) /\ session = NoSession
       \/ kind = "verify" /\ SignedIn(b)
    /\ Starts(b, kind, stored)
    /\ UNCHANGED <<rows, strategy, session>>

\* PUT /auth/credentials stores the new keys after they are verified ...
Update(b, key) ==
    /\ SignedIn(b) /\ Starts(b, "update", key)
    /\ UNCHANGED <<rows, strategy, session>>

\* ... and POST /order-session before.
ConnectOrderSession(b, key) ==
    /\ SignedIn(b) /\ stored' = key
    /\ Starts(b, "connect", key)
    /\ UNCHANGED <<registered, signed, automated, strategy, session>>

\* Mutation: open positions do not keep a session.
DropsForgetful == IF window THEN session ELSE NoSession

\* deactivate_user_session.
Drops == IF window \/ position THEN session ELSE NoSession

Logout(b) ==
    /\ SignedIn(b) /\ signed' = signed \ {b}
    /\ task' = [task EXCEPT ![b] = [Idle EXCEPT !.pc = "drop", !.kind = "logout"]]
    /\ UNCHANGED <<registered, stored, automated, strategy, session, ghosts>>

Drop(b) ==
    /\ task[b].pc = "drop" /\ session' = Drops /\ Ends(b)
    /\ UNCHANGED <<rows, strategy, ghosts>>

\* DELETE /order-session.
DisconnectOrderSession(b) ==
    /\ SignedIn(b) /\ session' = Drops
    /\ UNCHANGED <<rows, strategy, task, ghosts>>

Automate(b, on) ==
    /\ SignedIn(b) /\ window' = on /\ automated' = on
    /\ UNCHANGED <<registered, stored, signed, position, entering, late, session, task, ghosts>>

-------------------------------------------------------------------------------
(* connect_user_credentials and what the requests do around it                *)

\* Mutation: the flags of the session before are kept.
FreshVerified(key) == [session EXCEPT !.key = key]

Fresh(key) == [key |-> key, verified |-> FALSE, enabled |-> FALSE]

\* The request's keys replace whatever session there was.
Replaces(w, key) ==
    /\ session' = Fresh(key)
    /\ mixed' = FALSE /\ broken' = FALSE /\ locked' = FALSE /\ overlap' = task[w].mingled

Connect(w) ==
    /\ task[w].pc = "connect" /\ Replaces(w, task[w].key) /\ Goes(w, "verify")
    /\ UNCHANGED <<rows, strategy, answered, crashes>>

\* Mutation: only what may trade is marked, and not as verified.
VerifiedLate(canTrade) == [session EXCEPT !.enabled = canTrade]

\* Whatever session is there when the answer comes is marked with it.
Verified(canTrade) == [session EXCEPT !.verified = TRUE, !.enabled = canTrade]

\* Binance says the key may trade.
Accepted(w) ==
    /\ task[w].pc = "verify" /\ task[w].key \in Trading /\ session # NoSession
    /\ session' = Verified(TRUE)
    /\ answered' = answered \cup {task[w].key}
    /\ mixed' = (session.key # task[w].key)
    /\ CASE task[w].kind \in {"signup", "update"} -> Goes(w, "persist")
         [] task[w].kind = "login" -> Goes(w, "token")
         [] OTHER -> Ends(w)
    /\ UNCHANGED <<rows, strategy, overlap, broken, locked, crashes>>

\* The session as it is when Binance refused the key, did not answer, or said it
\* may not trade, or when the session was removed meanwhile.
Answer(w) ==
    {session} \cup IF task[w].key \in Reading /\ session # NoSession THEN {Verified(FALSE)} ELSE {}

\* Mutation: the replaced keys are not brought back.
UndoNothing(w) ==
    /\ task[w].pc = "verify" /\ task[w].kind = "update" /\ task[w].previous # NoKey
    /\ session' = session /\ mixed' = FALSE /\ overlap' = task[w].mingled /\ Ends(w)
    /\ UNCHANGED <<rows, strategy, answered, broken, locked, crashes>>

\* An update that was not accepted connects the keys stored when it began.
Undo(w) ==
    /\ task[w].pc = "verify" /\ task[w].kind = "update" /\ task[w].previous # NoKey
    /\ Replaces(w, task[w].previous)
    /\ task' = [task EXCEPT ![w].kind = "undo", ![w].key = task[w].previous]
    /\ UNCHANGED <<rows, strategy, answered, crashes>>

\* A sign-up that was not accepted takes everything back.
SignupRefused(w) ==
    /\ task[w].pc = "verify" /\ task[w].kind = "signup"
    /\ session' = Drops /\ Goes(w, "delete")
    /\ UNCHANGED <<rows, strategy, ghosts>>

\* Anything but a BinanceOrderError ends the request where it is: a body that is
\* no JSON, an error of the database, stored keys that cannot be decrypted when an
\* update is to be undone.  The new session stays, unverified; a sign-up keeps its
\* user.  The restore logs it and goes on.
Raises(w) ==
    /\ task[w].pc \in {"verify", "token", "delete"} /\ Ends(w)
    /\ session' \in IF task[w].kind = "update" THEN Answer(w) ELSE {session}
    /\ broken' = (broken \/ (task[w].pc = "verify" /\ task[w].kind \in {"signup", "update"}))
    /\ UNCHANGED <<rows, strategy, answered, mixed, overlap, locked, crashes>>

\* A sign-in goes on; for the others the answer was all.
Unaccepted(w) ==
    /\ task[w].pc = "verify" /\ task[w].kind \notin {"signup", "update"}
    /\ session' \in Answer(w)
    /\ IF task[w].kind = "login" THEN Goes(w, "token") ELSE Ends(w)
    /\ UNCHANGED <<rows, strategy, ghosts>>

Persist(w) ==
    /\ task[w].pc = "persist" /\ stored' = task[w].key
    /\ IF task[w].kind = "signup" THEN Goes(w, "token") ELSE Ends(w)
    /\ UNCHANGED <<registered, signed, automated, strategy, session, ghosts>>

\* The write raises: the request ends in an error with the session connected.
PersistFails(w) ==
    /\ task[w].pc = "persist" /\ Ends(w)
    /\ broken' = TRUE
    /\ UNCHANGED <<rows, strategy, session, answered, mixed, overlap, locked, crashes>>

Token(w) ==
    /\ task[w].pc = "token" /\ signed' = signed \cup {w} /\ Ends(w)
    /\ UNCHANGED <<registered, stored, automated, strategy, session, ghosts>>

\* delete_user, with all that refers to the row.
Delete(w) ==
    /\ task[w].pc = "delete" /\ Ends(w)
    /\ registered' = FALSE /\ stored' = NoKey /\ signed' = {} /\ automated' = FALSE
    /\ UNCHANGED <<strategy, session, ghosts>>

-------------------------------------------------------------------------------
(* The strategy, time and restarts                                            *)

Enter ==
    /\ window /\ session.enabled /\ ~entering /\ ~position /\ entering' = TRUE
    /\ UNCHANGED <<rows, window, position, late, session, task, ghosts>>

Entered(executes) ==
    /\ entering /\ entering' = FALSE /\ position' = executes
    /\ late' = (executes /\ session = NoSession)
    /\ UNCHANGED <<rows, window, session, task, ghosts>>

Exited ==
    /\ position /\ session.enabled /\ position' = FALSE /\ late' = FALSE
    /\ UNCHANGED <<rows, window, entering, session, task, ghosts>>

\* The automation window runs out.
Expire ==
    /\ automated /\ automated' = FALSE /\ window' = FALSE
    /\ UNCHANGED <<registered, stored, signed, position, entering, late, session, task, ghosts>>

\* A browser's token runs out; its row is no longer looked at.
TokenExpires(b) ==
    /\ b \in signed /\ signed' = signed \ {b}
    /\ UNCHANGED <<registered, stored, automated, strategy, session, task, ghosts>>

Restart ==
    /\ crashes < MaxCrashes /\ crashes' = crashes + 1
    /\ session' = NoSession /\ window' = FALSE /\ entering' = FALSE /\ late' = FALSE
    /\ task' = [w \in Workers |-> IF w = Boot THEN [Idle EXCEPT !.pc = "restore"] ELSE Idle]
    /\ mixed' = FALSE /\ overlap' = FALSE /\ broken' = FALSE /\ locked' = FALSE
    /\ UNCHANGED <<rows, position, answered>>

\* Mutation: only automated users are restored.
RestoreAutomated ==
    /\ task[Boot].pc = "restore" /\ window' = automated
    /\ task' = [task EXCEPT ![Boot] = IF stored # NoKey /\ automated
                                      THEN [Idle EXCEPT !.pc = "connect", !.kind = "boot", !.key = stored]
                                      ELSE Idle]
    /\ UNCHANGED <<rows, position, entering, late, session, ghosts>>

\* restore_automated_users and _restore_open_position_users.
Restore ==
    /\ task[Boot].pc = "restore" /\ window' = automated
    /\ task' = [task EXCEPT ![Boot] = IF stored # NoKey /\ (automated \/ position)
                                      THEN [Idle EXCEPT !.pc = "connect", !.kind = "boot", !.key = stored]
                                      ELSE Idle]
    /\ UNCHANGED <<rows, position, entering, late, session, ghosts>>

\* The stored keys cannot be decrypted, which is logged; or market data are
\* disabled, and the lifespan restores nobody.
RestoreFails ==
    /\ task[Boot].pc = "restore" /\ Ends(Boot)
    /\ window' \in {automated, FALSE} /\ locked' = TRUE
    /\ UNCHANGED <<rows, position, entering, late, session, answered, mixed, overlap, broken,
                   crashes>>

-------------------------------------------------------------------------------

Init ==
    /\ registered = FALSE /\ stored = NoKey /\ signed = {} /\ automated = FALSE
    /\ window = FALSE /\ position = FALSE /\ entering = FALSE /\ late = FALSE
    /\ session = NoSession /\ task = [w \in Workers |-> Idle]
    /\ answered = {} /\ mixed = FALSE /\ overlap = FALSE /\ broken = FALSE /\ locked = FALSE
    /\ crashes = 0

Step(w) ==
    \/ Connect(w) \/ Accepted(w) \/ Undo(w) \/ SignupRefused(w) \/ Unaccepted(w)
    \/ Raises(w) \/ Persist(w) \/ PersistFails(w) \/ Token(w) \/ Delete(w) \/ Drop(w)

Request(b) ==
    \/ \E key \in Keys : Signup(b, key) \/ Update(b, key) \/ ConnectOrderSession(b, key)
    \/ \E kind \in {"login", "me", "verify"} : Reconnect(b, kind)
    \/ Logout(b) \/ DisconnectOrderSession(b)
    \/ \E on \in BOOLEAN : Automate(b, on)

Next ==
    \/ \E b \in Browsers : Request(b) \/ TokenExpires(b)
    \/ \E w \in Workers : Step(w)
    \/ Restore \/ RestoreFails
    \/ Enter \/ (\E executes \in BOOLEAN : Entered(executes)) \/ Exited \/ Expire \/ Restart

Spec == Init /\ [][Next]_vars

\* Requests to Binance end, with an answer or a timeout, and writes return.
LiveSpec == Spec /\ WF_vars(Restore \/ RestoreFails) /\ \A w \in Workers : WF_vars(Step(w))

-------------------------------------------------------------------------------
(* Properties *)

AtRest == \A w \in Workers : task[w] = Idle

\* "An account whose keys cannot be verified still logs in but cannot trade until
\* the keys are reconnected" (auth_routes.py): no session trades with a key that
\* was never accepted.
OnlyAcceptedTrade == session.enabled => session.key \in answered

\* What is left of that: the session was marked by the answer to another request,
\* whose key the session no longer had.
OnlyAcceptedTradeUnlessMixed == session.enabled => mixed \/ session.key \in answered

\* "Do not strand the signed-in account with an invalid replacement"
\* (update_credentials, auth_routes.py): nobody signed in is left with a session
\* whose keys are neither verified nor the stored ones.
NotStranded ==
    AtRest /\ signed # {} /\ session # NoSession /\ ~overlap
        => session.verified \/ session.key = stored

\* What is left of that, after any number of updates that Binance refused or
\* accepted: only the exception of a sign-up or an update, or keys that could not
\* be stored, leaves others in the session, and only until the next connection.
LiveIsStored ==
    AtRest /\ session # NoSession /\ ~overlap /\ ~broken => session.key = stored

\* An open position has a session to close it with, from logouts of several
\* browsers to restarts, unless its entry executed after the session had gone, or
\* startup could not bring the keys back and nobody has connected since.
KeysForPositions == position => session # NoSession \/ late \/ locked \/ task[Boot] # Idle

\* After a restart the keys come back, or startup could not decrypt or did not
\* look for them.
KeysReturn == (position /\ ~late) ~> (session # NoSession \/ ~position \/ locked)
===============================================================================
