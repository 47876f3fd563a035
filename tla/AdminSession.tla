---------------------------- MODULE AdminSession ----------------------------
(***************************************************************************)
(* Admin sessions: login behind its failure limiter, authentication of     *)
(* every admin request, logout and the removal of old sessions.            *)
(*                                                                         *)
(*   src/src/admin/auth/admin-session.service.ts                           *)
(*   src/src/admin/auth/admin-login-rate-limiter.ts                        *)
(*   src/src/admin/auth/admin-session.controller.ts                        *)
(*   src/src/admin/auth/admin-session.guard.ts                             *)
(*                                                                         *)
(* A handler reads the clock once, when it is called, and keeps that value *)
(* over its awaits: the hashing of the password and every statement.  The  *)
(* limiter is in memory, the sessions are rows that survive a restart.     *)
(* Tokens are fresh and hashing is injective, so a session is named by the *)
(* number of the login that made it.                                       *)
(***************************************************************************)
EXTENDS Integers, FiniteSets, FiniteSetsExt, Functions

CONSTANTS
    Requests,    \* requests in progress at the same time
    Clients,     \* keys of trustedClientKey
    Passwords,   \* of BOOLEAN: what is sent matches user and verifier, or not
    WINDOW_MS, CLIENT_FAILURE_LIMIT, GLOBAL_FAILURE_LIMIT,
    CLIENT_BLOCK_MS, GLOBAL_BLOCK_MS,
    maximumClients,                     \* 2_000: more are pruned
    idleMs, absoluteMs,
    refreshMs,                          \* 60_000
    MaxTime, MaxLogins, MaxRestarts,    \* bounds
    MaxSessions,
    MaxHash, MaxAge                     \* bounds: how long a password may be
                                        \* hashed, and a request be handled

VARIABLES
    clients,   \* AdminLoginRateLimiter.clients
    global,    \* AdminLoginRateLimiter.global
    rows,      \* admin_sessions: session |-> row
    req,       \* per request: where its handler is and what it holds
    now,
    guesses,   \* per client and start time: the failed logins since the last
               \* success of this client, and of any client
    sessions,  \* per session: when it was made, when a request last found it
               \* valid, when authenticate last returned it
    loggedOut, \* sessions deleted by logout
    logins, restarts

limiterVars == <<clients, global, guesses, logins>>
sessionVars == <<rows, sessions, loggedOut>>
vars == <<limiterVars, sessionVars, req, now, restarts>>

\* The times are in milliseconds and the refresh interval is not zero.
ASSUME ConstantsAssumption ==
    /\ Passwords \subseteq BOOLEAN
    /\ {WINDOW_MS, idleMs, absoluteMs, MaxTime, MaxSessions} \subseteq Nat
    /\ WINDOW_MS <= MaxTime
    /\ refreshMs \in Nat \ {0}

\* A block outlasts the window it was imposed in (15 minutes, or 30 for all
\* clients, after 15), and hashing a password takes less than a window.
ASSUME LimiterAssumption ==
    /\ {CLIENT_FAILURE_LIMIT, GLOBAL_FAILURE_LIMIT} \subseteq Nat \ {0}
    /\ {CLIENT_BLOCK_MS, GLOBAL_BLOCK_MS, MaxHash} \subseteq Nat
    /\ CLIENT_BLOCK_MS >= WINDOW_MS /\ GLOBAL_BLOCK_MS >= WINDOW_MS
    /\ MaxHash < WINDOW_MS
    /\ IsFiniteSet(Requests)

\* The clock starts late enough for the limiter's initial state to be old.
StartTime == WINDOW_MS
Times == StartTime..MaxTime

Idle == [status |-> "idle"]
Enter(r, status) == req' = [req EXCEPT ![r].status = status]
Leave(r) == req' = [req EXCEPT ![r] = Idle]

-----------------------------------------------------------------------------
(* The failure limiter.                                                    *)

emptyState(t) == [failures |-> 0, windowStartedAt |-> t, blockedUntil |-> 0]

\* Mutant: a state is reset although its block is not over.
normalizeBlocked(state, t) ==
    IF state.windowStartedAt + WINDOW_MS <= t THEN emptyState(t) ELSE state

normalize(state, t) ==
    IF state.windowStartedAt + WINDOW_MS <= t /\ state.blockedUntil <= t
    THEN emptyState(t)
    ELSE state

\* Failures above the limit are all alike and not told apart.
increment(state, limit, blockMs, t) ==
    LET failures == Min({state.failures + 1, limit})
    IN  [state EXCEPT
            !.failures = failures,
            !.blockedUntil = IF failures >= limit THEN Max({@, t + blockMs}) ELSE @]

\* this.clients.get(client) ?? emptyState(t)
stateOf(client, t) ==
    IF client \in DOMAIN clients THEN clients[client] ELSE emptyState(t)

\* this.clients.set(client, state)
WithClient(client, state) ==
    [c \in DOMAIN clients \union {client} |->
        IF c = client THEN state ELSE clients[c]]

Expired(state, t) ==
    state.blockedUntil <= t /\ state.windowStartedAt + WINDOW_MS <= t

prune(states, t) ==
    IF Cardinality(DOMAIN states) <= maximumClients THEN states
    ELSE Restrict(states, {c \in DOMAIN states : ~Expired(states[c], t)})

NoGuesses == [t \in Times |-> 0]

Init ==
    /\ clients = << >>
    /\ global = emptyState(0)
    /\ rows = << >>
    /\ req = [r \in Requests |-> Idle]
    /\ now = StartTime
    /\ guesses = [own |-> [c \in Clients |-> NoGuesses], all |-> NoGuesses]
    /\ sessions = << >>
    /\ loggedOut = {}
    /\ logins = 0
    /\ restarts = 0

-----------------------------------------------------------------------------
(* login                                                                   *)

\* assertAllowed lets the request on to the password, or answers 429.
LoginStart(r, client, correct) ==
    LET own == normalize(stateOf(client, now), now)
        all == normalize(global, now)
    IN  /\ req[r] = Idle
        /\ logins < MaxLogins
        /\ logins' = logins + 1
        /\ global' = all
        /\ clients' = WithClient(client, own)
        /\ req' = [req EXCEPT ![r] =
               IF own.blockedUntil > now \/ all.blockedUntil > now
               THEN Idle
               ELSE [status |-> "hashing", client |-> client,
                     correct |-> correct, now |-> now]]
        /\ UNCHANGED <<guesses, sessionVars, now, restarts>>

\* scrypt has answered and the password or the user is wrong: recordFailure,
\* with the time the request started, which may be earlier than the time of
\* the failure that last pruned this client.
LoginFails(r) ==
    /\ req[r].status = "hashing" /\ ~req[r].correct
    /\ LET client == req[r].client
           t == req[r].now
           own == increment(normalize(stateOf(client, t), t),
                            CLIENT_FAILURE_LIMIT, CLIENT_BLOCK_MS, t)
       IN  /\ clients' = prune(WithClient(client, own), t)
           /\ global' = increment(normalize(global, t),
                                  GLOBAL_FAILURE_LIMIT, GLOBAL_BLOCK_MS, t)
           /\ guesses' = [guesses EXCEPT !.own[client][t] = @ + 1,
                                         !.all[t] = @ + 1]
    /\ Leave(r)
    /\ UNCHANGED <<logins, sessionVars, now, restarts>>

\* It is right: recordSuccess, and a token for a new session.
LoginSucceeds(r) ==
    /\ req[r].status = "hashing" /\ req[r].correct
    /\ clients' = Restrict(clients, DOMAIN clients \ {req[r].client})
    /\ global' = emptyState(req[r].now)
    /\ guesses' = [own |-> [guesses.own EXCEPT ![req[r].client] = NoGuesses],
                   all |-> NoGuesses]
    /\ Enter(r, "inserting")
    /\ UNCHANGED <<logins, sessionVars, now, restarts>>

\* The row is inserted and the cookie is set.
LoginInsert(r) ==
    LET session == Cardinality(DOMAIN sessions) + 1
        t == req[r].now
    IN  /\ req[r].status = "inserting"
        /\ session <= MaxSessions
        /\ rows' = [s \in DOMAIN rows \union {session} |->
               IF s = session
               THEN [last_seen_at |-> t, expires_at |-> t + absoluteMs]
               ELSE rows[s]]
        /\ sessions' = [s \in DOMAIN sessions \union {session} |->
               IF s = session
               THEN [made |-> t, valid |-> t, returned |-> t]
               ELSE sessions[s]]
        /\ Leave(r)
        /\ UNCHANGED <<limiterVars, loggedOut, now, restarts>>

-----------------------------------------------------------------------------
(* authenticate, in front of every admin request, and the handlers.        *)

\* A request with a session's cookie: to read or, with a right or a wrong
\* X-CSRF-Token, to log out.  A request without a cookie changes nothing.
RequestStart(r, session, purpose) ==
    /\ req[r] = Idle
    /\ req' = [req EXCEPT ![r] =
           [status |-> "selecting", session |-> session, purpose |-> purpose,
            now |-> now, late |-> session \in loggedOut]]
    /\ UNCHANGED <<limiterVars, sessionVars, now, restarts>>

TooOld(row, t) == row.expires_at <= t \/ row.last_seen_at + idleMs <= t

RefreshDue(row, t) == t - row.last_seen_at >= refreshMs

\* authenticate returns the session.
Return(r) == [sessions EXCEPT ![req[r].session].returned = Max({@, req[r].now})]

\* SELECT: no row (401), a row that is too old, which is deleted next, or a
\* valid row, marked as seen when that is due.  The CSRF hash of the token is
\* the row's: both were derived from it.
Select(r) ==
    LET session == req[r].session
        t == req[r].now
        row == rows[session]
    IN  /\ req[r].status = "selecting"
        /\ IF session \notin DOMAIN rows
           THEN Leave(r) /\ UNCHANGED sessions
           ELSE IF TooOld(row, t)
           THEN Enter(r, "rejecting") /\ UNCHANGED sessions
           ELSE /\ Enter(r, IF RefreshDue(row, t) THEN "updating" ELSE "accepted")
                /\ sessions' = [sessions EXCEPT
                       ![session].valid = Max({@, t}),
                       ![session].returned =
                           IF RefreshDue(row, t) THEN @ ELSE Max({@, t})]
        /\ UNCHANGED <<limiterVars, rows, loggedOut, now, restarts>>

\* Mutant: last_seen_at is set, to whatever it is now.
UpdateBack(r) ==
    LET session == req[r].session
    IN  /\ req[r].status = "updating"
        /\ rows' = IF session \in DOMAIN rows
                   THEN [rows EXCEPT ![session].last_seen_at = req[r].now]
                   ELSE rows
        /\ sessions' = Return(r)
        /\ Enter(r, "accepted")
        /\ UNCHANGED <<limiterVars, loggedOut, now, restarts>>

\* UPDATE ... SET last_seen_at = $2 WHERE ... AND last_seen_at < $2
Update(r) ==
    LET session == req[r].session
    IN  /\ req[r].status = "updating"
        /\ rows' = IF session \in DOMAIN rows /\ rows[session].last_seen_at < req[r].now
                   THEN [rows EXCEPT ![session].last_seen_at = req[r].now]
                   ELSE rows
        /\ sessions' = Return(r)
        /\ Enter(r, "accepted")
        /\ UNCHANGED <<limiterVars, loggedOut, now, restarts>>

DeleteRow(session) == rows' = Restrict(rows, DOMAIN rows \ {session})

\* The row found too old is deleted, whatever it is now: 401.
Reject(r) ==
    /\ req[r].status = "rejecting"
    /\ DeleteRow(req[r].session)
    /\ Leave(r)
    /\ UNCHANGED <<limiterVars, sessions, loggedOut, now, restarts>>

\* A handler that only reads; verifyCsrf answers 403 to a wrong token.
Handle(r) ==
    /\ req[r].status = "accepted"
    /\ req[r].purpose \in {"read", "logoutWrongCsrf"}
    /\ Leave(r)
    /\ UNCHANGED <<limiterVars, sessionVars, now, restarts>>

logout(r) ==
    /\ req[r].status = "accepted"
    /\ req[r].purpose = "logout"
    /\ DeleteRow(req[r].session)
    /\ loggedOut' = loggedOut \union {req[r].session}
    /\ Leave(r)
    /\ UNCHANGED <<limiterVars, sessions, now, restarts>>

\* The WHERE of cleanupExpired.
Outdated(row, t) == row.expires_at <= t \/ row.last_seen_at <= t - idleMs

\* The clock was read before the statement waited for a connection.
cleanupExpired(t) ==
    /\ t <= now
    /\ rows' = Restrict(rows, {s \in DOMAIN rows : ~Outdated(rows[s], t)})
    /\ rows' # rows
    /\ UNCHANGED <<limiterVars, req, sessions, loggedOut, now, restarts>>

\* A statement or a connection fails: 500.
DatabaseFails(r) ==
    /\ req[r].status \in {"inserting", "selecting", "updating", "rejecting"}
    /\ Leave(r)
    /\ UNCHANGED <<limiterVars, sessionVars, now, restarts>>

\* The process is restarted: requests and the limiter are gone.
Restart ==
    /\ restarts < MaxRestarts
    /\ restarts' = restarts + 1
    /\ req' = [r \in Requests |-> Idle]
    /\ clients' = << >>
    /\ global' = emptyState(0)
    /\ guesses' = [own |-> [c \in Clients |-> NoGuesses], all |-> NoGuesses]
    /\ UNCHANGED <<logins, sessionVars, now>>

\* Hashing takes MaxHash at most, a handler MaxAge.
Tick ==
    /\ now < MaxTime
    /\ \A r \in Requests : req[r] # Idle =>
          now - req[r].now < IF req[r].status = "hashing" THEN MaxHash ELSE MaxAge
    /\ now' = now + 1
    /\ UNCHANGED <<limiterVars, sessionVars, req, restarts>>

Next ==
    \/ \E r \in Requests :
          \/ \E c \in Clients, ok \in Passwords : LoginStart(r, c, ok)
          \/ LoginFails(r) \/ LoginSucceeds(r) \/ LoginInsert(r)
          \/ \E s \in DOMAIN sessions, p \in {"read", "logout", "logoutWrongCsrf"} :
                RequestStart(r, s, p)
          \/ Select(r) \/ Update(r) \/ Reject(r) \/ Handle(r) \/ logout(r)
          \/ DatabaseFails(r)
    \/ \E t \in Times : cleanupExpired(t)
    \/ Restart \/ Tick

Spec == Init /\ [][Next]_vars

-----------------------------------------------------------------------------
\* The variables hold what the classes and the table allow.
TypeOK ==
    /\ DOMAIN clients \subseteq Clients
    /\ DOMAIN rows \subseteq DOMAIN sessions /\ DOMAIN sessions \subseteq 1..MaxSessions
    /\ \A s \in DOMAIN rows : rows[s].last_seen_at \in Times
    /\ loggedOut \subseteq DOMAIN sessions \ DOMAIN rows
    /\ now \in Times

\* A session is accepted only for a request that came before it expired,
\* within the idle time of an earlier request (or the login), and before its
\* logout had been answered.
AcceptedOnlyAlive ==
    \A r \in Requests :
        (req[r].status = "selecting" /\ req'[r].status \in {"updating", "accepted"})
        => LET session == sessions[req[r].session]
           IN  /\ req[r].now < session.made + absoluteMs
               /\ req[r].now < session.valid + idleMs
               /\ ~req[r].late

\* So long unused that it may be refused at t: last_seen_at lags behind by
\* less than refreshMs.
Lapsed(session, t) ==
    \/ session.made + absoluteMs <= t
    \/ session.returned - refreshMs + idleMs < t

\* A session in use survives: a request is refused for age, and a row is
\* cleaned up, only when the session expired or was last used almost the
\* whole idle time ago, although last_seen_at is written only once a minute
\* and by requests that overtake each other; no other step deletes a row.
UsedSessionSurvives ==
    /\ \A r \in Requests :
          (req[r].status = "selecting" /\ req'[r].status = "rejecting")
          => Lapsed(sessions[req[r].session], req[r].now)
    /\ \A s \in DOMAIN rows \ DOMAIN rows' :
          \/ Lapsed(sessions[s], now)
          \/ \E r \in Requests :
                /\ req[r].status \in {"rejecting", "accepted"}
                /\ req[r].session = s

\* In every step both: a session lives neither too long nor too short.
SessionsLastAsPromised == [][AcceptedOnlyAlive /\ UsedSessionSurvives]_vars

\* The failed logins of a history that started in a stretch of time from t on.
FailuresFrom(history, t, length) ==
    LET started == {u \in Times : t <= u /\ u < t + length}
    IN  UNION {{u} \X (1..history[u]) : u \in started}

\* However logins overlap, the passwords one client, or all of them, can try
\* in any stretch of a window are limited: what is left of one counting
\* window, a whole next one, and the requests already past the check.  The
\* stretch of one client is shorter by twice the time of hashing: a login
\* that is hashed while its client is pruned starts the client's window anew
\* at a time in the past, which can happen at both ends of a window.
GuessesAreLimited ==
    \A t \in Times :
        /\ \A c \in Clients :
              Cardinality(FailuresFrom(guesses.own[c], t, WINDOW_MS - 2 * MaxHash))
                  <= 2 * (CLIENT_FAILURE_LIMIT - 1) + Cardinality(Requests)
        /\ Cardinality(FailuresFrom(guesses.all, t, WINDOW_MS))
                  <= 2 * (GLOBAL_FAILURE_LIMIT - 1) + Cardinality(Requests)
=============================================================================
