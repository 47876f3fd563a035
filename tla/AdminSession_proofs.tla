-------------------------- MODULE AdminSession_proofs --------------------------
(***************************************************************************)
(* Sessions last as promised, and guessing passwords is limited, for any   *)
(* number of clients, requests and sessions and any times.                 *)
(***************************************************************************)
EXTENDS AdminSession, FiniteSetTheorems, TLAPS

LoginRequest ==
    [status : {"hashing", "inserting"}, client : Clients, correct : BOOLEAN, now : Times]

SessionRequest ==
    [status : {"selecting", "updating", "rejecting", "accepted"},
     session : DOMAIN sessions, purpose : {"read", "logout", "logoutWrongCsrf"},
     now : Times, late : BOOLEAN]

\* A request is idle, a login, or uses a session that was made.
RequestsInv ==
    /\ DOMAIN req = Requests
    /\ \A r \in Requests : req[r] \in {Idle} \union LoginRequest \union SessionRequest

\* Sessions are numbered from 1 on, rows are those of sessions not logged out.
RowsInv ==
    /\ \E n \in 0..MaxSessions : DOMAIN sessions = 1..n
    /\ sessions \in [DOMAIN sessions -> [made : Times, valid : Times, returned : Times]]
    /\ rows \in [DOMAIN rows -> [last_seen_at : Times, expires_at : Nat]]

\* last_seen_at is the time of a request that found the session valid, and at
\* most a refresh interval behind the last one returned.
SeenInv ==
    /\ \A s \in DOMAIN rows :
          /\ rows[s].expires_at = sessions[s].made + absoluteMs
          /\ rows[s].last_seen_at <= sessions[s].valid
          /\ sessions[s].returned - refreshMs < rows[s].last_seen_at
    /\ \A r \in Requests :
          req[r].status = "updating" => req[r].now <= sessions[req[r].session].valid

\* A request that came after the logout is about a session without a row.
LateInv ==
    \A r \in Requests :
        req[r] \in SessionRequest /\ req[r].late => req[r].session \in loggedOut

IndInv == TypeOK /\ RequestsInv /\ RowsInv /\ SeenInv /\ LateInv

-----------------------------------------------------------------------------
\* The larger of two numbers.
LEMMA MaxOfTwo ==
    ASSUME NEW a \in Int, NEW b \in Int
    PROVE  Max({a, b}) = IF a >= b THEN a ELSE b
<1>1. \E x \in {a, b} : \A y \in {a, b} : x >= y
  OBVIOUS
<1>2. /\ Max({a, b}) \in {a, b}
      /\ \A y \in {a, b} : Max({a, b}) >= y
  BY <1>1 DEF Max
<1> QED BY <1>2

LEMMA InitInd == Init => IndInv
<1> SUFFICES ASSUME Init PROVE IndInv
  OBVIOUS
<1>1. DOMAIN sessions = {} /\ DOMAIN rows = {} /\ DOMAIN clients = {} /\ 1..0 = {}
  BY DEF Init
<1> QED BY <1>1, ConstantsAssumption
       DEF Init, IndInv, TypeOK, RequestsInv, RowsInv, SeenInv, LateInv, Idle, Times,
           StartTime, SessionRequest

\* What a request may become in a step that leaves sessions and rows alone.
Unrelated(r) ==
    \/ req'[r] = req[r]
    \/ req'[r] \in {Idle} \union LoginRequest
    \/ /\ req'[r] \in SessionRequest /\ req'[r].status # "updating"
       /\ req'[r].late => req'[r].session \in loggedOut

\* Logins, reads and the clock.
LEMMA SessionsUntouched ==
    ASSUME IndInv, UNCHANGED sessionVars, DOMAIN clients' \subseteq Clients, now' \in Times,
           DOMAIN req' = Requests, \A r \in Requests : Unrelated(r)
    PROVE  IndInv'
<1>1. rows' = rows /\ sessions' = sessions /\ loggedOut' = loggedOut
  BY DEF sessionVars
<1>2. TypeOK' /\ RowsInv'
  BY <1>1 DEF IndInv, TypeOK, RowsInv
<1>3. SessionRequest' = SessionRequest
  BY <1>1 DEF SessionRequest
<1>4. RequestsInv'
  BY <1>3 DEF IndInv, RequestsInv, Unrelated
<1>5. LateInv'
  <2> SUFFICES ASSUME NEW r \in Requests, req'[r] \in SessionRequest, req'[r].late
               PROVE  req'[r].session \in loggedOut
    BY <1>1, <1>3 DEF LateInv
  <2>1. CASE req'[r] = req[r]
    BY <2>1 DEF IndInv, LateInv
  <2>2. CASE req'[r] \in {Idle} \union LoginRequest
    BY <2>2 DEF Idle, LoginRequest, SessionRequest
  <2> QED BY <2>1, <2>2 DEF Unrelated
<1>6. SeenInv'
  <2>1. ASSUME NEW r \in Requests, req'[r].status = "updating"
        PROVE  req'[r].now <= sessions[req'[r].session].valid
    <3>1. req'[r] = req[r]
      BY <2>1 DEF Unrelated, Idle, LoginRequest
    <3> QED BY <2>1, <3>1 DEF IndInv, SeenInv
  <2> QED BY <1>1, <2>1 DEF IndInv, SeenInv
<1> QED BY <1>2, <1>4, <1>5, <1>6 DEF IndInv

LEMMA LoginStep ==
    ASSUME IndInv, NEW r \in Requests,
           \/ \E c \in Clients, ok \in Passwords : LoginStart(r, c, ok)
           \/ LoginFails(r) \/ LoginSucceeds(r)
    PROVE  IndInv'
<1>0. req[r] \in {Idle} \union LoginRequest \union SessionRequest /\ now \in Times
  BY DEF IndInv, RequestsInv, TypeOK
<1>1. CASE \E c \in Clients, ok \in Passwords : LoginStart(r, c, ok)
  <2>1. PICK c \in Clients, ok \in Passwords : LoginStart(r, c, ok)
    BY <1>1
  <2>2. UNCHANGED sessionVars /\ now' = now /\ DOMAIN clients' \subseteq Clients
    BY <2>1 DEF LoginStart, WithClient, IndInv, TypeOK
  <2>3. DOMAIN req' = Requests
    BY <2>1 DEF LoginStart, IndInv, RequestsInv
  <2>4. \A q \in Requests : Unrelated(q)
    <3>1. [status |-> "hashing", client |-> c, correct |-> ok, now |-> now] \in LoginRequest
      BY <1>0, ConstantsAssumption DEF LoginRequest
    <3>2. req'[r] \in {Idle} \union LoginRequest
      BY <2>1, <3>1 DEF LoginStart, IndInv, RequestsInv
    <3>3. \A q \in Requests \ {r} : req'[q] = req[q]
      BY <2>1 DEF LoginStart, IndInv, RequestsInv
    <3> QED BY <3>2, <3>3 DEF Unrelated
  <2> QED BY <1>0, <2>2, <2>3, <2>4, SessionsUntouched
<1>2. CASE LoginFails(r)
  <2>1. UNCHANGED sessionVars /\ now' = now
    BY <1>2 DEF LoginFails
  <2>2. req[r] \in LoginRequest
    BY <1>0, <1>2 DEF LoginFails, Idle, SessionRequest
  <2>3. DOMAIN clients' \subseteq Clients
    BY <1>2, <2>2 DEF LoginFails, WithClient, prune, Restrict, IndInv, TypeOK, LoginRequest
  <2>4. DOMAIN req' = Requests /\ \A q \in Requests : Unrelated(q)
    BY <1>2 DEF LoginFails, Leave, IndInv, RequestsInv, Unrelated
  <2> QED BY <1>0, <2>1, <2>3, <2>4, SessionsUntouched
<1>3. CASE LoginSucceeds(r)
  <2>1. UNCHANGED sessionVars /\ now' = now
    BY <1>3 DEF LoginSucceeds
  <2>2. req[r] \in LoginRequest
    BY <1>0, <1>3 DEF LoginSucceeds, Idle, SessionRequest
  <2>3. DOMAIN clients' \subseteq Clients
    BY <1>3 DEF LoginSucceeds, Restrict, IndInv, TypeOK
  <2>4. DOMAIN req' = Requests /\ req'[r] \in LoginRequest
    BY <1>3, <2>2 DEF LoginSucceeds, Enter, IndInv, RequestsInv, LoginRequest
  <2>5. \A q \in Requests : Unrelated(q)
    BY <1>3, <2>4 DEF LoginSucceeds, Enter, IndInv, RequestsInv, Unrelated
  <2> QED BY <1>0, <2>1, <2>3, <2>4, <2>5, SessionsUntouched
<1> QED BY <1>1, <1>2, <1>3

LEMMA QuietStep ==
    ASSUME IndInv,
           \/ \E r \in Requests :
                 \/ \E s \in DOMAIN sessions, p \in {"read", "logout", "logoutWrongCsrf"} :
                       RequestStart(r, s, p)
                 \/ Handle(r) \/ DatabaseFails(r)
           \/ Restart \/ Tick
    PROVE  IndInv'
<1>0. now \in Times /\ DOMAIN req = Requests /\ DOMAIN clients \subseteq Clients
  BY DEF IndInv, RequestsInv, TypeOK
<1>1. ASSUME NEW r \in Requests, NEW s \in DOMAIN sessions,
             NEW p \in {"read", "logout", "logoutWrongCsrf"}, RequestStart(r, s, p)
      PROVE  IndInv'
  <2> DEFINE gone == s \in loggedOut
  <2>1. UNCHANGED sessionVars /\ now' = now /\ clients' = clients
    BY <1>1 DEF RequestStart, limiterVars
  <2>2. DOMAIN req' = Requests /\ \A q \in Requests \ {r} : req'[q] = req[q]
    BY <1>0, <1>1 DEF RequestStart
  <2>3. req'[r] = [status |-> "selecting", session |-> s, purpose |-> p,
                   now |-> now, late |-> gone]
    BY <1>0, <1>1 DEF RequestStart
  <2>4. req'[r] \in SessionRequest
    BY <1>0, <2>3 DEF SessionRequest
  <2> HIDE DEF gone
  <2>5. req'[r].status # "updating" /\ (req'[r].late => req'[r].session \in loggedOut)
    <3>1. req'[r].status = "selecting" /\ req'[r].session = s /\ req'[r].late = gone
      BY <2>3
    <3> QED BY <3>1 DEF gone
  <2>6. \A q \in Requests : Unrelated(q)
    BY <2>2, <2>4, <2>5 DEF Unrelated
  <2> QED BY <1>0, <2>1, <2>2, <2>6, SessionsUntouched
<1>2. ASSUME NEW r \in Requests, Handle(r) \/ DatabaseFails(r)
      PROVE  IndInv'
  <2>1. UNCHANGED sessionVars /\ now' = now /\ clients' = clients
    BY <1>2 DEF Handle, DatabaseFails, limiterVars
  <2>2. DOMAIN req' = Requests /\ \A q \in Requests : Unrelated(q)
    BY <1>0, <1>2 DEF Handle, DatabaseFails, Leave, Unrelated
  <2> QED BY <1>0, <2>1, <2>2, SessionsUntouched
<1>3. CASE Restart
  <2>1. UNCHANGED sessionVars /\ now' = now /\ DOMAIN clients' = {}
    BY <1>3 DEF Restart
  <2>2. DOMAIN req' = Requests /\ \A q \in Requests : Unrelated(q)
    BY <1>3 DEF Restart, Unrelated
  <2> QED BY <1>0, <2>1, <2>2, SessionsUntouched
<1>4. CASE Tick
  <2>1. UNCHANGED sessionVars /\ clients' = clients /\ req' = req
    BY <1>4 DEF Tick, limiterVars
  <2>2. now' \in Times
    BY <1>0, <1>4, ConstantsAssumption DEF Tick, Times, StartTime
  <2> QED BY <1>0, <2>1, <2>2, SessionsUntouched DEF Unrelated
<1> QED BY <1>1, <1>2, <1>3, <1>4

-----------------------------------------------------------------------------
(* Steps that change rows.                                                 *)

\* A row is deleted: by logout, for its age, or by the clean-up.
LEMMA RowsDeleted ==
    ASSUME IndInv, NEW kept \in SUBSET DOMAIN rows, rows' = Restrict(rows, kept),
           sessions' = sessions, now' = now, clients' = clients,
           loggedOut \subseteq loggedOut', loggedOut' \subseteq DOMAIN sessions \ kept,
           DOMAIN req' = Requests,
           \A r \in Requests : req'[r] = req[r] \/ req'[r] = Idle
    PROVE  IndInv'
<1>1. DOMAIN rows' = kept /\ \A s \in kept : rows'[s] = rows[s]
  BY DEF Restrict
<1>2. RowsInv'
  BY <1>1 DEF IndInv, RowsInv, Restrict
<1>3. TypeOK'
  BY <1>1 DEF IndInv, TypeOK
<1>4. SessionRequest' = SessionRequest
  BY DEF SessionRequest
<1>5. RequestsInv'
  BY <1>4 DEF IndInv, RequestsInv
<1>6. LateInv'
  BY <1>4 DEF IndInv, LateInv, Idle, SessionRequest
<1>7. SeenInv'
  BY <1>1 DEF IndInv, SeenInv, Idle
<1> QED BY <1>2, <1>3, <1>5, <1>6, <1>7 DEF IndInv

LEMMA DeletingStep ==
    ASSUME IndInv,
           (\E r \in Requests : Reject(r) \/ logout(r)) \/ \E t \in Times : cleanupExpired(t)
    PROVE  IndInv'
<1>0. DOMAIN req = Requests /\ loggedOut \subseteq DOMAIN sessions \ DOMAIN rows
  BY DEF IndInv, RequestsInv, TypeOK
<1>1. ASSUME NEW r \in Requests, Reject(r)
      PROVE  IndInv'
  <2> DEFINE kept == DOMAIN rows \ {req[r].session}
  <2>1. /\ rows' = Restrict(rows, kept)
        /\ sessions' = sessions /\ now' = now /\ clients' = clients /\ loggedOut' = loggedOut
    BY <1>1 DEF Reject, DeleteRow, limiterVars
  <2>2. DOMAIN req' = Requests /\ \A q \in Requests : req'[q] = req[q] \/ req'[q] = Idle
    BY <1>0, <1>1 DEF Reject, Leave
  <2>3. loggedOut \subseteq loggedOut' /\ loggedOut' \subseteq DOMAIN sessions \ kept
    BY <1>0, <2>1
  <2> HIDE DEF kept
  <2> QED BY <2>1, <2>2, <2>3, RowsDeleted DEF kept
<1>2. ASSUME NEW r \in Requests, logout(r)
      PROVE  IndInv'
  <2> DEFINE kept == DOMAIN rows \ {req[r].session}
  <2>1. /\ rows' = Restrict(rows, kept)
        /\ sessions' = sessions /\ now' = now /\ clients' = clients
        /\ loggedOut' = loggedOut \union {req[r].session}
    BY <1>2 DEF logout, DeleteRow, limiterVars
  <2>2. DOMAIN req' = Requests /\ \A q \in Requests : req'[q] = req[q] \/ req'[q] = Idle
    BY <1>0, <1>2 DEF logout, Leave
  <2>3. req[r].session \in DOMAIN sessions
    BY <1>2 DEF logout, IndInv, RequestsInv, Idle, LoginRequest, SessionRequest
  <2>4. loggedOut \subseteq loggedOut' /\ loggedOut' \subseteq DOMAIN sessions \ kept
    BY <1>0, <2>1, <2>3
  <2> HIDE DEF kept
  <2> QED BY <2>1, <2>2, <2>4, RowsDeleted DEF kept
<1>3. ASSUME NEW t \in Times, cleanupExpired(t)
      PROVE  IndInv'
  <2> DEFINE kept == {s \in DOMAIN rows : ~Outdated(rows[s], t)}
  <2>1. /\ rows' = Restrict(rows, kept)
        /\ sessions' = sessions /\ now' = now /\ clients' = clients
        /\ loggedOut' = loggedOut /\ req' = req
    BY <1>3 DEF cleanupExpired, limiterVars
  <2>2. loggedOut \subseteq loggedOut' /\ loggedOut' \subseteq DOMAIN sessions \ kept
    BY <1>0, <2>1
  <2>3. kept \in SUBSET DOMAIN rows
    OBVIOUS
  <2> HIDE DEF kept
  <2> QED BY <1>0, <2>1, <2>2, <2>3, RowsDeleted
<1> QED BY <1>1, <1>2, <1>3

\* A new session is the next number.
LEMMA NextSession ==
    ASSUME RowsInv
    PROVE  LET n == Cardinality(DOMAIN sessions) IN n \in Nat /\ DOMAIN sessions = 1..n
<1>1. PICK n \in 0..MaxSessions : DOMAIN sessions = 1..n
  BY DEF RowsInv
<1>2. Cardinality(1..n) = n
  BY FS_Interval, ConstantsAssumption
<1> QED BY <1>1, <1>2, ConstantsAssumption

LEMMA LoginInsertStep ==
    ASSUME IndInv, NEW r \in Requests, LoginInsert(r)
    PROVE  IndInv'
<1> DEFINE n == Cardinality(DOMAIN sessions)
           t == req[r].now
           row == [last_seen_at |-> t, expires_at |-> t + absoluteMs]
           mark == [made |-> t, valid |-> t, returned |-> t]
<1>1. n \in Nat /\ DOMAIN sessions = 1..n /\ n + 1 \notin DOMAIN sessions
  BY NextSession DEF IndInv
<1>2. n + 1 <= MaxSessions /\ req[r].status = "inserting"
  BY DEF LoginInsert
<1>3. req[r] \in LoginRequest /\ t \in Times
  BY <1>2 DEF IndInv, RequestsInv, Idle, SessionRequest, LoginRequest
<1>4. t \in Nat /\ t + absoluteMs \in Nat
  BY <1>3, ConstantsAssumption DEF Times, StartTime
<1>5. /\ DOMAIN sessions' = 1..n + 1
      /\ sessions' = [s \in 1..n + 1 |-> IF s = n + 1 THEN mark ELSE sessions[s]]
  BY <1>1 DEF LoginInsert
<1>6. rows' = [s \in DOMAIN rows \union {n + 1} |-> IF s = n + 1 THEN row ELSE rows[s]]
  BY DEF LoginInsert
<1>7. loggedOut' = loggedOut /\ now' = now /\ clients' = clients
  BY DEF LoginInsert, limiterVars
<1>8. /\ DOMAIN req' = Requests /\ req'[r] = Idle
      /\ \A q \in Requests \ {r} : req'[q] = req[q]
  BY DEF LoginInsert, Leave, IndInv, RequestsInv
<1>9. DOMAIN rows \subseteq 1..n /\ loggedOut \subseteq 1..n \ DOMAIN rows
  BY <1>1 DEF IndInv, TypeOK
<1> HIDE DEF n, t, row, mark
<1>10. mark \in [made : Times, valid : Times, returned : Times]
  BY <1>3 DEF mark
<1>11. row \in [last_seen_at : Times, expires_at : Nat]
  BY <1>3, <1>4 DEF row
<1>12. RowsInv'
  <2>1. n + 1 \in 0..MaxSessions
    BY <1>1, <1>2, ConstantsAssumption DEF n
  <2>2. sessions' \in [1..n + 1 -> [made : Times, valid : Times, returned : Times]]
    BY <1>1, <1>5, <1>10 DEF IndInv, RowsInv
  <2>3. rows' \in [DOMAIN rows' -> [last_seen_at : Times, expires_at : Nat]]
    BY <1>6, <1>11 DEF IndInv, RowsInv
  <2> QED BY <1>5, <2>1, <2>2, <2>3 DEF RowsInv
<1>13. TypeOK'
  <2>1. /\ DOMAIN rows' \subseteq DOMAIN sessions'
        /\ DOMAIN sessions' \subseteq 1..MaxSessions
        /\ loggedOut' \subseteq DOMAIN sessions' \ DOMAIN rows'
    BY <1>1, <1>2, <1>5, <1>6, <1>7, <1>9, ConstantsAssumption DEF n
  <2>2. \A s \in DOMAIN rows' : rows'[s].last_seen_at \in Times
    BY <1>12 DEF RowsInv
  <2> QED BY <1>7, <2>1, <2>2 DEF IndInv, TypeOK
<1>14. SessionRequest \subseteq SessionRequest'
  BY <1>1, <1>5 DEF SessionRequest
<1>15. RequestsInv'
  BY <1>8, <1>14 DEF IndInv, RequestsInv
<1>16. LateInv'
  <2> SUFFICES ASSUME NEW q \in Requests, req'[q] \in SessionRequest', req'[q].late
               PROVE  req'[q].session \in loggedOut
    BY <1>7 DEF LateInv
  <2>1. req'[q] = req[q]
    BY <1>8 DEF Idle, SessionRequest
  <2>2. req[q] \in SessionRequest
    BY <2>1 DEF IndInv, RequestsInv, Idle, LoginRequest, SessionRequest
  <2> QED BY <2>1, <2>2 DEF IndInv, LateInv
<1>17. SeenInv'
  <2>1. ASSUME NEW s \in DOMAIN rows'
        PROVE  /\ rows'[s].expires_at = sessions'[s].made + absoluteMs
               /\ rows'[s].last_seen_at <= sessions'[s].valid
               /\ sessions'[s].returned - refreshMs < rows'[s].last_seen_at
    <3>1. CASE s = n + 1
      <4>1. rows'[s] = row /\ sessions'[s] = mark
        BY <1>1, <1>5, <1>6, <3>1
      <4> QED BY <1>4, <4>1, ConstantsAssumption DEF row, mark
    <3>2. CASE s # n + 1
      <4>1. s \in DOMAIN rows /\ rows'[s] = rows[s] /\ sessions'[s] = sessions[s]
        BY <1>1, <1>5, <1>6, <1>9, <3>2
      <4> QED BY <4>1 DEF IndInv, SeenInv
    <3> QED BY <3>1, <3>2
  <2>2. ASSUME NEW q \in Requests, req'[q].status = "updating"
        PROVE  req'[q].now <= sessions'[req'[q].session].valid
    <3>1. req'[q] = req[q]
      BY <1>8, <2>2 DEF Idle
    <3>2. req[q].session \in DOMAIN sessions
      BY <2>2, <3>1 DEF IndInv, RequestsInv, Idle, LoginRequest, SessionRequest
    <3>3. sessions'[req[q].session] = sessions[req[q].session]
      BY <1>1, <1>5, <3>2
    <3> QED BY <2>2, <3>1, <3>3 DEF IndInv, SeenInv
  <2> QED BY <2>1, <2>2 DEF SeenInv
<1> QED BY <1>12, <1>13, <1>15, <1>16, <1>17 DEF IndInv

\* The marks of one session after a request found it valid at t.
Marked(session, valid, returned) ==
    sessions' = [s \in DOMAIN sessions |->
        IF s = session
        THEN [made |-> sessions[s].made, valid |-> valid, returned |-> returned]
        ELSE sessions[s]]

Later(a, b) == IF a >= b THEN a ELSE b

\* What Select does to the request and to the marks of its session.
LEMMA SelectFacts ==
    ASSUME IndInv, NEW r \in Requests, Select(r)
    PROVE  LET session == req[r].session
               t == req[r].now
               due == RefreshDue(rows[session], t)
           IN  /\ req[r] \in SessionRequest /\ req[r].status = "selecting"
               /\ DOMAIN req' = Requests /\ \A q \in Requests \ {r} : req'[q] = req[q]
               /\ \/ req'[r] = Idle /\ sessions' = sessions
                  \/ /\ session \in DOMAIN rows /\ TooOld(rows[session], t)
                     /\ req'[r] = [req[r] EXCEPT !.status = "rejecting"]
                     /\ sessions' = sessions
                  \/ /\ session \in DOMAIN rows /\ ~TooOld(rows[session], t)
                     /\ due => req'[r] = [req[r] EXCEPT !.status = "updating"]
                     /\ ~due => req'[r] = [req[r] EXCEPT !.status = "accepted"]
                     /\ Marked(session, Later(sessions[session].valid, t),
                               IF due THEN sessions[session].returned
                               ELSE Later(sessions[session].returned, t))
<1> DEFINE session == req[r].session
           t == req[r].now
           row == rows[session]
           due == RefreshDue(row, t)
           mark == sessions[session]
<1>1. req[r].status = "selecting" /\ DOMAIN req = Requests
  BY DEF Select, IndInv, RequestsInv
<1>2. req[r] \in SessionRequest
  BY <1>1 DEF IndInv, RequestsInv, Idle, LoginRequest
<1>3. session \in DOMAIN sessions /\ t \in Times
  BY <1>2 DEF SessionRequest
<1>4. mark \in [made : Times, valid : Times, returned : Times]
  BY <1>3 DEF IndInv, RowsInv
<1>5. DOMAIN req' = Requests /\ \A q \in Requests \ {r} : req'[q] = req[q]
  BY <1>1 DEF Select, Leave, Enter
<1>6. CASE session \notin DOMAIN rows
  BY <1>1, <1>2, <1>5, <1>6 DEF Select, Leave
<1>7. CASE session \in DOMAIN rows /\ TooOld(row, t)
  BY <1>1, <1>2, <1>5, <1>7 DEF Select, Enter
<1>8. CASE session \in DOMAIN rows /\ ~TooOld(row, t)
  <2>1. /\ Enter(r, IF due THEN "updating" ELSE "accepted")
        /\ sessions' = [sessions EXCEPT
               ![session].valid = Max({@, t}),
               ![session].returned = IF due THEN @ ELSE Max({@, t})]
    BY <1>8 DEF Select
  <2>2. /\ due => req'[r] = [req[r] EXCEPT !.status = "updating"]
        /\ ~due => req'[r] = [req[r] EXCEPT !.status = "accepted"]
    BY <1>1, <2>1 DEF Enter
  <2>3. t \in Int /\ mark.valid \in Int /\ mark.returned \in Int
    BY <1>3, <1>4, ConstantsAssumption DEF Times, StartTime
  <2>4. /\ Max({mark.valid, t}) = Later(mark.valid, t)
        /\ Max({mark.returned, t}) = Later(mark.returned, t)
    BY <2>3, MaxOfTwo DEF Later
  <2> HIDE DEF session, t, row, due
  <2>5. /\ DOMAIN sessions' = DOMAIN sessions
        /\ \A s \in DOMAIN sessions \ {session} : sessions'[s] = sessions[s]
        /\ sessions'[session] =
               [mark EXCEPT !.valid = Max({@, t}),
                            !.returned = IF due THEN @ ELSE Max({@, t})]
    BY <1>3, <2>1
  <2>6. sessions'[session] =
            [made |-> mark.made, valid |-> Later(mark.valid, t),
             returned |-> IF due THEN mark.returned ELSE Later(mark.returned, t)]
    BY <1>4, <2>4, <2>5
  <2>7. Marked(session, Later(mark.valid, t),
               IF due THEN mark.returned ELSE Later(mark.returned, t))
    <3>1. sessions' = [s \in DOMAIN sessions |-> sessions'[s]]
      BY <2>1
    <3> QED BY <2>5, <2>6, <3>1 DEF Marked
  <2> QED BY <1>1, <1>2, <1>5, <1>8, <2>2, <2>7 DEF session, t, row, due
<1> QED BY <1>6, <1>7, <1>8

\* A request finds its session valid or marks it as seen.
LEMMA SessionSeen ==
    ASSUME IndInv, NEW r \in Requests, req[r] \in SessionRequest,
           NEW valid \in Times, NEW returned \in Times,
           Marked(req[r].session, valid, returned),
           sessions[req[r].session].valid <= valid,
           loggedOut' = loggedOut, now' = now, clients' = clients,
           DOMAIN req' = Requests, \A q \in Requests \ {r} : req'[q] = req[q],
           NEW status \in {"updating", "accepted"}, req'[r] = [req[r] EXCEPT !.status = status],
           status = "updating" => req[r].now <= valid,
           DOMAIN rows' = DOMAIN rows,
           rows' \in [DOMAIN rows -> [last_seen_at : Times, expires_at : Nat]],
           \A s \in DOMAIN rows \ {req[r].session} : rows'[s] = rows[s],
           req[r].session \in DOMAIN rows =>
               /\ rows'[req[r].session].expires_at = rows[req[r].session].expires_at
               /\ rows'[req[r].session].last_seen_at <= valid
               /\ returned - refreshMs < rows'[req[r].session].last_seen_at
    PROVE  IndInv'
<1> DEFINE session == req[r].session
<1>1. /\ DOMAIN sessions' = DOMAIN sessions
      /\ \A s \in DOMAIN sessions \ {session} : sessions'[s] = sessions[s]
      /\ session \in DOMAIN sessions =>
             sessions'[session] = [made |-> sessions[session].made,
                                   valid |-> valid, returned |-> returned]
  BY DEF Marked
<1>2. session \in DOMAIN sessions /\ req[r].now \in Times
  BY DEF SessionRequest
<1>3. req'[r] \in SessionRequest /\ req'[r].session = session
      /\ req'[r].now = req[r].now /\ req'[r].late = req[r].late /\ req'[r].status = status
  BY DEF SessionRequest
<1>4. SessionRequest' = SessionRequest
  BY <1>1 DEF SessionRequest
<1>5. sessions \in [DOMAIN sessions -> [made : Times, valid : Times, returned : Times]]
  BY DEF IndInv, RowsInv
<1>6. RowsInv'
  <2>1. \A s \in DOMAIN sessions :
            sessions'[s] \in [made : Times, valid : Times, returned : Times]
    BY <1>1, <1>2, <1>5
  <2>2. sessions' = [s \in DOMAIN sessions' |-> sessions'[s]]
    BY DEF Marked
  <2> QED BY <1>1, <2>1, <2>2 DEF IndInv, RowsInv
<1> HIDE DEF session
<1>7. TypeOK'
  <2>1. \A s \in DOMAIN rows' : rows'[s].last_seen_at \in Times
    BY <1>6 DEF RowsInv
  <2> QED BY <1>1, <2>1 DEF IndInv, TypeOK
<1>8. RequestsInv'
  BY <1>3, <1>4 DEF IndInv, RequestsInv
<1>9. LateInv'
  BY <1>3, <1>4 DEF IndInv, LateInv, session
<1>10. SeenInv'
  <2>0. valid \in Int /\ \A s \in DOMAIN sessions : sessions[s].valid \in Int
    BY <1>5, ConstantsAssumption DEF Times, StartTime
  <2>1. ASSUME NEW s \in DOMAIN rows'
        PROVE  /\ rows'[s].expires_at = sessions'[s].made + absoluteMs
               /\ rows'[s].last_seen_at <= sessions'[s].valid
               /\ sessions'[s].returned - refreshMs < rows'[s].last_seen_at
    <3>1. CASE s = session
      BY <1>1, <1>2, <3>1 DEF IndInv, SeenInv, session
    <3>2. CASE s # session
      <4>1. s \in DOMAIN sessions \ {session}
        BY <3>2 DEF IndInv, TypeOK
      <4>2. rows'[s] = rows[s] /\ sessions'[s] = sessions[s]
        BY <1>1, <3>2, <4>1 DEF session
      <4> QED BY <4>2 DEF IndInv, SeenInv
    <3> QED BY <3>1, <3>2
  <2>2. ASSUME NEW q \in Requests, req'[q].status = "updating"
        PROVE  req'[q].now <= sessions'[req'[q].session].valid
    <3>1. CASE q = r
      <4>1. req[r].now <= valid
        BY <1>3, <2>2, <3>1
      <4>2. sessions'[session].valid = valid
        BY <1>1, <1>2
      <4> QED BY <1>3, <3>1, <4>1, <4>2
    <3>2. CASE q # r
      <4>1. req'[q] = req[q]
        BY <3>2
      <4>2. req[q].session \in DOMAIN sessions /\ req[q].now \in Int
        BY <2>2, <4>1, ConstantsAssumption
           DEF IndInv, RequestsInv, Idle, LoginRequest, SessionRequest, Times, StartTime
      <4>3. req[q].now <= sessions[req[q].session].valid
        BY <2>2, <4>1 DEF IndInv, SeenInv
      <4>4. CASE req[q].session = session
        BY <1>1, <1>2, <2>0, <4>1, <4>2, <4>3, <4>4 DEF session
      <4>5. CASE req[q].session # session
        BY <1>1, <4>1, <4>2, <4>3, <4>5
      <4> QED BY <4>4, <4>5
    <3> QED BY <3>1, <3>2
  <2> QED BY <2>1, <2>2 DEF SeenInv
<1> QED BY <1>6, <1>7, <1>8, <1>9, <1>10 DEF IndInv

LEMMA SelectStep ==
    ASSUME IndInv, NEW r \in Requests, Select(r)
    PROVE  IndInv'
<1> DEFINE session == req[r].session
           t == req[r].now
           due == RefreshDue(rows[session], t)
           valid == Later(sessions[session].valid, t)
           returned == IF due THEN sessions[session].returned
                       ELSE Later(sessions[session].returned, t)
<1>1. req[r] \in SessionRequest /\ req[r].status = "selecting"
  BY SelectFacts
<1>2. DOMAIN req' = Requests /\ \A q \in Requests \ {r} : req'[q] = req[q]
  BY SelectFacts
<1>3. rows' = rows /\ loggedOut' = loggedOut /\ now' = now /\ clients' = clients
  BY DEF Select, limiterVars
<1>4. session \in DOMAIN sessions /\ t \in Times
  BY <1>1 DEF SessionRequest
<1>5. now \in Times /\ DOMAIN clients \subseteq Clients
  BY DEF IndInv, TypeOK
<1>6. CASE req'[r] = Idle /\ sessions' = sessions
  <2>1. UNCHANGED sessionVars
    BY <1>3, <1>6 DEF sessionVars
  <2> QED BY <1>2, <1>3, <1>5, <1>6, <2>1, SessionsUntouched DEF Unrelated
<1>7. CASE req'[r] = [req[r] EXCEPT !.status = "rejecting"] /\ sessions' = sessions
  <2>1. UNCHANGED sessionVars
    BY <1>3, <1>7 DEF sessionVars
  <2>2. req'[r] \in SessionRequest /\ req'[r].status = "rejecting"
        /\ req'[r].late = req[r].late /\ req'[r].session = req[r].session
    BY <1>1, <1>7 DEF SessionRequest
  <2>3. Unrelated(r)
    BY <1>1, <2>2 DEF Unrelated, IndInv, LateInv
  <2> QED BY <1>2, <1>3, <1>5, <2>1, <2>3, SessionsUntouched DEF Unrelated
<1>8. CASE /\ session \in DOMAIN rows /\ ~TooOld(rows[session], t)
           /\ due => req'[r] = [req[r] EXCEPT !.status = "updating"]
           /\ ~due => req'[r] = [req[r] EXCEPT !.status = "accepted"]
           /\ Marked(session, valid, returned)
  <2>1. sessions[session] \in [made : Times, valid : Times, returned : Times]
    BY <1>4 DEF IndInv, RowsInv
  <2>2. valid \in Times /\ returned \in Times
    BY <1>4, <2>1 DEF Later
  <2>3. {t, sessions[session].valid, sessions[session].returned} \subseteq Int
    BY <1>4, <2>1, ConstantsAssumption DEF Times, StartTime
  <2>4. sessions[session].valid <= valid /\ t <= valid
    BY <2>3 DEF Later
  <2>5. rows \in [DOMAIN rows -> [last_seen_at : Times, expires_at : Nat]]
    BY DEF IndInv, RowsInv
  <2>6. rows[session].last_seen_at \in Int /\ refreshMs \in Int
    BY <1>8, <2>5, ConstantsAssumption DEF Times, StartTime
  <2>7. rows[session].last_seen_at <= valid
    BY <1>8, <2>3, <2>4, <2>6 DEF IndInv, SeenInv, Later
  <2>8. returned - refreshMs < rows[session].last_seen_at
    <3>1. sessions[session].returned - refreshMs < rows[session].last_seen_at
      BY <1>8 DEF IndInv, SeenInv
    <3> QED BY <2>3, <2>6, <3>1 DEF RefreshDue, Later
  <2>9. \E status \in {"updating", "accepted"} : req'[r] = [req[r] EXCEPT !.status = status]
    BY <1>8
  <2>10. PICK status \in {"updating", "accepted"} : req'[r] = [req[r] EXCEPT !.status = status]
    BY <2>9
  <2> HIDE DEF valid, returned, due
  <2> QED BY <1>1, <1>2, <1>3, <1>8, <2>2, <2>4, <2>5, <2>7, <2>8, <2>10, SessionSeen
<1> QED
  BY <1>6, <1>7, <1>8, SelectFacts

LEMMA UpdateStep ==
    ASSUME IndInv, NEW r \in Requests, Update(r)
    PROVE  IndInv'
<1> DEFINE session == req[r].session
           t == req[r].now
           mark == sessions[session]
           returned == Later(mark.returned, t)
<1>1. req[r].status = "updating" /\ DOMAIN req = Requests
  BY DEF Update, IndInv, RequestsInv
<1>2. req[r] \in SessionRequest
  BY <1>1 DEF IndInv, RequestsInv, Idle, LoginRequest
<1>3. session \in DOMAIN sessions /\ t \in Times
  BY <1>2 DEF SessionRequest
<1>4. sessions \in [DOMAIN sessions -> [made : Times, valid : Times, returned : Times]]
  BY DEF IndInv, RowsInv
<1>5. mark \in [made : Times, valid : Times, returned : Times]
  BY <1>3, <1>4
<1>6. {t, mark.valid, mark.returned, refreshMs} \subseteq Int /\ refreshMs > 0
  BY <1>3, <1>5, ConstantsAssumption DEF Times, StartTime
<1>7. Marked(session, mark.valid, returned)
  <2>1. sessions' = [sessions EXCEPT ![session].returned = Max({@, t})]
    BY DEF Update, Return
  <2>2. Max({mark.returned, t}) = returned
    BY <1>6, MaxOfTwo DEF Later
  <2> HIDE DEF session, t, returned
  <2>3. sessions' = [s \in DOMAIN sessions |->
            IF s = session THEN [mark EXCEPT !.returned = returned] ELSE sessions[s]]
    BY <1>3, <1>4, <2>1, <2>2
  <2>4. [mark EXCEPT !.returned = returned]
            = [made |-> mark.made, valid |-> mark.valid, returned |-> returned]
    BY <1>5
  <2> QED BY <1>3, <2>3, <2>4 DEF Marked
<1>8. loggedOut' = loggedOut /\ now' = now /\ clients' = clients
  BY DEF Update, limiterVars
<1>9. /\ DOMAIN req' = Requests /\ \A q \in Requests \ {r} : req'[q] = req[q]
      /\ req'[r] = [req[r] EXCEPT !.status = "accepted"]
  BY <1>1 DEF Update, Enter
<1>10. t <= mark.valid
  BY <1>1 DEF IndInv, SeenInv
<1>11. rows \in [DOMAIN rows -> [last_seen_at : Times, expires_at : Nat]]
  BY DEF IndInv, RowsInv
<1>12. /\ DOMAIN rows' = DOMAIN rows
       /\ rows' \in [DOMAIN rows -> [last_seen_at : Times, expires_at : Nat]]
       /\ \A s \in DOMAIN rows \ {session} : rows'[s] = rows[s]
  BY <1>3, <1>11 DEF Update
<1>13. ASSUME session \in DOMAIN rows
       PROVE  /\ rows'[session].expires_at = rows[session].expires_at
              /\ rows'[session].last_seen_at <= mark.valid
              /\ returned - refreshMs < rows'[session].last_seen_at
  <2>1. /\ rows[session].last_seen_at <= mark.valid
        /\ mark.returned - refreshMs < rows[session].last_seen_at
    BY <1>13 DEF IndInv, SeenInv
  <2>2. rows[session].last_seen_at \in Int
    BY <1>11, <1>13, ConstantsAssumption DEF Times, StartTime
  <2>3. CASE rows[session].last_seen_at < t
    <3>1. rows' = [rows EXCEPT ![session].last_seen_at = t]
      BY <1>13, <2>3 DEF Update
    <3>2. rows'[session].expires_at = rows[session].expires_at
          /\ rows'[session].last_seen_at = t
      BY <1>11, <1>13, <3>1
    <3> QED BY <1>6, <1>10, <2>1, <2>2, <2>3, <3>2 DEF Later
  <2>4. CASE ~(rows[session].last_seen_at < t)
    <3>1. rows' = rows
      BY <1>13, <2>4 DEF Update
    <3> QED BY <1>6, <2>1, <2>2, <2>4, <3>1 DEF Later
  <2> QED BY <2>3, <2>4
<1>14. mark.valid \in Times /\ returned \in Times /\ mark.valid <= mark.valid
  BY <1>3, <1>5, <1>6 DEF Later
<1> HIDE DEF returned
<1> QED BY <1>2, <1>7, <1>8, <1>9, <1>12, <1>13, <1>14, SessionSeen

-----------------------------------------------------------------------------
(* The theorems.                                                           *)

LEMMA StepKeepsInd == IndInv /\ [Next]_vars => IndInv'
<1> SUFFICES ASSUME IndInv, [Next]_vars PROVE IndInv'
  OBVIOUS
<1>1. CASE UNCHANGED vars
  BY <1>1 DEF vars, limiterVars, sessionVars, IndInv, TypeOK, RequestsInv, RowsInv, SeenInv,
              LateInv, SessionRequest
<1>2. CASE Next
  BY <1>2, LoginStep, QuietStep, DeletingStep, LoginInsertStep, SelectStep, UpdateStep DEF Next
<1> QED BY <1>1, <1>2

LEMMA Inductive == Spec => []IndInv
<1>1. Init => IndInv
  BY InitInd
<1>2. IndInv /\ [Next]_vars => IndInv'
  BY StepKeepsInd
<1> QED BY <1>1, <1>2, PTL DEF Spec

\* The variables hold what the classes and the table allow, whatever requests,
\* failures and restarts come.
THEOREM TypeCorrect == Spec => []TypeOK
<1>1. IndInv => TypeOK
  BY DEF IndInv
<1> QED BY <1>1, Inductive, PTL

\* Only Select decides about a request that was waiting for its row.
LEMMA OnlySelectDecides ==
    ASSUME IndInv, Next, NEW r \in Requests, req[r].status = "selecting",
           req'[r].status \in {"updating", "accepted", "rejecting"}
    PROVE  Select(r)
<1> USE DEF IndInv, RequestsInv
<1>0. DOMAIN req = Requests /\ req'[r] # req[r] /\ req'[r] # Idle /\ req[r] # Idle
  BY DEF Idle
<1>1. ASSUME NEW q \in Requests, NEW c \in Clients, NEW ok \in Passwords, LoginStart(q, c, ok)
      PROVE  FALSE
  BY <1>0, <1>1 DEF LoginStart
<1>2. ASSUME NEW q \in Requests, LoginFails(q) \/ LoginSucceeds(q) \/ LoginInsert(q)
      PROVE  FALSE
  BY <1>0, <1>2 DEF LoginFails, LoginSucceeds, LoginInsert, Leave, Enter
<1>3. ASSUME NEW q \in Requests, NEW s \in DOMAIN sessions,
             NEW p \in {"read", "logout", "logoutWrongCsrf"}, RequestStart(q, s, p)
      PROVE  FALSE
  BY <1>0, <1>3 DEF RequestStart
<1>4. ASSUME NEW q \in Requests,
             Update(q) \/ Reject(q) \/ Handle(q) \/ logout(q) \/ DatabaseFails(q)
      PROVE  FALSE
  BY <1>0, <1>4 DEF Update, Reject, Handle, logout, DatabaseFails, Leave, Enter
<1>5. ASSUME (\E t \in Times : cleanupExpired(t)) \/ Restart \/ Tick
      PROVE  FALSE
  BY <1>0, <1>5 DEF cleanupExpired, Restart, Tick
<1>6. ASSUME NEW q \in Requests, Select(q), q # r
      PROVE  FALSE
  BY <1>0, <1>6 DEF Select, Leave, Enter
<1> QED BY <1>1, <1>2, <1>3, <1>4, <1>5, <1>6 DEF Next

\* Rows are deleted for their age or by a request that has been decided on.
LEMMA OnlyTheseDelete ==
    ASSUME IndInv, Next, NEW s \in DOMAIN rows \ DOMAIN rows'
    PROVE  \/ \E t \in Times : cleanupExpired(t)
           \/ \E r \in Requests : /\ req[r].status \in {"rejecting", "accepted"}
                                  /\ req[r].session = s
<1>0. rows' # rows
  OBVIOUS
<1>1. ASSUME NEW q \in Requests, NEW c \in Clients, NEW ok \in Passwords, LoginStart(q, c, ok)
      PROVE  FALSE
  BY <1>0, <1>1 DEF LoginStart, sessionVars
<1>2. ASSUME NEW q \in Requests, LoginFails(q) \/ LoginSucceeds(q)
      PROVE  FALSE
  BY <1>0, <1>2 DEF LoginFails, LoginSucceeds, sessionVars
<1>3. ASSUME NEW q \in Requests, LoginInsert(q)
      PROVE  FALSE
  BY <1>3 DEF LoginInsert
<1>4. ASSUME NEW q \in Requests, NEW t \in DOMAIN sessions,
             NEW p \in {"read", "logout", "logoutWrongCsrf"}, RequestStart(q, t, p)
      PROVE  FALSE
  BY <1>0, <1>4 DEF RequestStart, sessionVars
<1>5. ASSUME NEW q \in Requests, Select(q) \/ Handle(q) \/ DatabaseFails(q)
      PROVE  FALSE
  BY <1>0, <1>5 DEF Select, Handle, DatabaseFails, sessionVars
<1>6. ASSUME NEW q \in Requests, Update(q)
      PROVE  FALSE
  BY <1>6 DEF Update
<1>7. ASSUME NEW q \in Requests, Reject(q) \/ logout(q)
      PROVE  req[q].status \in {"rejecting", "accepted"} /\ req[q].session = s
  BY <1>7 DEF Reject, logout, DeleteRow, Restrict
<1>8. ASSUME Restart \/ Tick
      PROVE  FALSE
  BY <1>0, <1>8 DEF Restart, Tick, sessionVars
<1> QED BY <1>1, <1>2, <1>3, <1>4, <1>5, <1>6, <1>7, <1>8 DEF Next

\* The integers that ages are computed from.
LEMMA RowNumbers ==
    ASSUME IndInv, NEW s \in DOMAIN rows
    PROVE  /\ s \in DOMAIN sessions
           /\ {rows[s].last_seen_at, rows[s].expires_at, sessions[s].made,
               sessions[s].valid, sessions[s].returned, now, idleMs, absoluteMs,
               refreshMs} \subseteq Int
           /\ rows[s].expires_at = sessions[s].made + absoluteMs
           /\ rows[s].last_seen_at <= sessions[s].valid
           /\ sessions[s].returned - refreshMs < rows[s].last_seen_at
<1>1. s \in DOMAIN sessions /\ now \in Int
  BY ConstantsAssumption DEF IndInv, TypeOK, Times, StartTime
<1>2. /\ rows[s] \in [last_seen_at : Times, expires_at : Nat]
      /\ sessions[s] \in [made : Times, valid : Times, returned : Times]
  BY <1>1 DEF IndInv, RowsInv
<1>3. {rows[s].last_seen_at, rows[s].expires_at, sessions[s].made,
       sessions[s].valid, sessions[s].returned, idleMs, absoluteMs, refreshMs} \subseteq Int
  BY <1>2, ConstantsAssumption DEF Times, StartTime
<1> QED BY <1>1, <1>3 DEF IndInv, SeenInv

LEMMA AcceptedStep == IndInv /\ [Next]_vars => [AcceptedOnlyAlive]_vars
<1> SUFFICES ASSUME IndInv, Next, NEW r \in Requests, req[r].status = "selecting",
                    req'[r].status \in {"updating", "accepted"}
             PROVE  LET session == sessions[req[r].session]
                    IN  /\ req[r].now < session.made + absoluteMs
                        /\ req[r].now < session.valid + idleMs
                        /\ ~req[r].late
  BY DEF AcceptedOnlyAlive
<1> DEFINE s == req[r].session
<1>1. Select(r)
  BY OnlySelectDecides
<1>2. req[r] \in SessionRequest
  BY <1>1, SelectFacts
<1>3. s \in DOMAIN rows /\ ~TooOld(rows[s], req[r].now)
  <2>1. [req[r] EXCEPT !.status = "rejecting"].status = "rejecting" /\ Idle.status = "idle"
    BY <1>2 DEF SessionRequest, Idle
  <2> QED BY <1>1, <2>1, SelectFacts
<1>4. req[r].now \in Int
  BY <1>2, ConstantsAssumption DEF SessionRequest, Times, StartTime
<1>5. ~req[r].late
  BY <1>2, <1>3 DEF IndInv, LateInv, TypeOK
<1> HIDE DEF s
<1>6. req[r].now < sessions[s].made + absoluteMs /\ req[r].now < sessions[s].valid + idleMs
  BY <1>3, <1>4, RowNumbers DEF TooOld
<1> QED BY <1>5, <1>6 DEF s

LEMMA SurvivalStep == IndInv /\ [Next]_vars => [UsedSessionSurvives]_vars
<1> SUFFICES ASSUME IndInv, Next PROVE UsedSessionSurvives
  OBVIOUS
<1>1. ASSUME NEW r \in Requests, req[r].status = "selecting", req'[r].status = "rejecting"
      PROVE  Lapsed(sessions[req[r].session], req[r].now)
  <2> DEFINE s == req[r].session
  <2>1. Select(r)
    BY <1>1, OnlySelectDecides
  <2>2. req[r] \in SessionRequest
    BY <2>1, SelectFacts
  <2>3. s \in DOMAIN rows /\ TooOld(rows[s], req[r].now)
    <3>1. /\ [req[r] EXCEPT !.status = "updating"].status = "updating"
          /\ [req[r] EXCEPT !.status = "accepted"].status = "accepted"
          /\ Idle.status = "idle"
      BY <2>2 DEF SessionRequest, Idle
    <3> QED BY <1>1, <2>1, <3>1, SelectFacts
  <2>4. req[r].now \in Int
    BY <2>2, ConstantsAssumption DEF SessionRequest, Times, StartTime
  <2> HIDE DEF s
  <2>5. Lapsed(sessions[s], req[r].now)
    BY <2>3, <2>4, RowNumbers DEF TooOld, Lapsed
  <2> QED BY <2>5 DEF s
<1>2. ASSUME NEW s \in DOMAIN rows \ DOMAIN rows', NEW t \in Times, cleanupExpired(t)
      PROVE  Lapsed(sessions[s], now)
  <2>1. Outdated(rows[s], t) /\ t <= now
    BY <1>2 DEF cleanupExpired, Restrict
  <2>2. t \in Int
    BY ConstantsAssumption DEF Times, StartTime
  <2> QED BY <2>1, <2>2, RowNumbers DEF Outdated, Lapsed
<1> QED BY <1>1, <1>2, OnlyTheseDelete DEF UsedSessionSurvives

\* A session is accepted only while it is alive and is never lost while it is in
\* use, however the statements of the requests of authenticate, logout and
\* cleanupExpired interleave, fail, or are cut off by a restart.
THEOREM SessionsAlwaysLast == Spec => SessionsLastAsPromised
<1>1. IndInv /\ [Next]_vars => [AcceptedOnlyAlive /\ UsedSessionSurvives]_vars
  BY AcceptedStep, SurvivalStep
<1> QED BY <1>1, Inductive, PTL DEF Spec, SessionsLastAsPromised

-----------------------------------------------------------------------------
(* Guessing passwords is limited.  What holds of the counter of one client *)
(* and of the one of all clients is the same: it is stated of a state of   *)
(* the limiter, the history of the failures it counted, and the start      *)
(* times of the requests it let in that are still hashing.                 *)
(*                                                                         *)
(* A counter that is pruned may be started again as of the start of a      *)
(* login that is still hashing.  The slack d is how far back that can be:  *)
(* MaxHash for a client, 0 for the counter of all clients, which is never  *)
(* pruned.  The stretch is a window less twice the slack.                  *)

Slack == {0, MaxHash}

Stretch(d) == WINDOW_MS - 2 * d

InStretch(d, u, t) == t <= u /\ u < t + Stretch(d)

Tried(d, history, t) == Cardinality(FailuresFrom(history, t, Stretch(d)))

Trying(d, starts, t) == Cardinality({r \in DOMAIN starts : InStretch(d, starts[r], t)})

\* The stretch from t on is open while more requests of it can be let in.  Then
\* the failures in it are those of at most two counting windows, the second of
\* which started in it, or at most the slack before.  Afterwards only the
\* requests that were let in can add to them.
Within(d, state, limit, tried, trying, t, clock) ==
    IF clock < t + Stretch(d) /\ state.blockedUntil < t + Stretch(d)
    THEN tried <= (IF state.windowStartedAt >= t - d THEN limit - 1 ELSE 0)
                  + (IF state.failures < limit THEN state.failures ELSE limit - 1)
    ELSE tried + trying <= 2 * (limit - 1) + Cardinality(Requests)

LimiterState(limit) ==
    [failures : 0..limit, windowStartedAt : Nat, blockedUntil : Nat]

Tracked(d, state, limit, history, starts, clock) ==
    /\ state \in LimiterState(limit)
    /\ \A u \in Times : u > clock => history[u] = 0
    /\ \A r \in DOMAIN starts : starts[r] < state.windowStartedAt + WINDOW_MS
    /\ \A t \in Times :
          /\ IsFiniteSet(FailuresFrom(history, t, Stretch(d)))
          /\ Within(d, state, limit, Tried(d, history, t), Trying(d, starts, t), t, clock)

\* Start times of requests that are hashing.
Starts == UNION {[S -> Times] : S \in SUBSET Requests}

Added(starts, r, u) ==
    [q \in DOMAIN starts \union {r} |-> IF q = r THEN u ELSE starts[q]]

-----------------------------------------------------------------------------
\* The smaller of two numbers.
LEMMA MinOfTwo ==
    ASSUME NEW a \in Int, NEW b \in Int
    PROVE  Min({a, b}) = IF a <= b THEN a ELSE b
<1>1. \E x \in {a, b} : \A y \in {a, b} : x <= y
  OBVIOUS
<1>2. /\ Min({a, b}) \in {a, b}
      /\ \A y \in {a, b} : Min({a, b}) <= y
  BY <1>1 DEF Min
<1> QED BY <1>2

LEMMA TimesAreNat ==
    /\ Times \subseteq Nat /\ WINDOW_MS \in Nat \ {0}
    /\ MaxHash \in Nat /\ MaxHash < WINDOW_MS
    /\ 0 \in Slack /\ MaxHash \in Slack /\ Slack \subseteq Nat
  BY ConstantsAssumption, LimiterAssumption DEF Times, StartTime, Slack

LEMMA FailureElements ==
    ASSUME NEW d \in Slack, NEW H \in [Times -> Nat], NEW t \in Times, NEW x
    PROVE  x \in FailuresFrom(H, t, Stretch(d))
           <=> \E u \in Times : InStretch(d, u, t) /\ x \in {u} \X (1..H[u])
  BY DEF FailuresFrom, InStretch

\* One more failure counts in the stretches it started in.
LEMMA FailureAdded ==
    ASSUME NEW d \in Slack, NEW H \in [Times -> Nat], NEW t \in Times, NEW u \in Times,
           IsFiniteSet(FailuresFrom(H, t, Stretch(d))),
           NEW H2 \in [Times -> Nat], H2[u] = H[u] + 1, \A v \in Times \ {u} : H2[v] = H[v]
    PROVE  /\ IsFiniteSet(FailuresFrom(H2, t, Stretch(d)))
           /\ Tried(d, H, t) \in Nat
           /\ Tried(d, H2, t) = IF InStretch(d, u, t) THEN Tried(d, H, t) + 1 ELSE Tried(d, H, t)
<1> DEFINE last == <<u, H[u] + 1>>
<1>1. H2 \in [Times -> Nat] /\ H2[u] = H[u] + 1 /\ \A v \in Times \ {u} : H2[v] = H[v]
  OBVIOUS
<1>2. 1..H[u] + 1 = (1..H[u]) \union {H[u] + 1} /\ H[u] + 1 \notin 1..H[u]
  OBVIOUS
<1>3. CASE InStretch(d, u, t)
  <2>1. last \notin FailuresFrom(H, t, Stretch(d))
    <3> SUFFICES ASSUME last \in FailuresFrom(H, t, Stretch(d)) PROVE FALSE
      OBVIOUS
    <3>1. PICK v \in Times : last \in {v} \X (1..H[v])
      BY FailureElements
    <3> QED BY <1>2, <3>1
  <2>2. FailuresFrom(H2, t, Stretch(d)) = FailuresFrom(H, t, Stretch(d)) \union {last}
    <3>1. ASSUME NEW x \in FailuresFrom(H2, t, Stretch(d))
          PROVE  x \in FailuresFrom(H, t, Stretch(d)) \union {last}
      <4>1. PICK v \in Times : InStretch(d, v, t) /\ x \in {v} \X (1..H2[v])
        BY <1>1, FailureElements
      <4>2. CASE v = u
        <5>1. x \in {u} \X (1..H[u]) \/ x = last
          BY <1>1, <1>2, <4>1, <4>2
        <5> QED BY <4>1, <4>2, <5>1, FailureElements
      <4>3. CASE v # u
        BY <1>1, <4>1, <4>3, FailureElements
      <4> QED BY <4>2, <4>3
    <3>2. ASSUME NEW x \in FailuresFrom(H, t, Stretch(d))
          PROVE  x \in FailuresFrom(H2, t, Stretch(d))
      <4>1. PICK v \in Times : InStretch(d, v, t) /\ x \in {v} \X (1..H[v])
        BY FailureElements
      <4>2. x \in {v} \X (1..H2[v])
        BY <1>1, <1>2, <4>1
      <4> QED BY <1>1, <4>1, <4>2, FailureElements
    <3>3. last \in FailuresFrom(H2, t, Stretch(d))
      <4>1. last \in {u} \X (1..H2[u])
        BY <1>1, <1>2
      <4> QED BY <1>1, <1>3, <4>1, FailureElements
    <3> QED BY <3>1, <3>2, <3>3
  <2> HIDE DEF last
  <2>3. /\ IsFiniteSet(FailuresFrom(H2, t, Stretch(d))) /\ Tried(d, H, t) \in Nat
        /\ Tried(d, H2, t) = Tried(d, H, t) + 1
    BY <2>1, <2>2, FS_AddElement, FS_CardinalityType DEF Tried
  <2> QED BY <1>3, <2>3
<1>4. CASE ~InStretch(d, u, t)
  <2>1. FailuresFrom(H2, t, Stretch(d)) = FailuresFrom(H, t, Stretch(d))
    <3>1. \A v \in Times : InStretch(d, v, t) => H2[v] = H[v]
      BY <1>1, <1>4
    <3>2. \A x : x \in FailuresFrom(H2, t, Stretch(d)) <=> x \in FailuresFrom(H, t, Stretch(d))
      BY <1>1, <3>1, FailureElements
    <3> QED BY <3>2
  <2> QED BY <1>1, <1>4, <2>1, FS_CardinalityType DEF Tried
<1> QED BY <1>3, <1>4

\* Nothing failed yet in a stretch of the future, or without a history.
LEMMA NothingTried ==
    ASSUME NEW d \in Slack, NEW H \in [Times -> Nat], NEW t \in Times,
           \A u \in Times : InStretch(d, u, t) => H[u] = 0
    PROVE  IsFiniteSet(FailuresFrom(H, t, Stretch(d))) /\ Tried(d, H, t) = 0
<1>1. FailuresFrom(H, t, Stretch(d)) = {}
  <2> SUFFICES ASSUME NEW x \in FailuresFrom(H, t, Stretch(d)) PROVE FALSE
    OBVIOUS
  <2>1. PICK u \in Times : InStretch(d, u, t) /\ x \in {u} \X (1..H[u])
    BY FailureElements
  <2> QED BY <2>1
<1> QED BY <1>1, FS_EmptySet DEF Tried

\* A request let in counts in the stretches it starts in, and no more once it
\* has failed.
LEMMA TryingBounds ==
    ASSUME NEW d \in Slack, NEW S \in Starts, NEW t \in Times
    PROVE  /\ Cardinality(Requests) \in Nat
           /\ Trying(d, S, t) \in 0..Cardinality(Requests)
<1> DEFINE T == {r \in DOMAIN S : InStretch(d, S[r], t)}
<1>1. T \subseteq Requests
  BY DEF Starts
<1> HIDE DEF T
<1>2. IsFiniteSet(T) /\ Cardinality(T) <= Cardinality(Requests)
  BY <1>1, LimiterAssumption, FS_Subset
<1>3. Cardinality(T) \in Nat /\ Cardinality(Requests) \in Nat
  BY <1>2, LimiterAssumption, FS_CardinalityType
<1> QED BY <1>2, <1>3 DEF Trying, T

LEMMA TryingLess ==
    ASSUME NEW d \in Slack, NEW S \in Starts, NEW t \in Times, NEW r \in DOMAIN S
    PROVE  LET S2 == Restrict(S, DOMAIN S \ {r})
           IN  /\ S2 \in Starts
               /\ Trying(d, S, t) = IF InStretch(d, S[r], t) THEN Trying(d, S2, t) + 1 ELSE Trying(d, S2, t)
<1> DEFINE S2 == Restrict(S, DOMAIN S \ {r})
           T == {q \in DOMAIN S : InStretch(d, S[q], t)}
           T2 == {q \in DOMAIN S2 : InStretch(d, S2[q], t)}
<1>1. DOMAIN S2 = DOMAIN S \ {r} /\ \A q \in DOMAIN S2 : S2[q] = S[q]
  BY DEF Restrict
<1>2. DOMAIN S \subseteq Requests /\ \A q \in DOMAIN S : S[q] \in Times
  BY DEF Starts
<1>3. S2 \in [DOMAIN S \ {r} -> Times]
  BY <1>2 DEF Restrict
<1>4. S2 \in Starts
  BY <1>2, <1>3 DEF Starts
<1> HIDE DEF S2
<1>5. T2 = T \ {r} /\ T \subseteq Requests /\ (r \in T <=> InStretch(d, S[r], t))
  BY <1>1, <1>2
<1>6. Trying(d, S, t) = Cardinality(T) /\ Trying(d, S2, t) = Cardinality(T2)
  BY DEF Trying
<1> HIDE DEF T, T2
<1>7. IsFiniteSet(T)
  BY <1>5, LimiterAssumption, FS_Subset
<1>8. CASE r \in T
  <2>1. Cardinality(T2) = Cardinality(T) - 1 /\ Cardinality(T) \in Nat
    BY <1>5, <1>7, <1>8, FS_RemoveElement, FS_CardinalityType
  <2> QED BY <1>4, <1>5, <1>6, <1>8, <2>1 DEF S2
<1>9. CASE r \notin T
  <2>1. T2 = T
    BY <1>5, <1>9
  <2> QED BY <1>4, <1>5, <1>6, <1>9, <2>1 DEF S2
<1> QED BY <1>8, <1>9

LEMMA TryingMore ==
    ASSUME NEW d \in Slack, NEW S \in Starts, NEW t \in Times, NEW r \in Requests \ DOMAIN S, NEW u \in Times
    PROVE  LET S2 == Added(S, r, u)
           IN  /\ S2 \in Starts
               /\ Trying(d, S2, t) = IF InStretch(d, u, t) THEN Trying(d, S, t) + 1 ELSE Trying(d, S, t)
<1> DEFINE S2 == [q \in DOMAIN S \union {r} |-> IF q = r THEN u ELSE S[q]]
<1>1. DOMAIN S \subseteq Requests /\ \A q \in DOMAIN S : S[q] \in Times
  BY DEF Starts
<1>2. S2 \in [DOMAIN S \union {r} -> Times]
  BY <1>1
<1>3. S2 \in Starts /\ r \in DOMAIN S2 /\ S2[r] = u
  BY <1>1, <1>2 DEF Starts
<1>4. Restrict(S2, DOMAIN S2 \ {r}) = S
  <2>1. DOMAIN S2 \ {r} = DOMAIN S /\ \A q \in DOMAIN S : S2[q] = S[q]
    OBVIOUS
  <2>2. S = [q \in DOMAIN S |-> S[q]]
    BY DEF Starts
  <2> HIDE DEF S2
  <2> QED BY <2>1, <2>2 DEF Restrict
<1> HIDE DEF S2
<1> QED BY <1>3, <1>4, TryingLess DEF S2, Added

-----------------------------------------------------------------------------
(* What each step does to a counter.                                       *)

\* Counting starts over: at the first login, or after a success or a restart.
LEMMA FreshTracked ==
    ASSUME NEW d \in Slack, NEW limit \in Nat \ {0}, NEW S \in Starts, NEW clock \in Nat, NEW w \in Nat,
           \A r \in DOMAIN S : S[r] < w + WINDOW_MS
    PROVE  Tracked(d, emptyState(w), limit, NoGuesses, S, clock)
<1>1. NoGuesses \in [Times -> Nat] /\ \A u \in Times : NoGuesses[u] = 0
  BY DEF NoGuesses
<1>2. emptyState(w) \in LimiterState(limit) /\ emptyState(w).windowStartedAt = w
  BY DEF emptyState, LimiterState
<1>3. ASSUME NEW t \in Times
      PROVE  /\ IsFiniteSet(FailuresFrom(NoGuesses, t, Stretch(d)))
             /\ Within(d, emptyState(w), limit, Tried(d, NoGuesses, t), Trying(d, S, t), t, clock)
  <2>1. IsFiniteSet(FailuresFrom(NoGuesses, t, Stretch(d))) /\ Tried(d, NoGuesses, t) = 0
    BY <1>1, NothingTried
  <2> QED BY <2>1, TryingBounds DEF Within, emptyState
<1> QED BY <1>1, <1>2, <1>3 DEF Tracked

\* Counting starts over for a client that was pruned: at the start of a login
\* that is still hashing.
LEMMA PrunedTracked ==
    ASSUME NEW limit \in Nat \ {0}, NEW state, NEW H \in [Times -> Nat], NEW S \in Starts,
           NEW clock \in Nat, Tracked(MaxHash, state, limit, H, S, clock),
           Expired(state, clock), NEW w \in Times, clock <= w + MaxHash,
           \A r \in DOMAIN S : S[r] < w + WINDOW_MS
    PROVE  Tracked(MaxHash, emptyState(w), limit, H, S, clock)
<1> DEFINE d == MaxHash
<1>0. /\ state.failures \in 0..limit /\ state.windowStartedAt \in Nat
      /\ state.blockedUntil \in Nat /\ w \in Nat /\ d \in Slack /\ d \in Nat
  BY TimesAreNat DEF Tracked, LimiterState
<1>1. emptyState(w) \in LimiterState(limit) /\ emptyState(w).windowStartedAt = w
  BY <1>0 DEF emptyState, LimiterState
<1> HIDE DEF d
<1>2. ASSUME NEW t \in Times
      PROVE  Within(d, emptyState(w), limit, Tried(d, H, t), Trying(d, S, t), t, clock)
  <2>1. Within(d, state, limit, Tried(d, H, t), Trying(d, S, t), t, clock)
    BY DEF Tracked, d
  <2>2. Tried(d, H, t) \in Nat
    BY FS_CardinalityType DEF Tracked, Tried, d
  <2>3. CASE clock < t
    <3>1. \A u \in Times : InStretch(d, u, t) => H[u] = 0
      BY <2>3, TimesAreNat DEF InStretch, Tracked
    <3>2. Tried(d, H, t) = 0
      BY <1>0, <3>1, NothingTried
    <3> QED BY <1>0, <3>2, TryingBounds DEF Within, emptyState
  <2>4. CASE clock >= t
    <3>1. w >= t - d
      BY <1>0, <2>4, TimesAreNat DEF d
    <3> QED BY <1>0, <2>1, <2>2, <2>4, <3>1, TryingBounds, TimesAreNat
            DEF Within, Stretch, emptyState, Expired
  <2> QED BY <2>3, <2>4, TimesAreNat
<1> QED BY <1>1, <1>2 DEF Tracked, d

\* Time passes: a stretch closes with the failures of two windows at most.
LEMMA TickTracked ==
    ASSUME NEW d \in Slack, NEW limit \in Nat \ {0}, NEW state, NEW H \in [Times -> Nat], NEW S \in Starts,
           NEW clock \in Nat, Tracked(d, state, limit, H, S, clock)
    PROVE  Tracked(d, state, limit, H, S, clock + 1)
<1>1. ASSUME NEW t \in Times
      PROVE  Within(d, state, limit, Tried(d, H, t), Trying(d, S, t), t, clock + 1)
  <2>1. Tried(d, H, t) \in Nat
    BY FS_CardinalityType DEF Tracked, Tried
  <2>2. Within(d, state, limit, Tried(d, H, t), Trying(d, S, t), t, clock)
    BY DEF Tracked
  <2>3. /\ state.failures \in 0..limit /\ state.windowStartedAt \in Nat
        /\ state.blockedUntil \in Nat
    BY DEF Tracked, LimiterState
  <2> QED BY <2>1, <2>2, <2>3, TryingBounds, TimesAreNat DEF Within, Stretch
<1>2. \A u \in Times : u > clock + 1 => u > clock
  BY TimesAreNat
<1> QED BY <1>1, <1>2 DEF Tracked

\* A login comes in and the counter is normalized.
LEMMA NormalizeTracked ==
    ASSUME NEW d \in Slack, NEW limit \in Nat \ {0}, NEW state, NEW H \in [Times -> Nat], NEW S \in Starts,
           NEW clock \in Nat, Tracked(d, state, limit, H, S, clock),
           \A r \in DOMAIN S : S[r] <= clock
    PROVE  /\ Tracked(d, normalize(state, clock), limit, H, S, clock)
           /\ LET state2 == normalize(state, clock)
              IN  state2.blockedUntil <= clock => clock < state2.windowStartedAt + WINDOW_MS
<1>0. /\ state.failures \in 0..limit /\ state.windowStartedAt \in Nat
      /\ state.blockedUntil \in Nat
  BY DEF Tracked, LimiterState
<1>1. CASE normalize(state, clock) = state /\ ~(state.windowStartedAt + WINDOW_MS <= clock
                                                /\ state.blockedUntil <= clock)
  BY <1>0, <1>1, TimesAreNat
<1>2. CASE normalize(state, clock) = emptyState(clock) /\ state.blockedUntil <= clock
           /\ state.windowStartedAt + WINDOW_MS <= clock
  <2>1. emptyState(clock) \in LimiterState(limit) /\ emptyState(clock).windowStartedAt = clock
    BY DEF emptyState, LimiterState
  <2>2. \A r \in DOMAIN S : S[r] < clock + WINDOW_MS
    <3> SUFFICES ASSUME NEW r \in DOMAIN S PROVE S[r] < clock + WINDOW_MS
      OBVIOUS
    <3>1. S[r] \in Times /\ S[r] <= clock
      BY DEF Starts
    <3>2. S[r] \in Nat
      BY <3>1, TimesAreNat
    <3> QED BY <3>1, <3>2, TimesAreNat
  <2>3. ASSUME NEW t \in Times
        PROVE  Within(d, emptyState(clock), limit, Tried(d, H, t), Trying(d, S, t), t, clock)
    <3>1. Within(d, state, limit, Tried(d, H, t), Trying(d, S, t), t, clock)
      BY DEF Tracked
    <3>2. Tried(d, H, t) \in Nat
      BY FS_CardinalityType DEF Tracked, Tried
    <3>3. CASE clock < t
      <4>1. \A u \in Times : InStretch(d, u, t) => H[u] = 0
        BY <3>3, TimesAreNat DEF InStretch, Tracked
      <4>2. Tried(d, H, t) = 0
        BY <4>1, NothingTried
      <4> QED BY <4>2, TryingBounds DEF Within, emptyState
    <3>4. CASE clock >= t
      BY <1>0, <1>2, <3>1, <3>2, <3>4, TryingBounds, TimesAreNat DEF Within, Stretch, emptyState
    <3> QED BY <3>3, <3>4, TimesAreNat
  <2>4. Tracked(d, emptyState(clock), limit, H, S, clock)
    BY <2>1, <2>2, <2>3 DEF Tracked
  <2> QED BY <1>2, <2>1, <2>4, TimesAreNat
<1> QED BY <1>1, <1>2 DEF normalize

\* The login is let in, which only happens while no block lasts.
LEMMA LetInTracked ==
    ASSUME NEW d \in Slack, NEW limit \in Nat \ {0}, NEW state, NEW H \in [Times -> Nat], NEW S \in Starts,
           NEW clock \in Times, Tracked(d, state, limit, H, S, clock),
           NEW r \in Requests \ DOMAIN S,
           state.blockedUntil <= clock, clock < state.windowStartedAt + WINDOW_MS
    PROVE  Tracked(d, state, limit, H, Added(S, r, clock), clock)
<1> DEFINE S2 == Added(S, r, clock)
<1>0. state.blockedUntil \in Nat /\ clock \in Nat
  BY TimesAreNat DEF Tracked, LimiterState
<1>1. \A q \in DOMAIN S2 : S2[q] < state.windowStartedAt + WINDOW_MS
  BY DEF Tracked, Added
<1>2. S2 \in Starts
        /\ \A t \in Times : Trying(d, S2, t) = IF InStretch(d, clock, t) THEN Trying(d, S, t) + 1 ELSE Trying(d, S, t)
  BY TryingMore
<1> HIDE DEF S2
<1>3. ASSUME NEW t \in Times
      PROVE  Within(d, state, limit, Tried(d, H, t), Trying(d, S2, t), t, clock)
  <2>1. Within(d, state, limit, Tried(d, H, t), Trying(d, S, t), t, clock)
    BY DEF Tracked
  <2>2. CASE InStretch(d, clock, t)
    BY <1>0, <2>1, <2>2, TimesAreNat DEF Within, Stretch, InStretch
  <2>3. CASE ~InStretch(d, clock, t)
    BY <1>2, <2>1, <2>3
  <2> QED BY <2>2, <2>3
<1>4. Tracked(d, state, limit, H, S2, clock)
  BY <1>1, <1>3 DEF Tracked
<1> QED BY <1>4 DEF S2

\* The password was wrong: the failure moves from the requests to the history.
\* At the limit it closes every stretch it started in.
LEMMA FailTracked ==
    ASSUME NEW d \in Slack, NEW limit \in Nat \ {0}, NEW blockMs \in Nat, blockMs >= WINDOW_MS,
           NEW state, NEW H \in [Times -> Nat], NEW S \in Starts,
           NEW clock \in Nat, Tracked(d, state, limit, H, S, clock),
           NEW r \in DOMAIN S, S[r] <= clock
    PROVE  Tracked(d, increment(normalize(state, S[r]), limit, blockMs, S[r]), limit,
                   [H EXCEPT ![S[r]] = @ + 1], Restrict(S, DOMAIN S \ {r}), clock)
<1> DEFINE u == S[r]
           state2 == increment(state, limit, blockMs, u)
           H2 == [H EXCEPT ![u] = @ + 1]
           S2 == Restrict(S, DOMAIN S \ {r})
<1>0. /\ state \in LimiterState(limit) /\ state.failures \in 0..limit
      /\ state.windowStartedAt \in Nat /\ state.blockedUntil \in Nat
  BY DEF Tracked, LimiterState
<1>1. u \in Times /\ u \in Nat /\ u < state.windowStartedAt + WINDOW_MS
  <2>1. u \in Times
    BY DEF Starts
  <2>2. u < state.windowStartedAt + WINDOW_MS
    BY DEF Tracked
  <2> QED BY <2>1, <2>2, TimesAreNat
<1>2. normalize(state, u) = state
  BY <1>0, <1>1, TimesAreNat DEF normalize
<1> HIDE DEF u
<1>3. /\ state2 \in LimiterState(limit)
      /\ state2.windowStartedAt = state.windowStartedAt
      /\ \/ /\ state.failures + 1 < limit /\ state2.failures = state.failures + 1
            /\ state2.blockedUntil = state.blockedUntil
         \/ /\ state.failures + 1 >= limit /\ state2.failures = limit
            /\ state2.blockedUntil >= state.blockedUntil
            /\ state2.blockedUntil >= u + WINDOW_MS
  <2> DEFINE f == Min({state.failures + 1, limit})
             m == Max({state.blockedUntil, u + blockMs})
             b == IF f >= limit THEN m ELSE state.blockedUntil
  <2>1. f = IF state.failures + 1 <= limit THEN state.failures + 1 ELSE limit
    BY <1>0, MinOfTwo
  <2>2. m = IF state.blockedUntil >= u + blockMs THEN state.blockedUntil ELSE u + blockMs
    BY <1>0, <1>1, MaxOfTwo
  <2>3. state2 = [state EXCEPT !.failures = f, !.blockedUntil = b]
    BY DEF increment
  <2> HIDE DEF f, m, state2
  <2>4. m \in Nat /\ m >= state.blockedUntil /\ m >= u + WINDOW_MS
    BY <1>0, <1>1, <2>2, TimesAreNat
  <2>5. f \in 0..limit /\ b \in Nat
    BY <1>0, <2>1, <2>4
  <2> HIDE DEF b
  <2>6. /\ state2 \in LimiterState(limit) /\ state2.failures = f /\ state2.blockedUntil = b
        /\ state2.windowStartedAt = state.windowStartedAt
    BY <1>0, <2>3, <2>5 DEF LimiterState
  <2> QED BY <1>0, <2>1, <2>4, <2>6 DEF b
<1> HIDE DEF state2, H2
<1>4. \A v \in Times : v > clock => H2[v] = 0
  <2> SUFFICES ASSUME NEW v \in Times, v > clock PROVE H2[v] = 0
    OBVIOUS
  <2>1. H[v] = 0 /\ v # u
    BY <1>1, TimesAreNat DEF Tracked, u
  <2> QED BY <1>1, <2>1 DEF H2
<1>5. \A q \in DOMAIN S2 : S2[q] < state2.windowStartedAt + WINDOW_MS
  BY <1>3 DEF Restrict, Tracked
<1>6. ASSUME NEW t \in Times
      PROVE  /\ IsFiniteSet(FailuresFrom(H2, t, Stretch(d)))
             /\ Within(d, state2, limit, Tried(d, H2, t), Trying(d, S2, t), t, clock)
  <2>1. /\ IsFiniteSet(FailuresFrom(H2, t, Stretch(d))) /\ Tried(d, H, t) \in Nat
        /\ Tried(d, H2, t) = IF InStretch(d, u, t) THEN Tried(d, H, t) + 1 ELSE Tried(d, H, t)
    <3>1. IsFiniteSet(FailuresFrom(H, t, Stretch(d)))
      BY DEF Tracked
    <3>2. H2 \in [Times -> Nat] /\ H2[u] = H[u] + 1 /\ \A v \in Times \ {u} : H2[v] = H[v]
      BY <1>1 DEF H2
    <3> QED BY <1>1, <3>1, <3>2, FailureAdded
  <2>2. /\ S2 \in Starts
        /\ Trying(d, S, t) = IF InStretch(d, u, t) THEN Trying(d, S2, t) + 1 ELSE Trying(d, S2, t)
    BY TryingLess DEF u
  <2> HIDE DEF S2
  <2>3. Within(d, state, limit, Tried(d, H, t), Trying(d, S, t), t, clock)
    BY DEF Tracked
  <2>4. /\ Cardinality(Requests) \in Nat /\ Trying(d, S, t) \in 0..Cardinality(Requests)
        /\ Trying(d, S2, t) \in 0..Cardinality(Requests) /\ t \in Nat /\ WINDOW_MS \in Nat
        /\ state2.failures \in 0..limit /\ state2.windowStartedAt \in Nat
        /\ state2.blockedUntil \in Nat /\ d \in Nat
    BY <1>3, <2>2, TryingBounds, TimesAreNat DEF LimiterState
  <2>5. Within(d, state2, limit, Tried(d, H2, t), Trying(d, S2, t), t, clock)
    <3> DEFINE a == Tried(d, H, t)
               b == Trying(d, S2, t)
               m == Cardinality(Requests)
    <3>1. a \in Nat /\ b \in Nat /\ m \in Nat
      BY <2>1, <2>4
    <3>2. CASE InStretch(d, u, t)
      <4>1. Tried(d, H2, t) = a + 1 /\ Trying(d, S, t) = b + 1
        BY <2>1, <2>2, <3>2
      <4>2. Within(d, state, limit, a, b + 1, t, clock) /\ b + 1 <= m
        BY <2>3, <2>4, <4>1
      <4> HIDE DEF a, b, m
      <4>3. Within(d, state2, limit, a + 1, b, t, clock)
        BY <1>0, <1>1, <1>3, <2>4, <3>1, <3>2, <4>2 DEF Within, Stretch, InStretch, m
      <4> QED BY <4>1, <4>3 DEF b
    <3>3. CASE ~InStretch(d, u, t)
      <4>1. Tried(d, H2, t) = a /\ Trying(d, S, t) = b
        BY <2>1, <2>2, <3>3
      <4>2. Within(d, state, limit, a, b, t, clock) /\ b <= m
        BY <2>3, <2>4, <4>1
      <4> HIDE DEF a, b, m
      <4>3. Within(d, state2, limit, a, b, t, clock)
        BY <1>0, <1>1, <1>3, <2>4, <3>1, <4>2 DEF Within, Stretch, m
      <4> QED BY <4>1, <4>3 DEF b
    <3> QED BY <3>2, <3>3
  <2> QED BY <2>1, <2>5
<1>7. Tracked(d, state2, limit, H2, S2, clock)
  BY <1>3, <1>4, <1>5, <1>6 DEF Tracked
<1> QED BY <1>2, <1>7 DEF state2, H2, u

-----------------------------------------------------------------------------
(* The counters of the limiter.                                            *)

AllStarts == [r \in {q \in Requests : req[q].status = "hashing"} |-> req[r].now]

OwnStarts(c) ==
    [r \in {q \in Requests : req[q].status = "hashing" /\ req[q].client = c} |-> req[r].now]

\* A client without a counter has failed at nothing, or its last counter was
\* pruned, when it had expired.
Forgotten(history, starts, clock) ==
    \/ history = NoGuesses
    \/ \E state \in LimiterState(CLIENT_FAILURE_LIMIT) :
          /\ Tracked(MaxHash, state, CLIENT_FAILURE_LIMIT, history, starts, clock)
          /\ Expired(state, clock)

GuessInv ==
    /\ guesses \in [own : [Clients -> [Times -> Nat]], all : [Times -> Nat]]
    /\ \A r \in Requests : req[r].status = "hashing" =>
                              req[r].now <= now /\ now <= req[r].now + MaxHash
    /\ Tracked(0, global, GLOBAL_FAILURE_LIMIT, guesses.all, AllStarts, now)
    /\ \A c \in DOMAIN clients :
          Tracked(MaxHash, clients[c], CLIENT_FAILURE_LIMIT, guesses.own[c], OwnStarts(c), now)
    /\ \A c \in Clients \ DOMAIN clients : Forgotten(guesses.own[c], OwnStarts(c), now)

\* A request that is hashing started at most MaxHash ago.
LEMMA HashingRequest ==
    ASSUME IndInv, NEW r \in Requests, req[r].status = "hashing"
    PROVE  /\ req[r] \in LoginRequest /\ req[r] # Idle
           /\ req[r].now \in Times /\ req[r].client \in Clients
  BY DEF IndInv, RequestsInv, Idle, LoginRequest, SessionRequest

LEMMA StartsType ==
    IndInv => AllStarts \in Starts /\ \A c : OwnStarts(c) \in Starts
<1> SUFFICES ASSUME IndInv
             PROVE  AllStarts \in Starts /\ \A c : OwnStarts(c) \in Starts
  OBVIOUS
<1>1. AllStarts \in [{q \in Requests : req[q].status = "hashing"} -> Times]
  BY HashingRequest DEF AllStarts
<1>2. ASSUME NEW c
      PROVE  OwnStarts(c) \in Starts
  <2> DEFINE T == {q \in Requests : req[q].status = "hashing" /\ req[q].client = c}
  <2>1. OwnStarts(c) \in [T -> Times]
    BY HashingRequest DEF OwnStarts
  <2> HIDE DEF T
  <2>2. T \in SUBSET Requests
    BY DEF T
  <2> QED BY <2>1, <2>2 DEF Starts
<1>3. AllStarts \in Starts
  <2> DEFINE T == {q \in Requests : req[q].status = "hashing"}
  <2>1. T \in SUBSET Requests
    OBVIOUS
  <2> HIDE DEF T
  <2> QED BY <1>1, <2>1 DEF Starts, T
<1> QED BY <1>2, <1>3

\* All of them started less than a window after a time at most MaxHash ago.
LEMMA StartsRecent ==
    ASSUME IndInv, GuessInv, NEW w \in Times, now <= w + MaxHash
    PROVE  /\ \A r \in DOMAIN AllStarts :
                AllStarts[r] <= now /\ AllStarts[r] < w + WINDOW_MS
           /\ \A c : \A r \in DOMAIN OwnStarts(c) :
                OwnStarts(c)[r] <= now /\ OwnStarts(c)[r] < w + WINDOW_MS
<1>1. ASSUME NEW r \in Requests, req[r].status = "hashing"
      PROVE  req[r].now <= now /\ req[r].now < w + WINDOW_MS
  <2>1. req[r] # Idle /\ req[r].now \in Times /\ now \in Times
    BY <1>1, HashingRequest DEF IndInv, TypeOK
  <2>2. req[r].now <= now
    BY <1>1 DEF GuessInv
  <2>3. req[r].now \in Nat /\ now \in Nat /\ w \in Nat
    BY <2>1, TimesAreNat
  <2> QED BY <2>2, <2>3, TimesAreNat
<1> QED BY <1>1 DEF AllStarts, OwnStarts

\* The counter a login of the client goes on from: the one in the map, or the
\* one of a new window.
LEMMA StateTracked ==
    ASSUME IndInv, GuessInv, NEW c \in Clients, NEW w \in Times, now <= w + MaxHash
    PROVE  Tracked(MaxHash, stateOf(c, w), CLIENT_FAILURE_LIMIT, guesses.own[c], OwnStarts(c), now)
<1>1. CASE c \in DOMAIN clients
  BY <1>1 DEF GuessInv, stateOf
<1>2. CASE c \notin DOMAIN clients
  <2>1. stateOf(c, w) = emptyState(w)
    BY <1>2 DEF stateOf
  <2>2. /\ w \in Nat /\ now \in Nat /\ CLIENT_FAILURE_LIMIT \in Nat \ {0}
        /\ guesses.own[c] \in [Times -> Nat] /\ OwnStarts(c) \in Starts
    BY TimesAreNat, LimiterAssumption, StartsType DEF IndInv, TypeOK, GuessInv
  <2>3. \A r \in DOMAIN OwnStarts(c) : OwnStarts(c)[r] < w + WINDOW_MS
    BY StartsRecent
  <2>4. CASE guesses.own[c] = NoGuesses
    BY <2>1, <2>2, <2>3, <2>4, FreshTracked, TimesAreNat
  <2>5. CASE guesses.own[c] # NoGuesses
    <3>1. PICK state \in LimiterState(CLIENT_FAILURE_LIMIT) :
            /\ Tracked(MaxHash, state, CLIENT_FAILURE_LIMIT, guesses.own[c], OwnStarts(c), now)
            /\ Expired(state, now)
      BY <1>2, <2>5 DEF GuessInv, Forgotten
    <3> QED BY <2>1, <2>2, <2>3, <3>1, PrunedTracked
  <2> QED BY <2>4, <2>5
<1> QED BY <1>1, <1>2

LEMMA GuessInit == Init => GuessInv
<1> SUFFICES ASSUME Init PROVE GuessInv
  OBVIOUS
<1>1. /\ guesses = [own |-> [c \in Clients |-> NoGuesses], all |-> NoGuesses]
      /\ global = emptyState(0) /\ now \in Nat /\ DOMAIN clients = {}
      /\ \A r \in Requests : req[r] = Idle
  BY ConstantsAssumption DEF Init, StartTime
<1>2. NoGuesses \in [Times -> Nat]
  BY DEF NoGuesses
<1>3. AllStarts \in Starts /\ DOMAIN AllStarts = {}
  <2>1. IndInv
    BY InitInd
  <2>2. \A r \in Requests : req[r].status # "hashing"
    BY <1>1 DEF Idle
  <2>3. DOMAIN AllStarts = {}
    BY <2>2 DEF AllStarts
  <2> QED BY <2>1, <2>3, StartsType
<1>4. Tracked(0, emptyState(0), GLOBAL_FAILURE_LIMIT, NoGuesses, AllStarts, now)
  BY <1>1, <1>3, FreshTracked, TimesAreNat, LimiterAssumption
<1>5. \A r \in Requests : req[r].status # "hashing"
  BY <1>1 DEF Idle
<1> QED BY <1>1, <1>2, <1>4, <1>5 DEF GuessInv, Forgotten

\* Steps that have nothing to do with hashing.
LEMMA HashingUntouched ==
    ASSUME IndInv, GuessInv, UNCHANGED limiterVars, now' = now,
           \A r \in Requests :
              \/ req'[r] = req[r]
              \/ req[r].status # "hashing" /\ req'[r].status # "hashing"
    PROVE  GuessInv'
<1>1. clients' = clients /\ global' = global /\ guesses' = guesses
  BY DEF limiterVars
<1>2. {q \in Requests : req'[q].status = "hashing"} = {q \in Requests : req[q].status = "hashing"}
  OBVIOUS
<1>3. AllStarts' = AllStarts
  BY <1>2 DEF AllStarts
<1>4. ASSUME NEW c
      PROVE  OwnStarts(c)' = OwnStarts(c)
  <2>1. {q \in Requests : req'[q].status = "hashing" /\ req'[q].client = c}
        = {q \in Requests : req[q].status = "hashing" /\ req[q].client = c}
    OBVIOUS
  <2> QED BY <2>1 DEF OwnStarts
<1> QED BY <1>1, <1>2, <1>3, <1>4 DEF GuessInv

LEMMA QuietKeepsGuesses ==
    ASSUME IndInv, GuessInv, NEW r \in Requests,
           \/ LoginInsert(r)
           \/ \E s \in DOMAIN sessions, p \in {"read", "logout", "logoutWrongCsrf"} :
                 RequestStart(r, s, p)
           \/ Select(r) \/ Update(r) \/ Reject(r) \/ Handle(r) \/ logout(r) \/ DatabaseFails(r)
    PROVE  GuessInv'
<1>0. /\ DOMAIN req = Requests
      /\ req[r] \in {Idle} \union LoginRequest \union SessionRequest
  BY DEF IndInv, RequestsInv
<1>1. UNCHANGED limiterVars /\ now' = now
  BY DEF LoginInsert, RequestStart, Select, Update, Reject, Handle, logout, DatabaseFails
<1>2. req[r].status # "hashing"
  BY DEF LoginInsert, RequestStart, Select, Update, Reject, Handle, logout, DatabaseFails, Idle
<1>3. \A q \in Requests \ {r} : req'[q] = req[q]
  BY <1>0 DEF LoginInsert, RequestStart, Select, Update, Reject, Handle, logout, DatabaseFails,
             Leave, Enter
<1>4. req'[r].status # "hashing"
  <2>1. CASE LoginInsert(r) \/ Reject(r) \/ Handle(r) \/ logout(r) \/ DatabaseFails(r)
    BY <1>0, <2>1 DEF LoginInsert, Reject, Handle, logout, DatabaseFails, Leave, Idle
  <2>2. ASSUME NEW s, NEW p, RequestStart(r, s, p)
        PROVE  req'[r].status # "hashing"
    BY <1>0, <2>2 DEF RequestStart
  <2>3. CASE Select(r) \/ Update(r)
    <3>1. req[r] \in SessionRequest
      BY <1>0, <2>3 DEF Select, Update, Idle, LoginRequest
    <3>2. \/ req'[r] = Idle
          \/ \E x \in {"updating", "accepted", "rejecting"} :
                req'[r] = [req[r] EXCEPT !.status = x]
      BY <1>0, <2>3 DEF Select, Update, Leave, Enter
    <3> QED BY <3>1, <3>2 DEF SessionRequest, Idle
  <2> QED BY <2>1, <2>2, <2>3
<1> QED BY <1>1, <1>2, <1>3, <1>4, HashingUntouched

LEMMA CleanupKeepsGuesses ==
    ASSUME IndInv, GuessInv, NEW t \in Times, cleanupExpired(t)
    PROVE  GuessInv'
<1>1. UNCHANGED limiterVars /\ now' = now /\ req' = req
  BY DEF cleanupExpired
<1> QED BY <1>1, HashingUntouched

LEMMA TickKeepsGuesses ==
    ASSUME IndInv, GuessInv, Tick
    PROVE  GuessInv'
<1>1. /\ clients' = clients /\ global' = global /\ guesses' = guesses /\ req' = req
      /\ now' = now + 1 /\ now \in Nat /\ now \in Times
  BY TimesAreNat DEF Tick, limiterVars, IndInv, TypeOK
<1>2. AllStarts' = AllStarts /\ \A c : OwnStarts(c)' = OwnStarts(c)
  BY <1>1 DEF AllStarts, OwnStarts
<1>3. /\ guesses.all \in [Times -> Nat] /\ \A c \in Clients : guesses.own[c] \in [Times -> Nat]
      /\ DOMAIN clients \subseteq Clients
  BY DEF GuessInv, IndInv, TypeOK
<1>4. Tracked(0, global, GLOBAL_FAILURE_LIMIT, guesses.all, AllStarts, now + 1)
  BY <1>1, <1>3, TickTracked, TimesAreNat, StartsType, LimiterAssumption DEF GuessInv
<1>5. \A c \in DOMAIN clients :
         Tracked(MaxHash, clients[c], CLIENT_FAILURE_LIMIT, guesses.own[c], OwnStarts(c), now + 1)
  BY <1>1, <1>3, TickTracked, TimesAreNat, StartsType, LimiterAssumption DEF GuessInv
<1>6. ASSUME NEW c \in Clients \ DOMAIN clients
      PROVE  Forgotten(guesses.own[c], OwnStarts(c), now + 1)
  <2>1. CASE guesses.own[c] = NoGuesses
    BY <2>1 DEF Forgotten
  <2>2. CASE guesses.own[c] # NoGuesses
    <3>1. PICK state \in LimiterState(CLIENT_FAILURE_LIMIT) :
            /\ Tracked(MaxHash, state, CLIENT_FAILURE_LIMIT, guesses.own[c], OwnStarts(c), now)
            /\ Expired(state, now)
      BY <2>2 DEF GuessInv, Forgotten
    <3>2. Tracked(MaxHash, state, CLIENT_FAILURE_LIMIT, guesses.own[c], OwnStarts(c), now + 1)
      BY <1>1, <1>3, <3>1, TickTracked, TimesAreNat, StartsType, LimiterAssumption
    <3>3. Expired(state, now + 1)
      BY <1>1, <3>1, TimesAreNat DEF Expired, LimiterState
    <3> QED BY <3>2, <3>3 DEF Forgotten
  <2> QED BY <2>1, <2>2
<1>7. ASSUME NEW r \in Requests, req[r].status = "hashing"
      PROVE  req[r].now <= now + 1 /\ now + 1 <= req[r].now + MaxHash
  <2>1. req[r] # Idle /\ req[r].now \in Nat
    BY <1>7, HashingRequest, TimesAreNat
  <2>2. req[r].now <= now /\ now - req[r].now < MaxHash
    BY <1>7, <2>1 DEF GuessInv, Tick
  <2> QED BY <1>1, <2>1, <2>2, TimesAreNat
<1> QED BY <1>1, <1>2, <1>4, <1>5, <1>6, <1>7 DEF GuessInv

LEMMA RestartKeepsGuesses ==
    ASSUME IndInv, IndInv', GuessInv, Restart
    PROVE  GuessInv'
<1>1. /\ guesses' = [own |-> [c \in Clients |-> NoGuesses], all |-> NoGuesses]
      /\ global' = emptyState(0) /\ now' = now /\ now \in Nat /\ DOMAIN clients' = {}
      /\ \A r \in Requests : req'[r] = Idle
  BY TimesAreNat DEF Restart, IndInv, TypeOK
<1>2. NoGuesses \in [Times -> Nat]
  BY DEF NoGuesses
<1>3. AllStarts' \in Starts
  <2>1. (AllStarts \in Starts)'
    BY StartsType, PTL
  <2> QED BY <2>1
<1>4. DOMAIN AllStarts' = {}
  <2>1. \A r \in Requests : req'[r].status # "hashing"
    BY <1>1 DEF Idle
  <2> QED BY <2>1 DEF AllStarts
<1>5. Tracked(0, emptyState(0), GLOBAL_FAILURE_LIMIT, NoGuesses, AllStarts', now)
  BY <1>1, <1>3, <1>4, FreshTracked, TimesAreNat, LimiterAssumption
<1>6. \A r \in Requests : req'[r].status # "hashing"
  BY <1>1 DEF Idle
<1> QED BY <1>1, <1>2, <1>5, <1>6 DEF GuessInv, Forgotten

\* What a step that starts or ends the hashing of a request does to the start times.
LEMMA StartsAfterEnd ==
    ASSUME IndInv, NEW r \in Requests, req[r].status = "hashing", req'[r].status # "hashing",
           \A q \in Requests \ {r} : req'[q] = req[q], NEW c, c = req[r].client
    PROVE  /\ r \in DOMAIN AllStarts /\ AllStarts[r] = req[r].now
           /\ AllStarts' = Restrict(AllStarts, DOMAIN AllStarts \ {r})
           /\ r \in DOMAIN OwnStarts(c) /\ OwnStarts(c)[r] = req[r].now
           /\ OwnStarts(c)' = Restrict(OwnStarts(c), DOMAIN OwnStarts(c) \ {r})
           /\ \A d : d # c => OwnStarts(d)' = OwnStarts(d)
<1> DEFINE T == {q \in Requests : req[q].status = "hashing"}
           T2 == {q \in Requests : req'[q].status = "hashing"}
           U(d) == {q \in Requests : req[q].status = "hashing" /\ req[q].client = d}
           U2(d) == {q \in Requests : req'[q].status = "hashing" /\ req'[q].client = d}
<1>1. T2 = T \ {r} /\ r \in T
  OBVIOUS
<1>2. AllStarts' = Restrict(AllStarts, DOMAIN AllStarts \ {r}) /\ r \in DOMAIN AllStarts
      /\ AllStarts[r] = req[r].now
  <2>1. AllStarts = [q \in T |-> req[q].now] /\ AllStarts' = [q \in T2 |-> req'[q].now]
    BY DEF AllStarts
  <2> HIDE DEF T, T2
  <2>2. \A q \in T2 : req'[q] = req[q]
    BY <1>1 DEF T
  <2> QED BY <1>1, <2>1, <2>2 DEF Restrict
<1>3. ASSUME NEW d
      PROVE  U2(d) = U(d) \ {r} /\ (r \in U(d) <=> d = c)
  OBVIOUS
<1>4. ASSUME NEW d
      PROVE  /\ OwnStarts(d) = [q \in U(d) |-> req[q].now]
             /\ OwnStarts(d)' = [q \in U2(d) |-> req'[q].now]
             /\ \A q \in U2(d) : req'[q] = req[q]
  BY <1>3 DEF OwnStarts
<1> HIDE DEF U, U2
<1>5. ASSUME NEW d, d # c
      PROVE  OwnStarts(d)' = OwnStarts(d)
  <2>1. U2(d) = U(d)
    BY <1>3, <1>5
  <2> QED BY <1>4, <2>1
<1>6. /\ r \in DOMAIN OwnStarts(c) /\ OwnStarts(c)[r] = req[r].now
      /\ OwnStarts(c)' = Restrict(OwnStarts(c), DOMAIN OwnStarts(c) \ {r})
  <2>1. U2(c) = U(c) \ {r} /\ r \in U(c)
    BY <1>3
  <2>2. /\ OwnStarts(c) = [q \in U(c) |-> req[q].now]
        /\ OwnStarts(c)' = [q \in U2(c) |-> req[q].now]
    BY <1>4
  <2> QED BY <2>1, <2>2 DEF Restrict
<1> QED BY <1>2, <1>5, <1>6

LEMMA StartsAfterStart ==
    ASSUME IndInv, NEW r \in Requests, req[r].status # "hashing", req'[r].status = "hashing",
           \A q \in Requests \ {r} : req'[q] = req[q]
    PROVE  /\ r \notin DOMAIN AllStarts /\ AllStarts' = Added(AllStarts, r, req'[r].now)
           /\ \A d : /\ r \notin DOMAIN OwnStarts(d)
                    /\ OwnStarts(d)' = IF d = req'[r].client
                                       THEN Added(OwnStarts(d), r, req'[r].now)
                                       ELSE OwnStarts(d)
<1> DEFINE T == {q \in Requests : req[q].status = "hashing"}
           T2 == {q \in Requests : req'[q].status = "hashing"}
           U(d) == {q \in Requests : req[q].status = "hashing" /\ req[q].client = d}
           U2(d) == {q \in Requests : req'[q].status = "hashing" /\ req'[q].client = d}
<1>1. T2 = T \union {r} /\ r \notin T /\ \A q \in T : req'[q] = req[q]
  OBVIOUS
<1>2. r \notin DOMAIN AllStarts /\ AllStarts' = Added(AllStarts, r, req'[r].now)
  <2>1. AllStarts = [q \in T |-> req[q].now] /\ AllStarts' = [q \in T2 |-> req'[q].now]
    BY DEF AllStarts
  <2> HIDE DEF T, T2
  <2> QED BY <1>1, <2>1 DEF Added
<1>3. ASSUME NEW d
      PROVE  /\ U2(d) = IF d = req'[r].client THEN U(d) \union {r} ELSE U(d)
             /\ r \notin U(d) /\ \A q \in U(d) : req'[q] = req[q]
  OBVIOUS
<1>4. ASSUME NEW d
      PROVE  /\ OwnStarts(d) = [q \in U(d) |-> req[q].now]
             /\ OwnStarts(d)' = [q \in U2(d) |-> req'[q].now]
  BY DEF OwnStarts
<1> HIDE DEF U, U2
<1>5. ASSUME NEW d
      PROVE  /\ r \notin DOMAIN OwnStarts(d)
             /\ OwnStarts(d)' = IF d = req'[r].client THEN Added(OwnStarts(d), r, req'[r].now)
                                ELSE OwnStarts(d)
  <2>1. CASE d = req'[r].client
    BY <1>3, <1>4, <2>1 DEF Added
  <2>2. CASE d # req'[r].client
    BY <1>3, <1>4, <2>2
  <2> QED BY <2>1, <2>2
<1> QED BY <1>2, <1>5

LEMMA LoginStartKeepsGuesses ==
    ASSUME IndInv, GuessInv, NEW r \in Requests, NEW c \in Clients, NEW ok \in Passwords,
           LoginStart(r, c, ok)
    PROVE  GuessInv'
<1> DEFINE own == normalize(stateOf(c, now), now)
           all == normalize(global, now)
<1>0. /\ now \in Nat /\ now \in Times /\ now <= now + MaxHash /\ DOMAIN req = Requests
      /\ DOMAIN clients \subseteq Clients
      /\ CLIENT_FAILURE_LIMIT \in Nat \ {0} /\ GLOBAL_FAILURE_LIMIT \in Nat \ {0}
  BY TimesAreNat, LimiterAssumption DEF IndInv, TypeOK, RequestsInv
<1>1. /\ guesses.all \in [Times -> Nat] /\ \A d \in Clients : guesses.own[d] \in [Times -> Nat]
      /\ AllStarts \in Starts /\ \A d : OwnStarts(d) \in Starts
  BY StartsType DEF GuessInv
<1>2. /\ global' = all /\ guesses' = guesses /\ now' = now
      /\ DOMAIN clients' = DOMAIN clients \union {c} /\ clients'[c] = own
      /\ \A d \in DOMAIN clients \ {c} : clients'[d] = clients[d]
  BY DEF LoginStart, WithClient
<1>3. /\ Tracked(MaxHash, own, CLIENT_FAILURE_LIMIT, guesses.own[c], OwnStarts(c), now)
      /\ own.blockedUntil <= now => now < own.windowStartedAt + WINDOW_MS
  <2>1. Tracked(MaxHash, stateOf(c, now), CLIENT_FAILURE_LIMIT, guesses.own[c], OwnStarts(c), now)
    BY <1>0, StateTracked
  <2> QED BY <1>0, <1>1, <2>1, StartsRecent, NormalizeTracked, TimesAreNat
<1>4. /\ Tracked(0, all, GLOBAL_FAILURE_LIMIT, guesses.all, AllStarts, now)
      /\ all.blockedUntil <= now => now < all.windowStartedAt + WINDOW_MS
  <2>1. Tracked(0, global, GLOBAL_FAILURE_LIMIT, guesses.all, AllStarts, now)
    BY DEF GuessInv
  <2> QED BY <1>0, <1>1, <2>1, StartsRecent, NormalizeTracked, TimesAreNat
<1>5. /\ req[r] = Idle /\ \A q \in Requests \ {r} : req'[q] = req[q]
      /\ req'[r] = IF own.blockedUntil > now \/ all.blockedUntil > now
                   THEN Idle
                   ELSE [status |-> "hashing", client |-> c, correct |-> ok, now |-> now]
  BY <1>0 DEF LoginStart
<1> HIDE DEF own, all
<1>6. ASSUME NEW q \in Requests, req'[q].status = "hashing"
      PROVE  req'[q].now <= now /\ now <= req'[q].now + MaxHash
  <2>1. req'[q] = req[q] \/ req'[q].now = now
    BY <1>5, <1>6 DEF Idle
  <2> QED BY <1>0, <1>6, <2>1 DEF GuessInv
<1>7. CASE req'[r] = Idle
  <2>1. AllStarts' = AllStarts /\ \A d : OwnStarts(d)' = OwnStarts(d)
    BY <1>5, <1>7 DEF AllStarts, OwnStarts
  <2> QED BY <1>2, <1>3, <1>4, <1>6, <2>1 DEF GuessInv
<1>8. CASE req'[r] # Idle
  <2>1. /\ own.blockedUntil <= now /\ all.blockedUntil <= now
        /\ req'[r].status = "hashing" /\ req'[r].client = c /\ req'[r].now = now
    <3>1. own.blockedUntil \in Nat /\ all.blockedUntil \in Nat
      BY <1>3, <1>4 DEF Tracked, LimiterState
    <3> QED BY <1>0, <1>5, <1>8, <3>1
  <2>2. req[r].status # "hashing"
    BY <1>5 DEF Idle
  <2>3. /\ r \notin DOMAIN AllStarts /\ AllStarts' = Added(AllStarts, r, now)
        /\ r \notin DOMAIN OwnStarts(c) /\ OwnStarts(c)' = Added(OwnStarts(c), r, now)
        /\ \A d : d # c => OwnStarts(d)' = OwnStarts(d)
    BY <1>5, <2>1, <2>2, StartsAfterStart
  <2>4. Tracked(MaxHash, own, CLIENT_FAILURE_LIMIT, guesses.own[c], Added(OwnStarts(c), r, now), now)
    BY <1>0, <1>1, <1>3, <2>1, <2>3, LetInTracked, TimesAreNat
  <2>5. Tracked(0, all, GLOBAL_FAILURE_LIMIT, guesses.all, Added(AllStarts, r, now), now)
    BY <1>0, <1>1, <1>4, <2>1, <2>3, LetInTracked, TimesAreNat
  <2> QED BY <1>2, <1>6, <2>3, <2>4, <2>5 DEF GuessInv
<1> QED BY <1>7, <1>8

LEMMA LoginFailsKeepsGuesses ==
    ASSUME IndInv, GuessInv, NEW r \in Requests, LoginFails(r)
    PROVE  GuessInv'
<1> DEFINE u == req[r].now
           Less(S) == Restrict(S, DOMAIN S \ {r})
           More(H) == [H EXCEPT ![u] = @ + 1]
           own(d) == increment(normalize(stateOf(d, u), u), CLIENT_FAILURE_LIMIT,
                               CLIENT_BLOCK_MS, u)
<1>0. /\ now \in Nat /\ DOMAIN req = Requests /\ DOMAIN clients \subseteq Clients
      /\ CLIENT_FAILURE_LIMIT \in Nat \ {0} /\ GLOBAL_FAILURE_LIMIT \in Nat \ {0}
  BY TimesAreNat, LimiterAssumption DEF IndInv, TypeOK, RequestsInv
<1>1. /\ guesses.all \in [Times -> Nat] /\ \A d \in Clients : guesses.own[d] \in [Times -> Nat]
      /\ AllStarts \in Starts /\ \A d : OwnStarts(d) \in Starts
  BY StartsType DEF GuessInv
<1>2. req[r].status = "hashing" /\ req[r] # Idle /\ u \in Times /\ req[r].client \in Clients
  BY HashingRequest DEF LoginFails
<1>3. PICK c \in Clients : c = req[r].client
  BY <1>2
<1>4. u <= now /\ now <= u + MaxHash
  BY <1>2 DEF GuessInv
<1>5. /\ global' = increment(normalize(global, u), GLOBAL_FAILURE_LIMIT, GLOBAL_BLOCK_MS, u)
      /\ clients' = prune(WithClient(c, own(c)), u)
      /\ now' = now
  BY <1>3 DEF LoginFails
<1>6. req'[r] = Idle /\ \A q \in Requests \ {r} : req'[q] = req[q]
  BY <1>0 DEF LoginFails, Leave
<1>7. req'[r].status # "hashing"
  BY <1>6 DEF Idle
<1>8. /\ r \in DOMAIN AllStarts /\ AllStarts[r] = u /\ AllStarts' = Less(AllStarts)
      /\ r \in DOMAIN OwnStarts(c) /\ OwnStarts(c)[r] = u /\ OwnStarts(c)' = Less(OwnStarts(c))
      /\ \A d : d # c => OwnStarts(d)' = OwnStarts(d)
  BY <1>2, <1>3, <1>6, <1>7, StartsAfterEnd
<1>9. /\ guesses' \in [own : [Clients -> [Times -> Nat]], all : [Times -> Nat]]
      /\ guesses'.all = More(guesses.all) /\ guesses'.own[c] = More(guesses.own[c])
      /\ \A d \in Clients \ {c} : guesses'.own[d] = guesses.own[d]
  <2>1. guesses' = [guesses EXCEPT !.own[c][u] = @ + 1, !.all[u] = @ + 1]
    BY <1>3 DEF LoginFails
  <2>2. guesses \in [own : [Clients -> [Times -> Nat]], all : [Times -> Nat]]
    BY DEF GuessInv
  <2> HIDE DEF u
  <2>3. guesses' = [own |-> [guesses.own EXCEPT ![c] = More(guesses.own[c])],
                    all |-> More(guesses.all)]
    BY <1>2, <2>1, <2>2
  <2>4. More(guesses.all) \in [Times -> Nat] /\ More(guesses.own[c]) \in [Times -> Nat]
    BY <1>1, <1>2
  <2> HIDE DEF More
  <2> QED BY <2>2, <2>3, <2>4
<1> HIDE DEF u
<1>10. Tracked(MaxHash, own(c), CLIENT_FAILURE_LIMIT, More(guesses.own[c]), Less(OwnStarts(c)), now)
  <2>1. Tracked(MaxHash, stateOf(c, u), CLIENT_FAILURE_LIMIT, guesses.own[c], OwnStarts(c), now)
    BY <1>2, <1>4, StateTracked
  <2> QED BY <1>0, <1>1, <1>4, <1>8, <2>1, FailTracked, TimesAreNat, LimiterAssumption
<1>11. Tracked(0, global', GLOBAL_FAILURE_LIMIT, More(guesses.all), Less(AllStarts), now)
  <2>1. Tracked(0, global, GLOBAL_FAILURE_LIMIT, guesses.all, AllStarts, now)
    BY DEF GuessInv
  <2> QED BY <1>0, <1>1, <1>4, <1>5, <1>8, <2>1, FailTracked, TimesAreNat, LimiterAssumption
<1> HIDE DEF More, Less, own
<1>12. \A q \in Requests : req'[q].status = "hashing" =>
                             req'[q].now <= now /\ now <= req'[q].now + MaxHash
  BY <1>6, <1>7 DEF GuessInv
<1> DEFINE counter(e) == IF e = c THEN own(c) ELSE clients[e]
<1>13. /\ DOMAIN clients' \subseteq DOMAIN clients \union {c}
       /\ \A e \in DOMAIN clients' : clients'[e] = counter(e)
       /\ \A e \in DOMAIN clients \union {c} : e \notin DOMAIN clients' => Expired(counter(e), u)
  BY <1>5 DEF prune, WithClient, Restrict
<1>14. ASSUME NEW e \in DOMAIN clients \union {c}
       PROVE  Tracked(MaxHash, counter(e), CLIENT_FAILURE_LIMIT, guesses'.own[e], OwnStarts(e)', now)
  <2>1. CASE e = c
    BY <1>8, <1>9, <1>10, <2>1
  <2>2. CASE e # c
    <3>1. Tracked(MaxHash, clients[e], CLIENT_FAILURE_LIMIT, guesses.own[e], OwnStarts(e), now)
      BY <2>2 DEF GuessInv
    <3> QED BY <1>0, <1>8, <1>9, <2>2, <3>1
  <2> QED BY <2>1, <2>2
<1> HIDE DEF counter
<1>15. ASSUME NEW e \in Clients \ DOMAIN clients'
       PROVE  Forgotten(guesses'.own[e], OwnStarts(e)', now)
  <2>1. CASE e \in DOMAIN clients \union {c}
    <3>1. counter(e) \in LimiterState(CLIENT_FAILURE_LIMIT)
      BY <1>14, <2>1 DEF Tracked
    <3>2. Expired(counter(e), u) /\ u \in Nat
      BY <1>2, <1>13, <2>1, TimesAreNat
    <3>3. Expired(counter(e), now)
      BY <1>0, <1>4, <3>1, <3>2, TimesAreNat DEF Expired, LimiterState
    <3> QED BY <1>14, <2>1, <3>1, <3>3 DEF Forgotten
  <2>2. CASE e \notin DOMAIN clients \union {c}
    <3>1. Forgotten(guesses.own[e], OwnStarts(e), now)
      BY <2>2 DEF GuessInv
    <3> QED BY <1>8, <1>9, <2>2, <3>1
  <2> QED BY <2>1, <2>2
<1> QED BY <1>0, <1>5, <1>9, <1>8, <1>11, <1>12, <1>13, <1>14, <1>15 DEF GuessInv

LEMMA LoginSucceedsKeepsGuesses ==
    ASSUME IndInv, GuessInv, NEW r \in Requests, LoginSucceeds(r)
    PROVE  GuessInv'
<1> DEFINE u == req[r].now
<1>0. /\ now \in Nat /\ DOMAIN req = Requests /\ DOMAIN clients \subseteq Clients
      /\ GLOBAL_FAILURE_LIMIT \in Nat \ {0}
  BY TimesAreNat, LimiterAssumption DEF IndInv, TypeOK, RequestsInv
<1>1. /\ req[r].status = "hashing" /\ req[r] # Idle /\ req[r] \in LoginRequest
      /\ u \in Times /\ req[r].client \in Clients
  BY HashingRequest DEF LoginSucceeds
<1>2. PICK c \in Clients : c = req[r].client
  BY <1>1
<1>3. u \in Nat /\ u <= now /\ now <= u + MaxHash
  BY <1>1, TimesAreNat DEF GuessInv
<1>4. /\ global' = emptyState(u) /\ now' = now
      /\ DOMAIN clients' = DOMAIN clients \ {c}
      /\ \A d \in DOMAIN clients \ {c} : clients'[d] = clients[d]
  BY <1>2 DEF LoginSucceeds, Restrict
<1>5. /\ guesses' \in [own : [Clients -> [Times -> Nat]], all : [Times -> Nat]]
      /\ guesses'.all = NoGuesses /\ guesses'.own[c] = NoGuesses
      /\ \A d \in Clients \ {c} : guesses'.own[d] = guesses.own[d]
  <2>1. NoGuesses \in [Times -> Nat] /\ guesses.own \in [Clients -> [Times -> Nat]]
    BY DEF NoGuesses, GuessInv
  <2>2. guesses' = [own |-> [guesses.own EXCEPT ![c] = NoGuesses], all |-> NoGuesses]
    BY <1>2 DEF LoginSucceeds
  <2> QED BY <2>1, <2>2
<1>6. /\ req'[r] = [req[r] EXCEPT !.status = "inserting"]
      /\ \A q \in Requests \ {r} : req'[q] = req[q]
  BY <1>0 DEF LoginSucceeds, Enter
<1>7. req'[r].status # "hashing" /\ req'[r].now = u
  BY <1>1, <1>6 DEF LoginRequest
<1>8. /\ r \in DOMAIN AllStarts
      /\ AllStarts' = Restrict(AllStarts, DOMAIN AllStarts \ {r})
      /\ \A d : d # c => OwnStarts(d)' = OwnStarts(d)
  BY <1>1, <1>2, <1>6, <1>7, StartsAfterEnd
<1> HIDE DEF u
<1>9. Tracked(0, global', GLOBAL_FAILURE_LIMIT, NoGuesses, AllStarts', now)
  <2>1. AllStarts' \in Starts
    BY <1>1, <1>8, StartsType, TryingLess, TimesAreNat
  <2>2. \A q \in DOMAIN AllStarts' : AllStarts'[q] < u + WINDOW_MS
    BY <1>1, <1>3, <1>8, StartsRecent DEF Restrict
  <2> QED BY <1>0, <1>3, <1>4, <2>1, <2>2, FreshTracked, TimesAreNat
<1>10. \A q \in Requests : req'[q].status = "hashing" =>
                             req'[q].now <= now /\ now <= req'[q].now + MaxHash
  BY <1>3, <1>6, <1>7 DEF GuessInv
<1> QED BY <1>0, <1>4, <1>5, <1>8, <1>9, <1>10 DEF GuessInv, Forgotten

LEMMA StepKeepsGuesses == IndInv /\ GuessInv /\ [Next]_vars => GuessInv'
<1> SUFFICES ASSUME IndInv, GuessInv, [Next]_vars PROVE GuessInv'
  OBVIOUS
<1>1. CASE UNCHANGED vars
  <2>1. UNCHANGED limiterVars /\ now' = now /\ req' = req
    BY <1>1 DEF vars
  <2> QED BY <2>1, HashingUntouched
<1>2. CASE Next
  <2>1. IndInv'
    BY StepKeepsInd
  <2> QED BY <1>2, <2>1, LoginStartKeepsGuesses, LoginFailsKeepsGuesses, LoginSucceedsKeepsGuesses,
             QuietKeepsGuesses, CleanupKeepsGuesses, RestartKeepsGuesses, TickKeepsGuesses DEF Next
<1> QED BY <1>1, <1>2

LEMMA GuessesBounded == IndInv /\ GuessInv => GuessesAreLimited
<1> SUFFICES ASSUME IndInv, GuessInv, NEW t \in Times
             PROVE  /\ \A c \in Clients :
                          Tried(MaxHash, guesses.own[c], t)
                              <= 2 * (CLIENT_FAILURE_LIMIT - 1) + Cardinality(Requests)
                    /\ Tried(0, guesses.all, t)
                              <= 2 * (GLOBAL_FAILURE_LIMIT - 1) + Cardinality(Requests)
  <2>1. Stretch(0) = WINDOW_MS /\ Stretch(MaxHash) = WINDOW_MS - 2 * MaxHash
    BY TimesAreNat DEF Stretch
  <2> QED BY <2>1 DEF GuessesAreLimited, Tried
<1>0. now \in Nat /\ now \in Times /\ now <= now + MaxHash
  BY TimesAreNat DEF IndInv, TypeOK
<1>1. ASSUME NEW d \in Slack, NEW limit \in Nat \ {0}, NEW state, NEW H \in [Times -> Nat],
             NEW S \in Starts, Tracked(d, state, limit, H, S, now)
      PROVE  Tried(d, H, t) <= 2 * (limit - 1) + Cardinality(Requests)
  <2>1. Tried(d, H, t) \in Nat
        /\ Within(d, state, limit, Tried(d, H, t), Trying(d, S, t), t, now)
    BY <1>1, FS_CardinalityType DEF Tracked, Tried
  <2>2. state.failures \in 0..limit
    BY <1>1 DEF Tracked, LimiterState
  <2> QED BY <2>1, <2>2, TryingBounds DEF Within
<1>2. ASSUME NEW c \in Clients
      PROVE  Tried(MaxHash, guesses.own[c], t)
                 <= 2 * (CLIENT_FAILURE_LIMIT - 1) + Cardinality(Requests)
  BY <1>0, <1>1, StateTracked, StartsType, TimesAreNat, LimiterAssumption DEF GuessInv
<1>3. Tried(0, guesses.all, t) <= 2 * (GLOBAL_FAILURE_LIMIT - 1) + Cardinality(Requests)
  BY <1>1, StartsType, TimesAreNat, LimiterAssumption DEF GuessInv
<1> QED BY <1>2, <1>3

\* However logins overlap, are cut off or come again after a restart, one client,
\* and all clients together, can try only so many passwords in any window of time
\* between two successes: the requests that passed assertAllowed before the limit
\* was reached are the only ones beyond what two windows allow.  For one client
\* the window is shorter by twice the time of hashing, as prune may drop its
\* counter while a login of its is being hashed.
THEOREM GuessesAlwaysLimited == Spec => []GuessesAreLimited
<1>1. Init => IndInv /\ GuessInv
  BY InitInd, GuessInit
<1>2. IndInv /\ GuessInv /\ [Next]_vars => (IndInv /\ GuessInv)'
  BY StepKeepsInd, StepKeepsGuesses
<1>3. IndInv /\ GuessInv => GuessesAreLimited
  BY GuessesBounded
<1> QED BY <1>1, <1>2, <1>3, PTL DEF Spec
=============================================================================
