---------------------------- MODULE MCBookkeeping ----------------------------
(***************************************************************************)
(* What single processes keep count of, in memory and in their tables: the *)
(* cache, the login limiter, sessions and traffic metrics.  No two of them *)
(* have state in common, so a behaviour is about one of them, its subject, *)
(* and the others stay as they were.  Sessions are looked at twice:        *)
(* guessing passwords, and using a session.                                *)
(***************************************************************************)
EXTENDS AdminSession, TLC

CONSTANTS k1, k2, k3, c1, c2, f1, f2, r1, r2  \* model values

VARIABLES
    subject,
    entries, used, cacheNow,
    accumulators, pending, table, minute, fate, failures, crashes

cacheVars == <<entries, used, cacheNow>>
trafficVars == <<accumulators, pending, table, minute, fate, failures, crashes>>

-----------------------------------------------------------------------------
\* Three keys in a cache of two, with a short and a long time to live.
Cache == INSTANCE BoundedTtlCache WITH
    Keys <- {k1, k2, k3}, Ttls <- {1, 3}, maximumEntries <- 2, MaxTime <- 4,
    now <- cacheNow

\* Two flushes at a time of two routes; a latency at a limit and one above all.
Input(code, ms) ==
    [statusCode |-> code, latencyMs |-> ms, requestBytes |-> 0, responseBytes |-> 1]
Traffic == INSTANCE AdminTraffic WITH
    Routes <- {"GET a", "GET b"}, Inputs <- {Input(200, 25), Input(503, 60001)},
    Flushes <- {f1, f2}, MAX_ACTIVE_KEYS <- 2, retention <- 1, MaxMinute <- 1,
    MaxRecords <- 3, MaxFailures <- 1, MaxCrashes <- 1,
    active <- accumulators

-----------------------------------------------------------------------------
\* The module itself has the constants of the configuration.  They are looked
\* at twice, within narrower bounds: up to six right and wrong logins of two
\* clients, one too many for the limiter's map, none of which leads to a
\* session ...
LoginBounds == DOMAIN sessions' = {} /\ restarts' = 0

\* ... and one session that two requests at a time use, log out or let expire.
SessionBounds ==
    /\ logins' <= 1
    /\ \A r \in Requests : "client" \in DOMAIN req'[r] => req'[r].client = c1

BookkeepingInit ==
    /\ subject \in {"cache", "logins", "sessions", "traffic"}
    /\ Init /\ Cache!Init /\ Traffic!Init

BookkeepingNext ==
    /\ UNCHANGED subject
    /\ \/ /\ subject = "cache" /\ Cache!Next
          /\ UNCHANGED <<trafficVars, vars>>
       \/ /\ Next
          /\ \/ subject = "logins" /\ LoginBounds
             \/ subject = "sessions" /\ SessionBounds
          /\ UNCHANGED <<cacheVars, trafficVars>>
       \/ /\ subject = "traffic" /\ Traffic!Next
          /\ UNCHANGED <<cacheVars, vars>>

BookkeepingSpec ==
    /\ BookkeepingInit
    /\ [][BookkeepingNext]_<<subject, vars, cacheVars, trafficVars>>

Symmetry == Permutations({r1, r2}) \cup Permutations({c1, c2})

-----------------------------------------------------------------------------
\* What was used recently and has not expired is still in the cache.
RecentlyUsedSurvives == Cache!RecentlyUsedSurvives

\* However flushes overlap and fail, every request is counted in one place.
CountsConserved == Traffic!CountsConserved

\* The totals and percentiles shown are those of the requests they count.
SummaryIsTruthful == Traffic!SummaryIsTruthful
=============================================================================
