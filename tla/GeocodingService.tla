-------------------------- MODULE GeocodingService --------------------------
(***************************************************************************)
(* Geocoding: suggestions, place lookup and reverse lookup in front of a   *)
(* provider, with the shared cache and the concurrency limiter.            *)
(*                                                                         *)
(*   src/src/geocoding/geocoding.service.ts                                *)
(*   src/src/geocoding/providers/photon-geocoding.provider.ts              *)
(*   src/src/geocoding/providers/fake-geocoding.provider.ts                *)
(*   src/src/geocoding/mapper/photon-response.mapper.ts                    *)
(*   src/src/geocoding/security/place-token.codec.ts                       *)
(*   src/src/geocoding/region/supported-region.ts                          *)
(*                                                                         *)
(* A handler runs without interruption up to its first await: it parses,   *)
(* asks the cache and, on a miss, the limiter.  Other requests run until   *)
(* the provider has answered; the rest of the handler is one turn again.   *)
(* Coordinates are integers, in micro-degrees.  A digest is injective, so  *)
(* a cache key is the record of what is digested.                          *)
(***************************************************************************)
EXTENDS TtlCache, FiniteSets, SequencesExt

CONSTANTS
    Requests,            \* requests in progress at the same time
    Provider,            \* "photon" or "fake"
    RawQueries,          \* what clients send: autocomplete and search ...
    RawLookups,          \* ... place tokens ...
    RawReverses,         \* ... and selected points
    LowerCase,           \* text |-> its lower case, for the texts parseQuery
                         \* accepts
    Analyzer,            \* language tag |-> Photon's label language
    PlacePosition,       \* place |-> its coordinates
    Terms,               \* place |-> the texts that match it (fake provider)
    DistanceMeters,      \* place |-> point |-> distance (fake provider)
    FeatureLists,        \* what Photon can find: sequences of places
    Region,              \* the supported region and its fallback focus
    SecretConfigured,    \* GEOCODING_TOKEN_SECRET is set
    maximumConcurrent, maximumQueued, maximumEntries,
    geocodingCacheTtlMs, geocodingReverseCacheTtlMs,
    MaxTime, MaxRestarts \* bounds

VARIABLES
    cache,   \* GeocodingService.cache
    req,     \* per request: its status, its input, what the provider returned
             \* and the answer
    secret,  \* the number of the process's token secret
    restarts,
    now,
    active, waiting, pc  \* the limiter

vars == <<cache, req, secret, restarts, now, active, waiting, pc>>

Limiter == INSTANCE ConcurrencyLimiter WITH Calls <- Requests

Places == DOMAIN PlacePosition

-----------------------------------------------------------------------------
(* Parsing.                                                                *)

MAX_LIMIT == 8
DefaultLimit == [autocomplete |-> 6, search |-> 8]

\* A field the client leaves out: no limit, coordinate or text has this value.
Undefined == 1000000000
UndefinedText == "undefined"

parseLimit(limit, fallback) == IF limit = Undefined THEN fallback ELSE limit
parseLanguage(tag) == IF tag = UndefinedText THEN "id" ELSE tag

validLimit(limit) == limit = Undefined \/ limit \in 1..MAX_LIMIT
validLanguage(tag) == parseLanguage(tag) \in DOMAIN Analyzer
validPoint(point) ==
    /\ point.lat \in -90000000..90000000
    /\ point.lon \in -180000000..180000000

contains(point) ==
    /\ Region.minLat <= point.lat /\ point.lat <= Region.maxLat
    /\ Region.minLon <= point.lon /\ point.lon <= Region.maxLon

\* parseOptionalPoint: the fallback only when both coordinates are missing.
proximity(raw) ==
    IF raw.point.lat = Undefined /\ raw.point.lon = Undefined
    THEN Region.fallbackFocus
    ELSE raw.point

\* The error of the first check that fails, in the code's order.
queryError(raw) ==
    CASE raw.q \notin DOMAIN LowerCase -> "INVALID_QUERY"
      [] ~validPoint(proximity(raw)) -> "INVALID_COORDINATES"
      [] ~validLimit(raw.limit) \/ ~validLanguage(raw.language)
             \/ raw.forField \notin {UndefinedText, "ORIGIN", "DESTINATION"}
             -> "INVALID_QUERY"
      [] OTHER -> "none"

reverseError(raw) ==
    CASE ~validPoint(raw.point) -> "INVALID_COORDINATES"
      [] ~contains(raw.point) -> "OUTSIDE_SUPPORTED_REGION"
      [] ~validLanguage(raw.language) -> "INVALID_QUERY"
      [] OTHER -> "none"

\* PlaceTokenCodec: a token names a provider and a place and is signed.
encode(place) == [provider |-> Provider, id |-> place, secret |-> secret]

\* decode returns null when the signature is not this secret's.
lookupError(raw) ==
    IF raw.token.secret # secret \/ raw.token.provider # Provider
    THEN "PLACE_NOT_FOUND"
    ELSE "none"

ErrorOf(raw) ==
    CASE raw.op = "lookup" -> lookupError(raw)
      [] raw.op = "reverse" -> reverseError(raw)
      [] OTHER -> queryError(raw)

-----------------------------------------------------------------------------
(* Cache keys.                                                             *)

\* toFixed with the digits of a unit: half away from zero.  The sign stays, also
\* in front of a zero.
round(value, unit) ==
    LET magnitude == IF value < 0 THEN -value ELSE value
    IN  [minus |-> value < 0, digits |-> (magnitude + unit \div 2) \div unit]

cell(point, unit) == <<round(point.lat, unit), round(point.lon, unit)>>

limitOf(raw) == parseLimit(raw.limit, DefaultLimit[raw.op])

lookupKey(token) == [kind |-> "lookup", token |-> token]

\* Mutant: the limit is not part of the key.
queryKeyNoLimit(raw) ==
    [kind |-> raw.op,
     query |-> LowerCase[raw.q],
     near |-> cell(proximity(raw), 1000),
     language |-> parseLanguage(raw.language)]

queryKey(raw) ==
    [kind |-> raw.op,
     query |-> LowerCase[raw.q],
     near |-> cell(proximity(raw), 1000),
     limit |-> limitOf(raw),
     language |-> parseLanguage(raw.language)]

\* The version of the region is fixed for the life of the process.
KeyOf(raw) ==
    CASE raw.op = "lookup" -> lookupKey(raw.token)
      [] raw.op = "reverse" ->
             [kind |-> "reverse", near |-> cell(raw.point, 10),
              language |-> parseLanguage(raw.language)]
      [] OTHER -> queryKey(raw)

-----------------------------------------------------------------------------
(* Providers.                                                              *)

Failure(kind) == [kind |-> kind, places |-> <<>>]
Found(places) == [kind |-> "OK", places |-> places]

classifyHttpFailure(status) ==
    CASE status = 404 -> "NOT_FOUND"
      [] status \in {408, 504} -> "TIMEOUT"
      [] status >= 500 -> "UNAVAILABLE"
      [] OTHER -> "INVALID_RESPONSE"

\* What happens to an HTTP request to Photon.  A body is malformed when it is
\* no JSON or any of its features fails the mapper's checks.
PhotonReplies ==
    [transport : {"answered", "aborted", "failed"}, oversized : BOOLEAN,
     status : {200, 400, 404, 408, 503, 504}, malformed : BOOLEAN,
     features : FeatureLists]

\* fetchJson and the mapper: the size is judged before the status, the status
\* before the body.
fetchJson(reply) ==
    CASE reply.transport = "aborted" -> Failure("TIMEOUT")
      [] reply.transport = "failed" -> Failure("UNAVAILABLE")
      [] reply.oversized -> Failure("INVALID_RESPONSE")
      [] reply.status # 200 -> Failure(classifyHttpFailure(reply.status))
      [] reply.malformed -> Failure("INVALID_RESPONSE")
      [] OTHER -> Found(reply.features)

\* Photon has no lookup by id; reverse takes the first feature.
photon(raw) ==
    IF raw.op = "lookup" THEN {Failure("NOT_FOUND")}
    ELSE {fetchJson(reply) : reply \in PhotonReplies}

\* The places nearest to a point first.
byDistance(places, point) ==
    SetToSortSeq(places,
                 LAMBDA a, b : DistanceMeters[a][point] < DistanceMeters[b][point])

\* FakeGeocodingProvider: autocomplete and search over its fixtures (whether a
\* text matches by prefix or anywhere is in Terms), lookup and reverse.
fake(raw) ==
    CASE raw.op = "lookup" ->
             {IF raw.token.id \in Places THEN Found(<<raw.token.id>>)
              ELSE Failure("NOT_FOUND")}
      [] raw.op = "reverse" ->
             {Found(SelectSeq(byDistance(Places, raw.point),
                              LAMBDA p : DistanceMeters[p][raw.point] <= 2000))}
      [] OTHER ->
             {Found(byDistance({p \in Places : LowerCase[raw.q] \in Terms[p][raw.op]},
                               proximity(raw)))}

Outcomes(raw) == IF Provider = "photon" THEN photon(raw) ELSE fake(raw)

\* The first limit results, the first one of a reverse lookup.
Taken(raw, places) ==
    LET n == CASE raw.op = "reverse" -> 1
               [] raw.op = "lookup" -> 1
               [] OTHER -> limitOf(raw)
    IN  IF Len(places) <= n THEN places ELSE SubSeq(places, 1, n)

labelOf(raw) ==
    IF Provider = "fake" \/ raw.op = "lookup"
    THEN "fixture"
    ELSE Analyzer[parseLanguage(raw.language)]

-----------------------------------------------------------------------------
(* Answers.                                                                *)

\* mapSuggestion.  "from" is the point the distance is measured from and
\* "fetched" the time at which the provider's result was mapped.
suggestion(raw, place) ==
    [id |-> encode(place), label |-> labelOf(raw),
     position |-> PlacePosition[place], from |-> proximity(raw),
     inside |-> contains(PlacePosition[place]), fetched |-> now]

\* mapDetails, of a reverse lookup at the requested point.
details(raw, place) ==
    LET position == IF raw.op = "reverse" THEN raw.point ELSE PlacePosition[place]
    IN  [id |-> encode(place), label |-> labelOf(raw), position |-> position,
         from |-> position, inside |-> contains(position), fetched |-> now]

\* mapProviderError
mapProviderError(kind) ==
    CASE kind = "NOT_FOUND" -> "PLACE_NOT_FOUND"
      [] kind = "TIMEOUT" -> "GEOCODER_TIMEOUT"
      [] kind = "INVALID_RESPONSE" -> "INVALID_PROVIDER_RESPONSE"
      [] kind = "UNAVAILABLE" -> "GEOCODER_UNAVAILABLE"

Answer(code, body) == [code |-> code, body |-> body]

\* Mutant: only the first suggestion gets its details entry.
cacheSuggestionLookupsFirst(entries, suggestions) ==
    IF suggestions = <<>> THEN entries
    ELSE AfterSet(entries, lookupKey(suggestions[1].id), <<suggestions[1]>>,
                  geocodingReverseCacheTtlMs, now, maximumEntries)

\* cacheSuggestionLookup for each suggestion in turn.
cacheSuggestionLookups(entries, suggestions) ==
    FoldLeft(LAMBDA e, s : AfterSet(e, lookupKey(s.id), <<s>>,
                 geocodingReverseCacheTtlMs, now, maximumEntries),
             entries, suggestions)

IdleRequest ==
    [status |-> "idle", raw |-> [op |-> "none"],
     outcome |-> Failure("none"), answer |-> Answer("none", <<>>)]

Reply(r, raw, answer) ==
    req' = [req EXCEPT ![r] = [IdleRequest EXCEPT !.status = "done",
                                 !.raw = raw, !.answer = answer]]

Unvaried == UNCHANGED <<secret, restarts, now>>

-----------------------------------------------------------------------------
(* Actions.                                                                *)

Init ==
    /\ cache = <<>>
    /\ req = [r \in Requests |-> IdleRequest]
    /\ secret = 0 /\ restarts = 0 /\ now = 0
    /\ Limiter!Init

\* The input is refused before the cache or the provider is touched.
Reject(r, raw) ==
    /\ req[r].status = "idle"
    /\ ErrorOf(raw) # "none"
    /\ Reply(r, raw, Answer(ErrorOf(raw), <<>>))
    /\ UNCHANGED <<cache, active, waiting, pc>> /\ Unvaried

\* A cached answer: a reverse one is given the requester's own point.
CachedBody(raw, value) ==
    IF raw.op = "reverse"
    THEN [i \in DOMAIN value |-> [value[i] EXCEPT !.position = raw.point]]
    ELSE value

\* A cache hit.  The suggestions of a query renew their details entries.
Hit(r, raw) ==
    /\ req[r].status = "idle"
    /\ ErrorOf(raw) = "none"
    /\ \E value \in Got(cache, KeyOf(raw), now) :
          /\ LET entries == AfterGet(cache, KeyOf(raw), now)
             IN  cache' = IF raw.op \in {"lookup", "reverse"} THEN entries
                          ELSE cacheSuggestionLookups(entries, value)
          /\ Reply(r, raw, Answer(IF raw.op = "reverse" /\ value = <<>>
                                  THEN "NO_CONTENT" ELSE "OK",
                                  CachedBody(raw, value)))
    /\ UNCHANGED <<active, waiting, pc>> /\ Unvaried

\* A miss goes to the limiter, which admits, queues or refuses it.
Miss(r, raw) ==
    /\ req[r].status = "idle"
    /\ ErrorOf(raw) = "none"
    /\ Got(cache, KeyOf(raw), now) = {}
    /\ cache' = AfterGet(cache, KeyOf(raw), now)
    /\ \/ /\ Limiter!acquire(r) \/ Limiter!Enqueue(r)
          /\ req' = [req EXCEPT ![r].status = "calling", ![r].raw = raw]
       \/ /\ Limiter!Refuse(r)
          /\ req' = [req EXCEPT ![r] = [status |-> "returned", raw |-> raw,
                         outcome |-> Failure("UNAVAILABLE"),
                         answer |-> Answer("none", <<>>)]]
    /\ Unvaried

\* The limiter lets the call go and the provider is asked ...
Start(r) ==
    /\ Limiter!Start(r)
    /\ UNCHANGED <<cache, req>> /\ Unvaried

\* ... and answers, or the timeout aborts the request.  The slot is given back
\* before the handler goes on.
ProviderReturns(r) ==
    /\ req[r].status = "calling"
    /\ Limiter!release(r)
    /\ \E outcome \in Outcomes(req[r].raw) :
          req' = [req EXCEPT ![r].status = "returned", ![r].outcome = outcome]
    /\ UNCHANGED cache /\ Unvaried

\* The rest of the handler.  Nothing is cached on an error.
Finish(r) ==
    LET raw == req[r].raw
        outcome == req[r].outcome
        taken == Taken(raw, outcome.places)
        body == [i \in DOMAIN taken |->
                    IF raw.op \in {"lookup", "reverse"} THEN details(raw, taken[i])
                    ELSE suggestion(raw, taken[i])]
        ttl == IF raw.op \in {"lookup", "reverse"}
               THEN geocodingReverseCacheTtlMs ELSE geocodingCacheTtlMs
        seeded == IF raw.op \in {"lookup", "reverse"} THEN cache
                  ELSE cacheSuggestionLookups(cache, body)
    IN  /\ req[r].status = "returned"
        /\ IF outcome.kind = "OK"
           THEN /\ cache' = AfterSet(seeded, KeyOf(raw), body, ttl, now,
                                     maximumEntries)
                /\ Reply(r, raw, Answer(IF raw.op = "reverse" /\ body = <<>>
                                        THEN "NO_CONTENT" ELSE "OK", body))
           ELSE /\ UNCHANGED cache
                /\ Reply(r, raw, Answer(mapProviderError(outcome.kind), <<>>))
        /\ IF pc[r] = "refused" THEN Limiter!Forget(r) ELSE UNCHANGED <<active, waiting, pc>>
        /\ Unvaried

\* The client has its answer.
Deliver(r) ==
    /\ req[r].status = "done"
    /\ req' = [req EXCEPT ![r] = IdleRequest]
    /\ UNCHANGED <<cache, active, waiting, pc>> /\ Unvaried

\* The process starts again: without a configured secret it signs with a new
\* random one.
Restart ==
    /\ restarts < MaxRestarts
    /\ restarts' = restarts + 1
    /\ secret' = IF SecretConfigured THEN secret ELSE secret + 1
    /\ cache' = <<>>
    /\ req' = [r \in Requests |-> IdleRequest]
    /\ active' = 0 /\ waiting' = <<>> /\ pc' = [r \in Requests |-> "idle"]
    /\ UNCHANGED now

Tick ==
    /\ now < MaxTime
    /\ now' = now + 1
    /\ UNCHANGED <<cache, req, secret, restarts, active, waiting, pc>>

Raws == RawQueries \cup RawLookups \cup RawReverses

Next ==
    \/ \E r \in Requests : \/ \E raw \in Raws : Reject(r, raw) \/ Hit(r, raw) \/ Miss(r, raw)
                           \/ Start(r) \/ ProviderReturns(r) \/ Finish(r) \/ Deliver(r)
    \/ Restart
    \/ Tick

Spec == Init /\ [][Next]_vars

\* The event loop runs every continuation and the abort timer ends every call
\* of the provider.
Fairness ==
    \A r \in Requests : WF_vars(Start(r)) /\ WF_vars(ProviderReturns(r)) /\ WF_vars(Finish(r))

FairSpec == Spec /\ Fairness

-----------------------------------------------------------------------------
Done(r) == req[r].status = "done"

\* The variables hold what the service allows, and the limiter is asked for
\* exactly the calls in progress.
TypeOK ==
    /\ Len(cache) <= maximumEntries
    /\ \A i, j \in DOMAIN cache : cache[i].key = cache[j].key => i = j
    /\ \A r \in Requests :
          /\ req[r].status \in {"idle", "calling", "returned", "done"}
          /\ req[r].status = "calling" <=> pc[r] \in {"waiting", "granted", "running"}
          /\ pc[r] = "refused" => req[r].status = "returned"
    /\ Limiter!TypeOK
    /\ now \in 0..MaxTime /\ secret \in 0..restarts /\ restarts \in 0..MaxRestarts

\* An answer fits the question of the request that gets it, also when it was
\* cached for another one: no more suggestions than asked for, labels of the
\* right language, distances from a point that rounds to the same cell; the
\* exact point of a reverse lookup; the token of a place lookup.
AnswersFitTheQuestion ==
    \A r \in Requests : Done(r) /\ req[r].answer.code = "OK" =>
        LET raw == req[r].raw
            body == req[r].answer.body
        IN  CASE raw.op = "lookup" ->
                     Len(body) = 1 /\ body[1].id = raw.token
              [] raw.op = "reverse" ->
                     /\ Len(body) = 1
                     /\ body[1].position = raw.point /\ body[1].inside
                     /\ body[1].label = labelOf(raw)
                     /\ cell(body[1].from, 10) = cell(raw.point, 10)
              [] OTHER ->
                     /\ Len(body) <= limitOf(raw)
                     /\ \A i \in DOMAIN body :
                           /\ body[i].label = labelOf(raw)
                           /\ cell(body[i].from, 1000) = cell(proximity(raw), 1000)

\* One step of AnswersAreFresh and of SuggestionsCanBeLookedUp: request r is
\* answered with a body.
IsAnswered(r) ==
    req[r].status # "done" /\ req'[r].status = "done" /\ req'[r].answer.code = "OK"

MaxAge(raw) ==
    CASE raw.op = "lookup" -> geocodingCacheTtlMs + geocodingReverseCacheTtlMs - 1
      [] raw.op = "reverse" -> geocodingReverseCacheTtlMs
      [] OTHER -> geocodingCacheTtlMs

\* One step of AnswersAreFresh.
AnsweredFresh ==
    \A r \in Requests : IsAnswered(r) =>
        \A i \in DOMAIN req'[r].answer.body :
            now - req'[r].answer.body[i].fetched < MaxAge(req'[r].raw)

\* No answer is older than its lifetime.  The details of a place outlive the
\* suggestion they came with: a cached answer renews them as long as it lives
\* itself, so their bound is the sum of the two lifetimes (less the tick in which
\* the second one would start), however often the query is repeated.
AnswersAreFresh == [][AnsweredFresh]_vars

\* One step of SuggestionsCanBeLookedUp.
TokensAreCached ==
    \A r \in Requests :
        IsAnswered(r) /\ req'[r].raw.op \notin {"lookup", "reverse"}
            /\ maximumEntries > Len(req'[r].answer.body) =>
            \A i \in DOMAIN req'[r].answer.body :
                \E e \in EntryOf(cache', lookupKey(req'[r].answer.body[i].id)) :
                    e.expiresAt >= now + geocodingReverseCacheTtlMs

\* Every token of an answer can be looked up when the answer leaves, fresh or
\* from the cache, if the cache is larger than the answer may be: the entries
\* of one answer do not evict each other.
SuggestionsCanBeLookedUp == [][TokensAreCached]_vars

\* With a provider that can look places up, a token resolves exactly when this
\* process's secret signed it for this provider, whatever was evicted or has
\* expired; only an overloaded limiter stands in the way.
TokensResolve ==
    \A r \in Requests : Done(r) /\ req[r].raw.op = "lookup" =>
        IF req[r].raw.token.secret = secret /\ req[r].raw.token.provider = Provider
        THEN req[r].answer.code \in {"OK", "GEOCODER_UNAVAILABLE"}
        ELSE req[r].answer.code = "PLACE_NOT_FOUND"

\* A call of the provider, queued or running, ends with an answer, unless the
\* process is restarted.
CallsAreAnswered ==
    \A r \in Requests : req[r].status = "calling" ~> req[r].status # "calling"
=============================================================================
