-------------------------- MODULE MCGeocodingService --------------------------
(***************************************************************************)
(* Two places, a point A and a point B that round to one cell, a point     *)
(* outside the region.  The searches differ in case, limit, language and   *)
(* exact point, so that some share a cache entry and some must not.        *)
(*                                                                         *)
(* There are three scenarios of the service, which differ in the provider, *)
(* in what clients send and in the bounds, and one of the limiter alone,   *)
(* with more calls than fit.  A behaviour is of one of them.               *)
(***************************************************************************)
EXTENDS ConcurrencyLimiter, Integers, TLC

CONSTANTS r1, r2  \* model values

VARIABLES
    scenario,
    cache, req, secret, restarts, now, busy, queue, callPc

serviceVars == <<cache, req, secret, restarts, now, busy, queue, callPc>>

\* As in GeocodingService.
Undefined == 1000000000
UndefinedText == "undefined"

A == [lat |-> -6200000, lon |-> 106800000]
B == [lat |-> -6200003, lon |-> 106800004]
Far == [lat |-> -7000000, lon |-> 106800000]
Off == [lat |-> 91000000, lon |-> 106800000]
Nowhere == [lat |-> Undefined, lon |-> Undefined]

MCRegion ==
    [minLat |-> -6437000, maxLat |-> -6025000,
     minLon |-> 106479000, maxLon |-> 106955000, fallbackFocus |-> A]

MCLowerCase == [Monas |-> "monas", monas |-> "monas"]
MCAnalyzer == [id |-> "default", en |-> "en"]
MCPlacePosition == [p1 |-> A, p2 |-> Far]
MCTerms ==
    [p1 |-> [autocomplete |-> {"monas"}, search |-> {"monas"}],
     p2 |-> [autocomplete |-> {}, search |-> {"monas"}]]
MCDistanceMeters ==
    [p1 |-> (A :> 0 @@ B :> 1), p2 |-> (A :> 90000 @@ B :> 90000)]

Query(op, q, point, limit, language, forField) ==
    [op |-> op, q |-> q, point |-> point, limit |-> limit,
     language |-> language, forField |-> forField]

Token(provider, place, number) ==
    [op |-> "lookup", token |-> [provider |-> provider, id |-> place, secret |-> number]]

Selected(point, language) == [op |-> "reverse", point |-> point, language |-> language]

BadQueries ==
    {Query("search", "x", A, 1, "id", UndefinedText),
     Query("search", "monas", Off, 1, "id", UndefinedText),
     Query("search", "monas", A, 9, "id", UndefinedText),
     Query("search", "monas", A, 1, "id", "HOME")}

\* Photon: the interplay of query entries and details entries.  The first two
\* searches share their cell but not their limit, the third one its language.
PhotonQueries ==
    {Query("search", "Monas", A, 1, "id", "ORIGIN"),
     Query("search", "monas", B, Undefined, UndefinedText, UndefinedText),
     Query("search", "monas", B, 1, "en", UndefinedText)}
PhotonLookups == {Token("photon", "p1", 0)}

\* Photon: reverse lookups.
ReverseQueries == {Query("autocomplete", "monas", A, Undefined, "id", UndefinedText)}
ReversePoints ==
    {Selected(A, "id"), Selected(B, UndefinedText), Selected(B, "en"),
     Selected(Far, "id"), Selected(A, "xx")}

\* The fake provider: refused input; tokens of this process, of an earlier one,
\* forged ones and another provider's.
FakeQueries == BadQueries \cup
               {Query("search", "monas", B, 1, "id", UndefinedText),
                Query("autocomplete", "Monas", Nowhere, Undefined, "en", "DESTINATION")}
FakeLookups == {Token("fake", "p1", 0), Token("fake", "p1", 1), Token("photon", "p1", 0)}
FakePoints == {Selected(B, "id"), Selected(Off, "id")}

-----------------------------------------------------------------------------
Suggest == INSTANCE GeocodingService WITH
    Requests <- {r1, r2}, Provider <- "photon",
    RawQueries <- PhotonQueries, RawLookups <- PhotonLookups, RawReverses <- {},
    FeatureLists <- {<<"p1", "p2">>},
    LowerCase <- MCLowerCase, Analyzer <- MCAnalyzer, PlacePosition <- MCPlacePosition,
    Terms <- MCTerms, DistanceMeters <- MCDistanceMeters, Region <- MCRegion,
    SecretConfigured <- FALSE, maximumEntries <- 3,
    geocodingCacheTtlMs <- 2, geocodingReverseCacheTtlMs <- 2,
    maximumConcurrent <- 1, maximumQueued <- 1, MaxTime <- 3, MaxRestarts <- 0,
    active <- busy, waiting <- queue, pc <- callPc

Reverse == INSTANCE GeocodingService WITH
    Requests <- {r1, r2}, Provider <- "photon",
    RawQueries <- ReverseQueries, RawLookups <- PhotonLookups, RawReverses <- ReversePoints,
    FeatureLists <- {<<>>, <<"p1", "p2">>},
    LowerCase <- MCLowerCase, Analyzer <- MCAnalyzer, PlacePosition <- MCPlacePosition,
    Terms <- MCTerms, DistanceMeters <- MCDistanceMeters, Region <- MCRegion,
    SecretConfigured <- FALSE, maximumEntries <- 2,
    geocodingCacheTtlMs <- 1, geocodingReverseCacheTtlMs <- 2,
    maximumConcurrent <- 1, maximumQueued <- 1, MaxTime <- 2, MaxRestarts <- 0,
    active <- busy, waiting <- queue, pc <- callPc

\* Nothing is queued: a second call at a time is refused.
Fake == INSTANCE GeocodingService WITH
    Requests <- {r1, r2}, Provider <- "fake",
    RawQueries <- FakeQueries, RawLookups <- FakeLookups, RawReverses <- FakePoints,
    FeatureLists <- {},
    LowerCase <- MCLowerCase, Analyzer <- MCAnalyzer, PlacePosition <- MCPlacePosition,
    Terms <- MCTerms, DistanceMeters <- MCDistanceMeters, Region <- MCRegion,
    SecretConfigured <- FALSE, maximumEntries <- 2,
    geocodingCacheTtlMs <- 1, geocodingReverseCacheTtlMs <- 2,
    maximumConcurrent <- 1, maximumQueued <- 0, MaxTime <- 2, MaxRestarts <- 1,
    active <- busy, waiting <- queue, pc <- callPc

\* The limiter has the constants of the configuration: two slots and a queue of
\* two for five calls, one more than fit.
ScenarioInit ==
    /\ scenario \in {"suggest", "reverse", "fake", "slots"}
    /\ Suggest!Init /\ Init

ScenarioNext ==
    /\ UNCHANGED scenario
    /\ \/ /\ \/ scenario = "suggest" /\ Suggest!Next
             \/ scenario = "reverse" /\ Reverse!Next
             \/ scenario = "fake" /\ Fake!Next
          /\ UNCHANGED vars
       \/ /\ scenario = "slots" /\ Next
          /\ UNCHANGED serviceVars

ScenarioSpec == ScenarioInit /\ [][ScenarioNext]_<<scenario, serviceVars, vars>>

Symmetry == Permutations({r1, r2})

-----------------------------------------------------------------------------
\* An answer fits the question of the request that gets it, also when it was
\* cached for another one; and with a provider that can look places up, a
\* token is answered exactly when this process's secret signed it.
AnswersFitTheQuestion ==
    /\ scenario = "suggest" => Suggest!AnswersFitTheQuestion
    /\ scenario = "reverse" => Reverse!AnswersFitTheQuestion
    /\ scenario = "fake" => Fake!AnswersFitTheQuestion /\ Fake!TokensResolve

\* No answer is older than its lifetime.  Suggestions live for two units in the
\* first scenario, so that a cached answer renews details that have aged.
AnswersAreFresh ==
    [][/\ scenario = "suggest" => Suggest!AnsweredFresh
       /\ scenario = "reverse" => Reverse!AnsweredFresh
       /\ scenario = "fake" => Fake!AnsweredFresh
      ]_<<scenario, serviceVars, vars>>

\* Every token of an answer can be looked up when the answer leaves.
SuggestionsCanBeLookedUp ==
    [][/\ scenario = "suggest" => Suggest!TokensAreCached
       /\ scenario = "reverse" => Reverse!TokensAreCached
       /\ scenario = "fake" => Fake!TokensAreCached
      ]_<<scenario, serviceVars, vars>>
=============================================================================
