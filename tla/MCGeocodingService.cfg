CONSTANTS
    r1 = r1
    r2 = r2
    Calls = {k1, k2, k3, k4, k5}
    maximumConcurrent = 2
    maximumQueued = 2
SYMMETRY Symmetry
SPECIFICATION ScenarioSpec
INVARIANTS AnswersFitTheQuestion SlotsAndQueueSound
PROPERTIES AnswersAreFresh SuggestionsCanBeLookedUp
