SPECIFICATION PrSpec
CONSTANTS
    Groups = {"wake", "title"}
    MaxHeads = 1
    MaxReviewRetries = 2
    MaxFinalizerRetries = 3
    MaxFailed = 5
    Acts = {}
    MaxEvents = 5
INVARIANTS
    FinalizerRetriesBounded
CHECK_DEADLOCK FALSE
