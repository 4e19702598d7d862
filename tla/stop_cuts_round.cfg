SPECIFICATION LoopSpec
CONSTANTS
    LIVENESS_MAX_AGE = 60
    PERIOD = 2
    FAILURE_THRESHOLD = 3
    PAUSE = 4
    BUDGET = 14
    GRACE = 10
PROPERTIES StopWaitsForRound
