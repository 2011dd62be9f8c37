SPECIFICATION Spec
CONSTANTS
    Budget = 9
    SystemTokens = 1
    MarkerTokens = 1
    Tokens = {1, 3, 6}
    WithReasoning = TRUE
    MaxRows = 6
INVARIANT QueryNeverLost
CHECK_DEADLOCK FALSE
