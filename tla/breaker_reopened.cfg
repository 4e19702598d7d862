SPECIFICATION Spec
CONSTANTS
    k1 = k1
    k2 = k2
    discord = discord
    slack = slack
    Coroutine = {k1, k2}
    Configured = {discord, slack}
    WEBHOOK_RETRY_ATTEMPTS = 1
    WEBHOOK_RETRY_BASE_S = 1
    WEBHOOK_RETRY_AFTER_CAP_S = 2
    WEBHOOK_TIMEOUT_S = 5
    CIRCUIT_BREAK_AFTER = 3
    RetryAfter = {9}
    MaxDispatches = 8
INVARIANTS OpenOnConsecutiveLosses
