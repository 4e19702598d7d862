SPECIFICATION Spec
CONSTANTS
    DOWN_CONFIRMATIONS = 2
    DEGRADED_CONFIRMATIONS = 3
    PERFORMANCE_RECOVERY_CONFIRMATIONS = 2
    t1 = t1
    Target = {t1}
    Maintained = {t1}
    Reminded = {t1}
    Upgraded = {}
    MayCrash = FALSE
    WritesMayFail = FALSE
    GapsMayHappen = FALSE
    MaxOutages = 2
    MaxReminders = 1
INVARIANTS CatchUpUnconfirmed
