SPECIFICATION Spec
CONSTANTS
    DOWN_CONFIRMATIONS = 2
    DEGRADED_CONFIRMATIONS = 1
    PERFORMANCE_RECOVERY_CONFIRMATIONS = 1
    t1 = t1
    t2 = t2
    Target = {t1, t2}
    Maintained = {}
    Reminded = {}
    Upgraded = {}
    MayCrash = TRUE
    WritesMayFail = TRUE
    GapsMayHappen = FALSE
    MaxOutages = 1
    MaxReminders = 0
INVARIANTS OutageOnFileTold
PROPERTIES HeartbeatMeansSaved
SYMMETRY Interchangeable
VIEW WithoutConfirmations
