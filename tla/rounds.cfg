SPECIFICATION FairSpec
CONSTANTS
    DOWN_CONFIRMATIONS = 2
    DEGRADED_CONFIRMATIONS = 3
    PERFORMANCE_RECOVERY_CONFIRMATIONS = 2
    t1 = t1
    Target = {t1}
    Maintained = {t1}
    Reminded = {}
    Upgraded = {t1}
    MayCrash = FALSE
    WritesMayFail = FALSE
    GapsMayHappen = FALSE
    MaxOutages = 3
    MaxReminders = 0
INVARIANTS TypeOK NotifiedWasTold HeartbeatHonest OpenOutageOnFile ClosureHasOpening CatchUpUnconfirmed ConfirmedNotRepeated
PROPERTIES OperatorLearns
