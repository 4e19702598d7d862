SPECIFICATION FairSpec
CONSTANTS
    CERT_WARN_DAYS = 3
    CERT_CRIT_DAYS = 1
    MaxDays = 4
    TREND_MIN_CHANGE_PCT = 50
    P95 = {4, 5, 6}
    LIVENESS_MAX_AGE = 6
    PERIOD = 2
    FAILURE_THRESHOLD = 2
    PAUSE = 2
    BUDGET = 4
    GRACE = 3
    DAYS = 2
    MINUTES = 3
    REMINDER_SCHEDULE_H <- Schedule
    REMINDER_REPEAT_H = 3
    MAX_WINDOWS = 2
    MaxElapsed = 6
    Ttfb = {60, 200}
    RETENTION = 4
    TREND_WINDOW = 2
    STRIP_BUCKETS = 2
    MIN_CHANGE_PCT = 50
    TREND_MIN_CHANGE_MS = 50
    TREND_MIN_SAMPLES = 1
    TREND_MIN_SUCCESS_PCT = 50
    TREND_MAX_SUCCESS_GAP_PCT = 5
    MaxRows = 3
    MaxTime = 6
    a = a
    x = x
    c = c
    Url = {a, x}
    Page = {}
    Command = {c}
    Odd = {x}
    MaxHandEdits = 1
INVARIANTS TypeOK HungRoundReplaced MutedAsDescribed RemindersKept RemindersSpaced NearestRank 
PROPERTIES CertSilenceEarned CertNotRepeated TrendSilenceEarned TrendNotRepeated WorkingMonitorKept WorkingRoundFinishes PruneUnseen RoundsGoOn EditsTakeEffect
CHECK_DEADLOCK FALSE
