SPECIFICATION ListSpec
CONSTANTS
    a = a
    x = x
    p = p
    c = c
    Url = {a, x}
    Page = {p}
    Command = {c}
    Odd = {x}
    MaxHandEdits = 1
PROPERTIES SavesOneEdit EmptiedOnPurpose SavedListLoads DroppedWasRemoved CleanRunWatchedAll
CHECK_DEADLOCK FALSE
