CONSTANTS
    Requests = {r1, r2, r3}
    PlainRequests = {r1, r2, r3}
    Nobody = nobody
    Fingerprints = {f1, f2}
    MaxExpiries = 2
    Rounds = 2
    Topics = {t1, t2}
    Visitors = {u1}
    Visits = {v1, v2}
    Workers = {w1, w2}
    MaxFaults = 1
SPECIFICATION PartsSpec
INVARIANTS
    OwnerKeepsRecord
    ExecutedOncePerTTL
    ReplayIsGenuine
    SucceedsOncePerTTL
    ShownAsOftenAsTaken
PROPERTIES
    AnswerStands
    MarkIsCleared
CHECK_DEADLOCK FALSE
