\* One device, two logins, pairs that are refreshed once, two failures; the
\* breaker opens at three and an operation is tried twice.
CONSTANTS
    Phone = Phone
    Tablet = Tablet
    NoOne = NoOne
    NoPair = NoPair
    Device <- OneDevice
    Handler = {h1, h2}
    Threshold = 3
    MaxAttempts = 1
    MaxLogins = 2
    MaxPairs = 2
    MaxFailures = 2
SPECIFICATION FairSpec
INVARIANTS
    SessionSurvives
    OpenIsQuiet
PROPERTIES
    RedeemedOnce
    CircuitCloses
CHECK_DEADLOCK FALSE
