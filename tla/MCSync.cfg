\* Two devices pushing and pulling side by side, one of which cannot read the
\* other's event; the rate envelope lets one event through at a time.
CONSTANTS
    Phone = Phone
    Tablet = Tablet
    Credit = Credit
    NoOne = NoOne
    Device <- TwoDevices
    Writer <- TwoDevices
    MaxEvents = 1
    Handler = {h1, h2}
    TypeOf <- OneType
    Refused <- NoneRefused
    Unreadable <- TabletOutdated
    PushBatch = 1
    PullPage = 1
    RateThreshold = 1
    MaxFailures = 1
SPECIFICATION Spec
INVARIANTS
    TypeOK
    NothingLost
    CursorComplete
PROPERTY ImplementsLedger
