\* A phone that writes three events, pushed in batches of two, and a tablet that
\* follows: what the server does not refuse gets past a refused event, a failure,
\* a handler given up on and a full rate envelope, in its order and everywhere.
CONSTANTS
    Phone = Phone
    Tablet = Tablet
    Credit = Credit
    NoOne = NoOne
    Device <- TwoDevices
    Writer <- OneDevice
    MaxEvents = 3
    Handler = {h1, h2}
    TypeOf <- OneType
    Refused <- FirstRefused
    Unreadable <- AllReadable
    PushBatch = 2
    PullPage = 1
    RateThreshold = 1
    MaxFailures = 1
SPECIFICATION FairSpec
INVARIANT OwnOrderKept
PROPERTIES
    EventuallySettled
    EventuallyEverywhere
