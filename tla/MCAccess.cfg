\* Two devices, two requests at once; locked at the second failure.
CONSTANTS
    Device = {d1, d2}
    Handler = {h1, h2}
    Pin = {p1, p2}
    NoOne = NoOne
    NoPin = NoPin
    Threshold = 2
    Base = 1
    Cap = 2
    MaxAge = 1
    MaxWrong = 3
    MaxFailures = 1
SPECIFICATION FairSpec
INVARIANTS
    LockIsLastFailures
    LetInWithThePin
PROPERTY RightPinGetsIn
CHECK_DEADLOCK FALSE
