\* Two devices with two events each and wall clocks that jump back and forth; two
\* callers with one slot beside the salt, two PIN changes; a timer of three ticks;
\* amounts of up to nine digits; a roll-out of three servers, two of which may die.
CONSTANTS
    Device <- TwoDevices
    Readings <- BackAndForth
    MaxEvents = 2
    MaxCounter = 2
    Caller = {c1, c2}
    Slot = {Salt, DeviceId}
    Salt = Salt
    Pin = {p1, p2}
    MaxDraws = 3
    MaxChanges = 2
    Timeout = 3
    Timer = {t1, t2}
    NoTimer = NoTimer
    Off = Off
    Keys = {0, 9}
    Chips = {5000, 100000}
    Balances <- Owed
    MaxPoishaDigits = 9
    MaxChips = 1
    NaN = NaN
    Minus = Minus
    Comma = Comma
    Point = Point
    Letter = Letter
    Server1 = Server1
    Server2 = Server2
    Server3 = Server3
    Server = {Server1, Server2, Server3}
    Nobody = Nobody
    Files <- RollOut
    MaxCrashes = 2
SPECIFICATION PartsSpec
INVARIANTS
    TypeOK
    IssuedIsKept
    PinOpens
    LocksWhenIdle
    TextIsAmount
    MigratedOnce
PROPERTIES
    OwnStampsAdvance
    CausalInSession
    EventuallyServing
CHECK_DEADLOCK FALSE
