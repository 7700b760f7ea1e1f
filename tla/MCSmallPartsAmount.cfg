\* What RecordEntryScreen.tsx says of the amount that is composed.
CONSTANTS
    Device <- TwoDevices
    Readings <- BackAndForth
    MaxEvents = 2
    MaxCounter = 2
    Caller = {c1, c2}
    Slot = {Salt, DeviceId}
    Salt = Salt
    Pin = {p1, p2}
    MaxDraws = 3
    MaxChanges = 2
    Timeout = 3
    Timer = {t1, t2}
    NoTimer = NoTimer
    Off = Off
    Keys = {0, 9}
    Chips = {5000, 100000}
    Balances <- Owed
    MaxPoishaDigits = 9
    MaxChips = 1
    NaN = NaN
    Minus = Minus
    Comma = Comma
    Point = Point
    Letter = Letter
    Server1 = Server1
    Server2 = Server2
    Server3 = Server3
    Server = {Server1, Server2, Server3}
    Nobody = Nobody
    Files <- RollOut
    MaxCrashes = 2
SPECIFICATION PartsSpec
INVARIANT AmountIsInteger
CHECK_DEADLOCK FALSE
