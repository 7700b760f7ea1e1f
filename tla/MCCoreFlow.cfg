\* Two handlers at once, one customer and one to add, two entries, one failure.
CONSTANTS
    Handler = {h1, h2}
    Name = {Karim, Rahim}
    NoName = NoName
    Amount = {1}
    MaxDepth = 4
    MaxEffects = 2
SYMMETRY Interchangeable
SPECIFICATION Spec
CHECK_DEADLOCK FALSE
INVARIANTS
    DoneIsRecorded
    UndoneIsGone
    StackIsSound
    ShownIsFresh
