\* Every log of up to four events of either book, in every order of arrival.
CONSTANTS
    Slots = 4
    StampOf <- Alternating
    Pushed = {1}
    Customers <- TwoCustomers
    Products = {1, 2}
    Books <- TwoBooks
    Sales <- SomeSales
    NoPhone = NoPhone
    KeepPhone = KeepPhone
    Phone1 = Phone1
    Cust1 = Cust1
    Cust2 = Cust2
    Keep = Keep
    NoLimit = NoLimit
    NoDate = NoDate
    BadDate = BadDate
    WalkIn = WalkIn
    Day = 2
    NoActivityDays = 1
    DuplicateWindow = 1
    RecentLimit = 2
    Never = Never
    Null = Null
    Absent = Absent
    Blank = Blank
    Listed = Listed
    Date = Date
    Text = Text
    Ids <- TwoCustomers
    Half = Half
    Infinite = Infinite
    NaN = NaN
    MaxMoney = 1
    MaxCounter = 1
SPECIFICATION Spec
INVARIANTS
    FoldIsReference
    CustomerFoldIsFold
    HistoryAgreesWithFold
    StockIsReference
    ExpiryBound
    SaleBooked
    WrittenIsRead
    AnomaliesExplained
    ScreensAgree
PROPERTY OnlyOwnersChange
CHECK_DEADLOCK FALSE
