\* The rebuild test, when two calls run together and nothing fails; no sync.
CONSTANTS
    NoPhone = NoPhone
    KeepPhone = KeepPhone
    Cust1 = Cust1
    Cust2 = Cust2
    Name1 = Name1
    Op = {o1, o2}
    Me = 1
    Customers <- MCCustomers
    Drafts <- LocalDrafts
    RemotePages <- NoPages
    Unreadable <- NoneUnreadable
    Readings <- MCReadings
    MaxLocal = 3
    MaxMerges = 0
    MaxRebuilds = 0
    MaxFailures = 0
SPECIFICATION Spec
INVARIANT RebuildTest
CHECK_DEADLOCK FALSE
