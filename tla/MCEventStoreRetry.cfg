\* A page merged again after the first attempt was cut short.
CONSTANTS
    NoPhone = NoPhone
    KeepPhone = KeepPhone
    Cust1 = Cust1
    Cust2 = Cust2
    Name1 = Name1
    Op = {o1}
    Me = 1
    Customers <- MCCustomers
    Drafts <- MCDrafts
    RemotePages <- RetriedPages
    Unreadable <- NoneUnreadable
    Readings <- MCReadings
    MaxLocal = 0
    MaxMerges = 2
    MaxRebuilds = 0
    MaxFailures = 1
SPECIFICATION Spec
PROPERTY MergeRefolds
CHECK_DEADLOCK FALSE
