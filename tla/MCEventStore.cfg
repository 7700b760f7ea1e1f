\* Two calls at a time, any of which may be cut short: appends, archivings, a
\* merge of a page and a rebuild.
CONSTANTS
    NoPhone = NoPhone
    KeepPhone = KeepPhone
    Cust1 = Cust1
    Cust2 = Cust2
    Name1 = Name1
    Op = {o1, o2}
    Me = 1
    Customers <- MCCustomers
    Drafts <- MCDrafts
    RemotePages <- MCPages
    Unreadable <- MCUnreadable
    Readings <- MCReadings
    MaxLocal = 2
    MaxMerges = 1
    MaxRebuilds = 2
    MaxFailures = 1
SPECIFICATION Spec
INVARIANTS
    RowsAreFold
    SeqFollowsStamp
PROPERTY RebuildRestores
CONSTRAINT FourCalls
SYMMETRY OpSymmetry
CHECK_DEADLOCK FALSE
