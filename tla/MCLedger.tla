------------------------------ MODULE MCLedger ------------------------------
(* The folds and the reports over every log of up to Slots events of a      *)
(* book: that of the customers or that of the products.                     *)
EXTENDS Books, Screens, Schemas

CONSTANTS Cust1, Cust2, Phone1

TwoCustomers == {Cust1, Cust2}

\* Two devices take turns; equal [l, c] are ordered by the device.  The last
\* stamp is for an event the checks add.
Alternating == [i \in 1..(Slots + 1) |-> [l |-> (i + 1) \div 2, c |-> 0, dev |-> i % 2]]

OfCustomers ==
    { [type |-> "CUSTOMER_ADDED", customer |-> Cust1, name |-> 1, phone |-> Phone1],
      [type |-> "CUSTOMER_ADDED", customer |-> Cust2, name |-> 2, phone |-> NoPhone],
      [type |-> "CUSTOMER_RENAMED", customer |-> Cust1, name |-> 2, phone |-> KeepPhone],
      [type |-> "CUSTOMER_RENAMED", customer |-> Cust1, name |-> 1, phone |-> NoPhone],
      [type |-> "CUSTOMER_ARCHIVED", customer |-> Cust1],
      [type |-> "CREDIT_GIVEN", customer |-> Cust1, amount |-> 2, at |-> 3],
      [type |-> "PAYMENT_RECEIVED", customer |-> Cust1, amount |-> 1, at |-> 1],
      [type |-> "CREDIT_GIVEN", customer |-> Cust2, amount |-> 2, at |-> 2],
      [type |-> "SALE_RECORDED", customer |-> Cust2] }

OfProducts ==
    { [type |-> "PRODUCT_ADDED", product |-> 1, name |-> 2, threshold |-> 1],
      [type |-> "PRODUCT_UPDATED", product |-> 1, name |-> Keep, threshold |-> NoLimit],
      [type |-> "PRODUCT_UPDATED", product |-> 1, name |-> 1, threshold |-> Keep],
      [type |-> "PRODUCT_ARCHIVED", product |-> 1],
      [type |-> "PRODUCT_ADDED", product |-> 2, name |-> 1, threshold |-> NoLimit],
      [type |-> "STOCK_RECEIVED", product |-> 1, units |-> 2, expiry |-> 0],
      [type |-> "STOCK_RECEIVED", product |-> 1, units |-> 1, expiry |-> 2],
      [type |-> "STOCK_RECEIVED", product |-> 2, units |-> 2, expiry |-> 1],
      [type |-> "STOCK_SOLD", product |-> 1, units |-> 1, at |-> 1],
      [type |-> "STOCK_ADJUSTED", product |-> 1, units |-> -2],
      [type |-> "STOCK_ADJUSTED", product |-> 2, units |-> 1] }

TwoBooks == {OfCustomers, OfProducts}

\* Today, in the unit of Day: the days 0 and 1 are over.
Now == 2 * Day

\* Sales: walk-ins who pay, customers who owe all or a part, and commands the
\* shop cannot mean.
SomeSales ==
    LET item(p, u) == [product |-> p, units |-> u]
        cmd(items, customer, method, total, cash) ==
            [items |-> items, customer |-> customer, method |-> method,
             total |-> total, cash |-> cash, at |-> 2, entry |-> customer # WalkIn]
    IN  { cmd(<<item(1, 1)>>, WalkIn, "CASH", 2, 2),
          cmd(<<item(1, 2)>>, Cust1, "CREDIT", 3, 0),
          cmd(<<item(1, 1), item(2, 1)>>, Cust1, "MIXED", 3, 1),
          cmd(<<item(2, 1)>>, Cust1, "CASH", 3, 1),
          cmd(<<item(2, 1)>>, WalkIn, "MIXED", 3, 1),
          cmd(<<>>, Cust1, "CREDIT", 3, 0) }

----------------------------------------------------------------------------
(* The shelf.                                                               *)

\* How many expired units of p may be on the shelf: every sale and every loss
\* takes its units from whatever is there, in all ways at once.  short says
\* that more was taken than was there, found that units came out of nowhere.
Shelf(p) ==
    LET put(s, e) ==
            [s EXCEPT !.total = @ + e.units,
                      !.expired = IF IsExpired(e, Now) THEN {x + e.units : x \in @} ELSE @]
        take(s, u) ==
            [s EXCEPT !.total = @ - u,
                      !.expired = UNION {{x - k : k \in Max({0, u - (s.total - x)})..Min({u, x})} :
                                            x \in @},
                      !.short = @ \/ s.total < u]
        step(s, e) ==
            CASE e.type = "STOCK_RECEIVED" -> put(s, e)
              [] e.type = "STOCK_ADJUSTED" /\ e.units > 0 -> [s EXCEPT !.found = TRUE]
              [] OTHER -> take(s, IF e.type = "STOCK_SOLD" THEN e.units ELSE -e.units)
    IN  FoldLeft(step, [total |-> 0, expired |-> {0}, short |-> FALSE, found |-> FALSE],
                 Sorted(For(Live, Movements, p)))

\* inventory.ts: at_most_expired_units "holds under ANY consumption order", of
\* a product on sale whose stock was never short and never grew by a count.
ExpiryBound ==
    LET state == State(log)
        risks == ToSet(ExpiryRisks(state, log, Now))
        bound(p) == MapThenSumSet(LAMBDA r : r.units, {r \in risks : r.product = p})
    IN  \A p \in Products :
          \/ Shelf(p).short \/ Shelf(p).found
          \/ p \in DOMAIN state.products /\ state.products[p].archived
          \/ \A x \in Shelf(p).expired : x <= bound(p)

----------------------------------------------------------------------------
(* What is written, and what the other devices read.                        *)

Shop == Text

\* Envelopes of the device: the counter of the hlc reaches past its five digits.
Contexts ==
    [id : {Cust1}, device_id : {Text}, seq : {1}, hlc : [l : {1}, c : 0..(MaxCounter + 1)],
     shop_id : {Shop}, created_at : {1}]

ByCommand ==
    UNION (     {ApplyCredit(cmd, ctx) : cmd \in EntryCommand, ctx \in Contexts}
           \cup {ApplyPayment(cmd, ctx) : cmd \in EntryCommand, ctx \in Contexts}
           \cup {ApplyCorrection(cmd, ctx) : cmd \in CorrectionCommand, ctx \in Contexts}
           \cup {AddProduct(cmd, ctx) : cmd \in AddProductCommand, ctx \in Contexts}
           \cup {ReceiveStock(cmd, ctx) : cmd \in ReceiveStockCommand, ctx \in Contexts}
           \cup {AdjustStock(cmd, ctx) : cmd \in AdjustStockCommand, ctx \in Contexts})

\* A payload the schema takes, with another value, or none, in one of its fields
\* or in one it does not know.
Payloads(type) ==
    LET schema == SchemaFor[type]
        some == [f \in DOMAIN schema |-> CHOOSE v \in schema[f] : TRUE]
    IN  {(f :> v) @@ some : f \in DOMAIN schema \cup {"other"},
                            v \in Strings \cup Numbers \cup {Null, Absent, NaN}}

\* What append makes of them; its callers pass no infinite number.
Appended ==
    {e \in UNION {BuildEvent(type, payload, ctx) :
                      <<type, payload, ctx>> \in
                          UNION {{type} \X Payloads(type) \X Contexts : type \in EventTypes}} :
        AsText(e.payload) = e.payload}

\* What the other devices read of e, by way of the table, the wire and the server.
Read(e) == UNION {Merged(Row(s)) : s \in ValidateIncomingEvent(Row(e), Shop)}

ReadAs(e) ==
    Read(e) = IF FitsHlc(e.hlc) /\ ~AbsurdMoney(e.payload) THEN {e} ELSE {}

\* A limit on the stock that is not finite is the one number a command lets
\* through that the text of an event has no form for.
LimitLost(e) ==
    e.type = "PRODUCT_ADDED" /\ e.payload.low_stock_threshold_units = Infinite

AllReadAs == \A e \in ByCommand \cup Appended : LimitLost(e) \/ ReadAs(e)

\* validate.ts: what is stored "is byte-identical to what the device wrote".  All
\* that append or a command writes passes the server and is merged elsewhere as
\* the same event, but for money above the ceiling and counters of six digits,
\* which the device takes and the server refuses for good.
WrittenIsRead ==
    /\ AllReadAs
    /\ \A cmd \in ArchiveCustomerCommand, ctx \in Contexts :
          LET customers == DOMAIN Fold(log).customers
          IN  \A e \in ApplyArchiveCustomer(customers, cmd, ctx) : ReadAs(e)

----------------------------------------------------------------------------
(* Reports.                                                                 *)

\* The shopkeeper reads one number on Home and on the aging list: the two agree
\* on who owes and how much, though one is a query and the other a fold, and
\* what Home lists as recent is what the histories say stands.
HomeIsAging(state) ==
    LET home == GetHomeVM(state, log)
        open == WithBalance(state, Now)
        standing(c) == SelectSeq(History(log, c), LAMBDA l : ~l.voided)
        recent == UNION {{l.event : l \in ToSet(standing(c))} : c \in Customers}
    IN  /\ home.owed = Aging(state, Now, 1).owed
        /\ home.owedBy = Cardinality(open)
        /\ Len(home.recent) = Min({RecentLimit, Cardinality(recent)})
        /\ ToSet(home.recent) \subseteq recent
        /\ \A e \in ToSet(home.recent), f \in recent \ ToSet(home.recent) : Before(f, e)

\* A customer has one balance, one warning and one name on the aging list, on
\* the customer list and at the end of the history; who is on the one and not on
\* the other is settled, and an unsent sale is all that only the one marks.
ListIsAging(state) ==
    LET rows == ToSet(ListCustomerRows(state, log, Now))
        open == WithBalance(state, Now)
        salesOf(c) == {e \in log : e.type = "SALE_RECORDED" /\ HasCustomer(e) /\ e.customer = c}
    IN  /\ {r.customer : r \in open} = {r.customer : r \in {r \in rows : r.balance # 0}}
        /\ \A r \in rows :
              /\ \A a \in open : a.customer = r.customer =>
                    /\ a.balance = r.balance /\ a.name = r.name
                    /\ a.reason = r.attention /\ a.idle = r.idle
              /\ r.customer \in PendingCustomers(log) => r.pending
              /\ r.pending => \/ r.customer \in PendingCustomers(log)
                              \/ \E e \in salesOf(r.customer) : ~e.synced
              /\ LET lines == CustomerDetail(r, EventsForCustomer(log, r.customer), Now).history
                 IN  IF lines = <<>> THEN r.balance = 0 ELSE lines[1].after = r.balance

\* The alerts are the rows the products warn of, archived ones last and silent.
AlertsAreProducts(state) ==
    LET rows == ProductList(state, log)
        warned == {r \in ToSet(rows) : r.attention # "NONE"}
    IN  /\ {<<a.product, a.reason>> : a \in ToSet(Alerts(state, log, Now).stock)}
             = {<<r.product, r.level>> : r \in warned}
        /\ \A i, j \in DOMAIN rows : i < j /\ rows[i].archived => rows[j].archived
        /\ \A r \in warned : ~r.archived

\* What does not add up comes first and is never cut off for less: no customer
\* below zero stands behind one above, and the list leaves nobody out who is in
\* the ledger, on the list and not settled.
UrgentFirst(state) ==
    LET open == WithBalance(state, Now)
        negative == {r \in open : r.balance < 0}
        stock == Alerts(state, log, Now).stock
    IN  /\ \A cap \in 0..2 :
              LET aging == Aging(state, Now, cap)
                  shown == aging.attention
              IN  /\ Len(shown) + aging.hidden + Len(aging.others) = Cardinality(open)
                  /\ \A i \in DOMAIN shown :
                        shown[i].balance > 0 => negative \subseteq {shown[j] : j \in 1..(i - 1)}
                  /\ negative \cap ToSet(aging.others) = {}
        /\ \A i, j \in DOMAIN stock :
              i < j /\ OnHand(state, stock[j].product) < 0 => OnHand(state, stock[i].product) < 0

\* The days' credits less the days' payments add up to the balances: every entry
\* that stands is of exactly one day.
DaysAddUp(state) ==
    LET day(k) == DailySummary(state, log, k * Day, (k + 1) * Day)
        net(k) == day(k).credit - day(k).payments
    IN  MapThenSumSet(net, 0..2)
          = MapThenSumSet(LAMBDA c : state.balances[c].balance, DOMAIN state.balances)

\* customerQueries.ts: "Home and Aging disagreed ... for the exact same
\* underlying data".  No two screens tell the shopkeeper different things: the
\* queries over the projections, the lists built from a fold, the histories and
\* the days' sums are of one ledger.
ScreensAgree ==
    LET state == State(log)
    IN  /\ HomeIsAging(state)
        /\ ListIsAging(state)
        /\ AlertsAreProducts(state)
        /\ UrgentFirst(state)
        /\ DaysAddUp(state)
=============================================================================
