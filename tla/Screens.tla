------------------------------ MODULE Screens ------------------------------
(* The rows the screens are built from: customerQueries.ts, viewmodels.ts   *)
(* and the rest of screenViewmodels.ts (apps/mobile/src/data).  Home and    *)
(* the customer list read the projection tables, that is CustomerRow and    *)
(* BalanceRow of a fold; the aging list, the alerts and the products are    *)
(* built from a fold in memory.                                             *)
(*                                                                          *)
(* synced of an event is that its synced_at is set, in either table.        *)
EXTENDS Reports

CONSTANTS
    RecentLimit,    \* RECENT_ACTIVITY_LIMIT
    Never           \* no last_activity_at

\* fold's pendingCustomerIds, and foldInventory's pendingProductIds.
PendingCustomers(log) == {e.customer : e \in {f \in log : f.type \in OfCustomer /\ ~f.synced}}

PendingProducts(log) ==
    {e.product : e \in {f \in log : f.type \in OfProduct \cup Movements /\ ~f.synced}}

\* unsyncedCustomerIds: any event with a customer_id in its payload.
UnsyncedCustomers(log) == {e.customer : e \in {f \in log : HasCustomer(f) /\ ~f.synced}}

----------------------------------------------------------------------------
(* customers LEFT JOIN balances                                             *)

HasEntries(state, c) == BalanceRow(state, c) # {}
BalanceOf(state, c) == IF HasEntries(state, c) THEN state.balances[c].balance ELSE 0

\* WHERE archived = 0
OnList(state) == {c \in DOMAIN state.customers : ~state.customers[c].archived}

\* toCustomerRowVM
CustomerRowVM(state, log, c, now) ==
    [customer  |-> c,
     name      |-> state.customers[c].name,
     phone     |-> state.customers[c].phone,
     balance   |-> BalanceOf(state, c),
     idle      |-> IF HasEntries(state, c) THEN DaysSince(state.balances[c].last, now) ELSE Never,
     attention |-> IF BalanceOf(state, c) = 0 THEN "NONE"
                   ELSE CustomerAttention(state.balances[c], now),
     pending   |-> c \in UnsyncedCustomers(log)]

\* listCustomerRows: recent first, then by name.
ListCustomerRows(state, log, now) ==
    LET last(r) == IF HasEntries(state, r.customer) THEN state.balances[r.customer].last ELSE 0
        before(r, s) == last(r) > last(s) \/ (last(r) = last(s) /\ r.name < s.name)
    IN  SetToSortSeq({CustomerRowVM(state, log, c, now) : c \in OnList(state)}, before)

\* Mutant of HasOpen: an archived customer's debt is counted on.
HasOpenEver(state) == {c \in DOMAIN state.customers : BalanceOf(state, c) # 0}

HasOpen(state) == {c \in OnList(state) : BalanceOf(state, c) # 0}

\* getHomeVM
GetHomeVM(state, log) ==
    LET entries == Sorted({e \in Active(state, log) : e.type \in Entries})
    IN  [owed   |-> MapThenSumSet(LAMBDA c : Larger(BalanceOf(state, c), 0), HasOpen(state)),
         owedBy |-> Cardinality(HasOpen(state)),
         recent |-> SubSeq(Reverse(entries), 1, Min({RecentLimit, Len(entries)}))]

\* buildCustomerDetailVM: the newest line first, and no day that is to come.
CustomerDetail(row, events, now) ==
    LET line(l) == [event   |-> l.event,
                    after   |-> l.balance,
                    daysAgo |-> Larger(DaysSince(l.event.at, now), 0),
                    voided  |-> l.voided]
        lines == History(events, row.customer)
    IN  [customer |-> row.customer, balance |-> row.balance,
         history  |-> Reverse([i \in DOMAIN lines |-> line(lines[i])])]

----------------------------------------------------------------------------
(* buildProductListVM                                                       *)

\* toProductRowVM
ProductRow(state, log, p) ==
    [product   |-> p,
     name      |-> state.products[p].name,
     archived  |-> state.products[p].archived,
     units     |-> OnHand(state, p),
     level     |-> StockLevel(OnHand(state, p), state.products[p].threshold),
     attention |-> ProductAttention(state, p),
     pending   |-> p \in PendingProducts(log)]

\* Archived products last, then by name.
ProductList(state, log) ==
    LET before(r, s) == \/ ~r.archived /\ s.archived
                        \/ r.archived = s.archived /\ r.name < s.name
    IN  SetToSortSeq({ProductRow(state, log, p) : p \in DOMAIN state.products}, before)
=============================================================================
