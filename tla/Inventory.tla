----------------------------- MODULE Inventory -----------------------------
(* The fold of the inventory events and the rules derived from it:          *)
(* inventory.ts, the product part of attention.ts, and recordSale of        *)
(* inventoryCommands.ts, all of packages/domain/src.                        *)
(*                                                                          *)
(* Events are those of module Ledger, with the payload fields product,      *)
(* name, threshold, units (delta_units of an adjustment included), expiry   *)
(* (a day, NoDate, or BadDate for text that is no date).  Products and      *)
(* names are naturals, so that they have an order.                          *)
EXTENDS Ledger, Integers

CONSTANTS
    Keep,       \* a field a PRODUCT_UPDATED omits
    NoLimit,    \* low_stock_threshold_units: null
    NoDate,     \* expiry_date: null
    BadDate,    \* an expiry_date parseIsoDateUtc makes nothing of
    WalkIn,     \* a sale's customer_id: null
    Day         \* DAY_MS

Movements == {"STOCK_RECEIVED", "STOCK_SOLD", "STOCK_ADJUSTED"}

Delta(e) == IF e.type = "STOCK_SOLD" THEN -e.units ELSE e.units

\* Mutant of ApplyStockDelta: the quantity is that of the last movement.
StockIsLastMovement(stock, e) == Put(stock, e.product, Delta(e))

\* applyStockDelta: a product nobody added has a stock row too.
ApplyStockDelta(stock, e) ==
    LET current == IF e.product \in DOMAIN stock THEN stock[e.product] ELSE 0
    IN  Put(stock, e.product, current + Delta(e))

\* The PRODUCT_* cases of the switch; an unknown product is left alone.
ApplyProduct(products, e) ==
    LET known == e.product \in DOMAIN products
        or(new, old) == IF new = Keep THEN old ELSE new
    IN  CASE e.type = "PRODUCT_ADDED" ->
                 Put(products, e.product,
                     [name |-> e.name, threshold |-> e.threshold, archived |-> FALSE])
          [] e.type = "PRODUCT_UPDATED" /\ known ->
                 [products EXCEPT ![e.product].name = or(e.name, @),
                                  ![e.product].threshold = or(e.threshold, @)]
          [] e.type = "PRODUCT_ARCHIVED" /\ known ->
                 [products EXCEPT ![e.product].archived = TRUE]
          [] OTHER -> products

OfProduct == {"PRODUCT_ADDED", "PRODUCT_UPDATED", "PRODUCT_ARCHIVED"}

EmptyInventory == [products |-> <<>>, stock |-> <<>>]

\* One turn of the loop.
StockTurn(s, e, voided) ==
    IF e.id \in voided THEN s
    ELSE [products |-> IF e.type \in OfProduct THEN ApplyProduct(s.products, e) ELSE s.products,
          stock    |-> IF e.type \in Movements THEN ApplyStockDelta(s.stock, e) ELSE s.stock]

\* The inventory after each turn of the loop over the sorted events.
StockLoop(sorted, voided) ==
    LET after[n \in 0..Len(sorted)] ==
            IF n = 0 THEN EmptyInventory ELSE StockTurn(after[n - 1], sorted[n], voided)
    IN  after

FoldInventory(log) == StockLoop(Sorted(log), VoidedIds(log))[Cardinality(log)]

\* state.stock.get(p)?.quantity_units ?? 0
OnHand(state, p) == IF p \in DOMAIN state.stock THEN state.stock[p] ELSE 0

StockLevel(q, threshold) ==
    CASE q < 0 -> "NEGATIVE"
      [] q = 0 -> "OUT"
      [] q > 0 /\ threshold # NoLimit /\ q <= threshold -> "LOW"
      [] OTHER -> "OK"

\* productAttention: what the row of an unarchived product warns of, if anything.
ProductAttention(state, p) ==
    IF state.products[p].archived THEN "NONE"
    ELSE LET level == StockLevel(OnHand(state, p), state.products[p].threshold)
         IN  IF level = "OK" THEN "NONE" ELSE level

----------------------------------------------------------------------------
\* A batch has expired once its day is over.
IsExpired(e, now) == e.expiry \notin {NoDate, BadDate} /\ now >= e.expiry * Day + Day

\* The receipts of p that stand and have expired.
ExpiredBatches(log, p, now) ==
    LET voided == VoidedIds(log)
    IN  {e \in log : /\ e.type = "STOCK_RECEIVED" /\ e.product = p
                     /\ e.id \notin voided /\ IsExpired(e, now)}

\* Mutant of ExpiredUnits: batches of one day are taken for one.
ExpiredUnitsByDay(batches) ==
    MapThenSumSet(LAMBDA x : x[2], {<<e.expiry, e.units>> : e \in batches})

ExpiredUnits(batches) == MapThenSumSet(LAMBDA e : e.units, batches)

\* expiryRisks, in its order.
ExpiryRisks(state, log, now) ==
    LET received == {e \in log : e.type = "STOCK_RECEIVED"}
        batches(p) == ExpiredBatches(log, p, now)
        risk(p) == [product |-> p, units |-> Min({OnHand(state, p), ExpiredUnits(batches(p))}),
                    earliest |-> Min({e.expiry : e \in batches(p)})]
        at == {p \in {e.product : e \in received} :
                  /\ batches(p) # {} /\ OnHand(state, p) > 0
                  /\ p \in DOMAIN state.products => ~state.products[p].archived}
        sooner(r, s) == \/ r.earliest < s.earliest
                        \/ r.earliest = s.earliest /\ r.product < s.product
    IN  SetToSortSeq({risk(p) : p \in at}, sooner)

----------------------------------------------------------------------------
\* Mutant of CreditPortion: what was paid is what is owed.
CreditIsCash(cmd) == cmd.cash

\* creditPortion
CreditPortion(cmd) == cmd.total - cmd.cash

\* saleEventCount
SaleEventCount(cmd) == 1 + Len(cmd.items) + IF CreditPortion(cmd) > 0 THEN 1 ELSE 0

\* The checks of recordSale; entry is credit_entry_id # null.
SaleAccepted(cmd, contexts) ==
    LET credit == CreditPortion(cmd)
    IN  /\ cmd.items # <<>>
        /\ \A i \in DOMAIN cmd.items : cmd.items[i].units > 0
        /\ cmd.total > 0 /\ 0 <= cmd.cash /\ cmd.cash <= cmd.total
        /\ CASE cmd.method = "CASH" -> credit = 0
             [] cmd.method = "CREDIT" -> cmd.cash = 0
             [] cmd.method = "MIXED" -> credit > 0 /\ cmd.cash > 0
        /\ credit > 0 => cmd.customer # WalkIn /\ cmd.entry
        /\ Len(contexts) = SaleEventCount(cmd)

\* recordSale: the sale, its line items, and what is owed, if anything is; a
\* context is the [id, hlc] of an event.
RecordSale(cmd, contexts) ==
    LET sale == IF cmd.customer = WalkIn THEN [type |-> "SALE_RECORDED"]
                ELSE [type |-> "SALE_RECORDED", customer |-> cmd.customer]
        item(i) == [type |-> "STOCK_SOLD", product |-> cmd.items[i].product,
                    units |-> cmd.items[i].units, at |-> cmd.at]
        owed == [type |-> "CREDIT_GIVEN", customer |-> cmd.customer,
                 amount |-> CreditPortion(cmd), at |-> cmd.at]
    IN  {Joined(contexts[1], sale)}
        \cup {Joined(contexts[1 + i], item(i)) : i \in DOMAIN cmd.items}
        \cup IF CreditPortion(cmd) > 0
             THEN {Joined(contexts[2 + Len(cmd.items)], owed)} ELSE {}
=============================================================================
