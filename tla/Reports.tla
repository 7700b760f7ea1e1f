------------------------------ MODULE Reports ------------------------------
(* What the screens are told about the ledger: anomalies.ts and             *)
(* attention.ts of packages/domain/src, and the aging list, the alerts and  *)
(* the daily summary of apps/mobile/src/data/screenViewmodels.ts.  Numbers  *)
(* stay numbers; how they are written is left out.                          *)
EXTENDS Inventory

CONSTANTS
    NoActivityDays,     \* NO_ACTIVITY_ATTENTION_DAYS
    DuplicateWindow     \* DUPLICATE_SUSPECTED_WINDOW_MS

\* LedgerState: the two folds and the set of voided ids.
State(log) ==
    LET ledger == Fold(log)
        inventory == FoldInventory(log)
    IN  [customers |-> ledger.customers, balances |-> ledger.balances,
         products |-> inventory.products, stock |-> inventory.stock,
         voided |-> VoidedIds(log)]

\* Mutant of Active: what was voided is a candidate still.
ActiveOrVoided(state, log) == log

Active(state, log) == {e \in log : e.id \notin state.voided}

----------------------------------------------------------------------------
(* detectAnomalies *)

NegativeBalances(state, log) ==
    {[kind |-> "NEGATIVE_BALANCE", customer |-> c, amount |-> state.balances[c].balance,
      candidates |-> {e \in Active(state, log) : e.type \in Entries /\ e.customer = c}] :
        c \in {c \in DOMAIN state.balances : state.balances[c].balance < 0}}

NegativeStocks(state, log) ==
    {[kind |-> "NEGATIVE_STOCK", product |-> p, units |-> state.stock[p],
      candidates |-> {e \in Active(state, log) : e.type \in Movements /\ e.product = p}] :
        p \in {p \in DOMAIN state.stock : state.stock[p] < 0}}

\* One anomaly for every pair, whatever the order of its events.
Duplicates(state, log) ==
    LET payments == {e \in Active(state, log) : e.type = "PAYMENT_RECEIVED"}
        alike(e, f) == /\ e.customer = f.customer /\ e.amount = f.amount
                       /\ Larger(e.at - f.at, f.at - e.at) <= DuplicateWindow
    IN  {[kind |-> "DUPLICATE_SUSPECTED", events |-> pair] :
            pair \in {{x[1], x[2]} :
                x \in {y \in payments \X payments : y[1] # y[2] /\ alike(y[1], y[2])}}}

DetectAnomalies(state, log) ==
    NegativeBalances(state, log) \cup NegativeStocks(state, log) \cup Duplicates(state, log)

----------------------------------------------------------------------------
(* buildAgingVM *)

\* daysSince: whole days, negative for a time to come.
DaysSince(at, now) == (now - at) \div Day

\* customerAttention, for a balance that is not zero.
CustomerAttention(row, now) ==
    IF row.balance < 0 THEN "BALANCE_NEGATIVE"
    ELSE IF row.balance > 0 /\ DaysSince(row.last, now) >= NoActivityDays THEN "NO_ACTIVITY"
    ELSE "NONE"

\* The first two criteria of compareAttention, ...
Urgent(a, b) ==
    LET rank(x) == IF x.reason = "BALANCE_NEGATIVE" THEN 0 ELSE 1
    IN  rank(a) < rank(b) \/ (rank(a) = rank(b) /\ a.idle > b.idle)

\* ... and the rest; customers alike in all of them may come either way.
CompareAttention(a, b) ==
    \/ Urgent(a, b)
    \/ /\ ~Urgent(b, a)
       /\ a.balance > b.balance \/ (a.balance = b.balance /\ a.name < b.name)

\* The customers with something open, each with what the list says of it.
WithBalance(state, now) ==
    {[customer |-> c, name |-> state.customers[c].name,
      balance |-> state.balances[c].balance,
      reason |-> CustomerAttention(state.balances[c], now),
      idle |-> DaysSince(state.balances[c].last, now)] :
        c \in {c \in DOMAIN state.customers \cap DOMAIN state.balances :
                  ~state.customers[c].archived /\ state.balances[c].balance # 0}}

\* cap is attentionRowCap.
Aging(state, now, cap) ==
    LET rows == SetToSortSeq(WithBalance(state, now), CompareAttention)
        flagged == SelectSeq(rows, LAMBDA r : r.reason # "NONE")
        shown == SubSeq(flagged, 1, Min({cap, Len(flagged)}))
    IN  [owed |-> MapThenSumSet(LAMBDA r : r.balance,
                                {r \in WithBalance(state, now) : r.balance > 0}),
         attention |-> shown,
         hidden |-> Len(flagged) - Len(shown),
         others |-> SelectSeq(rows, LAMBDA r : r.reason = "NONE")]

----------------------------------------------------------------------------
(* buildAlertsVM *)

Severity == [NEGATIVE |-> 0, OUT |-> 1, LOW |-> 2]

Alerts(state, log, now) ==
    LET reported == {p \in DOMAIN state.products : ProductAttention(state, p) # "NONE"}
        row(p) == [product |-> p, name |-> state.products[p].name,
                   reason |-> ProductAttention(state, p)]
        before(a, b) == \/ Severity[a.reason] < Severity[b.reason]
                        \/ a.reason = b.reason /\ a.name < b.name
    IN  [stock |-> SetToSortSeq({row(p) : p \in reported}, before),
         expiry |-> ExpiryRisks(state, log, now)]

----------------------------------------------------------------------------
(* buildDailySummaryVM *)

InDay(e, start, end) == start <= e.at /\ e.at < end

DailySummary(state, log, start, end) ==
    LET of(type) == {e \in log : /\ e.type = type /\ e.id \notin state.voided
                                 /\ InDay(e, start, end)}
        total(S) == MapThenSumSet(LAMBDA e : e.amount, S)
    IN  [credit   |-> total(of("CREDIT_GIVEN")),
         payments |-> total(of("PAYMENT_RECEIVED")),
         entries  |-> Cardinality(of("CREDIT_GIVEN") \cup of("PAYMENT_RECEIVED")),
         sold     |-> Cardinality(of("STOCK_SOLD"))]
=============================================================================
