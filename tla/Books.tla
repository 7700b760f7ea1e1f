------------------------------- MODULE Books --------------------------------
(* A shop's log, growing one event at a time, and what a shopkeeper who     *)
(* reads the whole of it would say: the reference that the folds of module  *)
(* Ledger and module Inventory are compared with.                           *)
(*                                                                          *)
(* The event with id i carries the i-th stamp, so that ids that come in     *)
(* every order are events that arrive in every order of stamps; a void may  *)
(* name an event that arrived, will arrive, or never does, a customer may   *)
(* be renamed or charged before it is added.                                *)
EXTENDS Reports

CONSTANTS
    Slots,         \* bound: events of the log
    StampOf,       \* the stamp of each of them
    Pushed,        \* ids of those the server is known to have
    Customers,     \* customer ids
    Products,      \* product ids
    Books,         \* the books: each a set of payloads, voids apart
    Sales          \* sale commands, sensible or not

ASSUME SlotsAssumption == Slots \in Nat

\* Stamps are readings of clocks; no two events carry the same one.  The last is
\* that of an event added to a log which has the others.
ASSUME StampsAssumption ==
    \A i, j \in 1..(Slots + 1) :
        /\ StampOf[i] \in [l : Nat, c : Nat, dev : Nat]
        /\ StampOf[i] = StampOf[j] => i = j

\* buildEvent keeps of a payload what the schema of its type names, and that has
\* the type the schema says.
ASSUME BooksAssumption ==
    \A book \in Books : \A p \in book :
        /\ "type" \in DOMAIN p /\ p.type # "ENTRY_VOIDED"
        /\ {"id", "hlc", "synced"} \cap DOMAIN p = {}
        /\ p.type \in OfCustomer => HasCustomer(p) /\ p.customer \in Customers
        /\ p.type \in Entries => /\ {"amount", "at"} \subseteq DOMAIN p
                                 /\ p.amount \in Nat /\ p.at \in Int
        /\ p.type \in OfProduct \cup Movements => "product" \in DOMAIN p /\ p.product \in Products
        /\ p.type \in Movements => "units" \in DOMAIN p /\ p.units \in Int

\* What RecordSaleCommand says of its fields; whether the numbers make sense is
\* for SaleAccepted to say.
ASSUME SalesAssumption ==
    \A cmd \in Sales :
        /\ cmd.items \in Seq([product : Products, units : Int])
        /\ {cmd.total, cmd.cash, cmd.at} \subseteq Int
        /\ cmd.customer \in Customers \cup {WalkIn}
        /\ cmd.method \in {"CASH", "CREDIT", "MIXED"}

Voids == [type : {"ENTRY_VOIDED"}, target : 1..Slots]

VARIABLES log, book

vars == <<log, book>>

Init == log = {} /\ book \in Books

\* The event with id i and payload p.
EventOf(i, p) == Joined([id |-> i, hlc |-> StampOf[i], synced |-> i \in Pushed], p)

\* The INSERT of append or of merge.
Arrive ==
    \E i \in (1..Slots) \ {e.id : e \in log} : \E p \in book \cup Voids :
        /\ p.type = "ENTRY_VOIDED" => p.target # i
        /\ log' = log \cup {EventOf(i, p)}
        /\ UNCHANGED book

Spec == Init /\ [][Arrive]_vars

----------------------------------------------------------------------------
(* The reference: what a shopkeeper reading the whole log would say.        *)

Live == {e \in log : e.type = "ENTRY_VOIDED"
                     \/ ~\E v \in log : v.type = "ENTRY_VOIDED" /\ v.target = e.id}

\* Those of the events L that are of one of the types and of customer c, or of
\* product p.
Of(L, types, c) == {e \in L : e.type \in types /\ e.customer = c}
For(L, types, p) == {e \in L : e.type \in types /\ e.product = p}

Latest(S) == CHOOSE e \in S : \A f \in S : f = e \/ Before(f, e)

Added(L, c) == Of(L, {"CUSTOMER_ADDED"}, c)

\* Renames of c that came after c was first added.
Renames(L, c) ==
    {e \in Of(L, {"CUSTOMER_RENAMED"}, c) : \E a \in Added(L, c) : Before(a, e)}

RefCustomer(L, c) ==
    [name     |-> Latest(Added(L, c) \cup Renames(L, c)).name,
     phone    |-> Latest(Added(L, c) \cup {e \in Renames(L, c) : e.phone # KeepPhone}).phone,
     archived |-> \E e \in Of(L, {"CUSTOMER_ARCHIVED"}, c) :
                     Before(Latest(Added(L, c)), e)]

Total(S) == MapThenSumSet(LAMBDA e : e.amount, S)

RefBalance(L, c) ==
    [balance |-> Total(Of(L, {"CREDIT_GIVEN"}, c)) - Total(Of(L, {"PAYMENT_RECEIVED"}, c)),
     last    |-> Max({e.at : e \in Of(L, Entries, c)})]

\* fold returns the reference ledger: names and phones by the last event that
\* set them, balances as sums over what is not voided, wherever the void is.
FoldIsReference ==
    LET state == Fold(log)
    IN  /\ DOMAIN state.customers = {c \in Customers : Added(Live, c) # {}}
        /\ \A c \in DOMAIN state.customers : state.customers[c] = RefCustomer(Live, c)
        /\ DOMAIN state.balances = {c \in Customers : Of(Live, Entries, c) # {}}
        /\ \A c \in DOMAIN state.balances : state.balances[c] = RefBalance(Live, c)

\* Folding only what getEventsForCustomer returns gives the rows that folding
\* the whole log gives: why append and merge may re-fold one customer.
CustomerFoldIsFold ==
    LET whole == Fold(log)
    IN  \A c \in Customers :
          LET part == Fold(EventsForCustomer(log, c))
          IN  /\ CustomerRow(part, c) = CustomerRow(whole, c)
              /\ BalanceRow(part, c) = BalanceRow(whole, c)

\* The last line of a customer's history is the customer's balance, and its
\* voided lines are the entries the fold leaves out.
HistoryAgreesWithFold ==
    LET state == Fold(log)
    IN  \A c \in Customers :
          LET lines == History(log, c)
          IN  /\ c \in DOMAIN state.balances =>
                    lines # <<>> /\ lines[Len(lines)].balance = state.balances[c].balance
              /\ {lines[i].event : i \in {j \in DOMAIN lines : ~lines[j].voided}}
                    = Of(Live, Entries, c)

\* An event that arrives changes the rows of the customers resolveCustomerId
\* names when it arrives and of nobody else.
OnlyOwnersChange ==
    [][\A e \in log' \ log, c \in Customers :
          c \in Owners(log', e)
          \/ LET old == Fold(log)  new == Fold(log')
             IN  /\ CustomerRow(old, c) = CustomerRow(new, c)
                 /\ BalanceRow(old, c) = BalanceRow(new, c)]_vars
----------------------------------------------------------------------------
(* Products.                                                                *)

Stocked(L, p) == For(L, {"PRODUCT_ADDED"}, p)
Updates(L, p) == {e \in For(L, {"PRODUCT_UPDATED"}, p) : \E a \in Stocked(L, p) : Before(a, e)}

RefProduct(L, p) ==
    [name |-> Latest(Stocked(L, p) \cup {e \in Updates(L, p) : e.name # Keep}).name,
     threshold |-> Latest(Stocked(L, p) \cup {e \in Updates(L, p) : e.threshold # Keep}).threshold,
     archived |-> \E e \in For(L, {"PRODUCT_ARCHIVED"}, p) : Before(Latest(Stocked(L, p)), e)]

Units(S) == MapThenSumSet(LAMBDA e : e.units, S)

RefStock(L, p) ==
    Units(For(L, {"STOCK_RECEIVED", "STOCK_ADJUSTED"}, p)) - Units(For(L, {"STOCK_SOLD"}, p))

\* foldInventory returns the reference inventory: the stock is the sum of the
\* movements that stand, of unknown and archived products too.
StockIsReference ==
    LET state == FoldInventory(log)
    IN  /\ DOMAIN state.products = {p \in Products : Stocked(Live, p) # {}}
        /\ \A p \in DOMAIN state.products : state.products[p] = RefProduct(Live, p)
        /\ DOMAIN state.stock = {p \in Products : For(Live, Movements, p) # {}}
        /\ \A p \in DOMAIN state.stock : state.stock[p] = RefStock(Live, p)

----------------------------------------------------------------------------
(* Sales.                                                                   *)

\* Ids for n events that are not in the log, the later ones with later stamps.
Draws(n) ==
    {ids \in [1..n -> (1..Slots) \ {e.id : e \in log}] :
        \A i, j \in 1..n : i < j => ids[i] < ids[j]}

ContextsOf(ids) == [i \in DOMAIN ids |-> [id |-> ids[i], hlc |-> StampOf[ids[i]]]]

\* Units of the line items I.
ItemUnits(cmd, I) == MapThenSumSet(LAMBDA i : cmd.items[i].units, I)

\* recordSale: a sale takes its line items off the shelf and puts on the customer's
\* account what was not paid, each unless it was voided, and nothing besides.
SaleBooked ==
    \A cmd \in Sales : \A ids \in Draws(SaleEventCount(cmd)) :
        LET before == State(log)
            after == State(log \cup RecordSale(cmd, ContextsOf(ids)))
            stands(i) == ids[i] \notin after.voided
            taken(p) == {i \in DOMAIN cmd.items : cmd.items[i].product = p /\ stands(1 + i)}
            owes(c) == cmd.customer = c /\ cmd.cash < cmd.total /\ stands(SaleEventCount(cmd))
            balance(state, c) ==
                IF c \in DOMAIN state.balances THEN state.balances[c].balance ELSE 0
        IN  SaleAccepted(cmd, ContextsOf(ids)) =>
              /\ \A p \in Products : OnHand(after, p) = OnHand(before, p) - ItemUnits(cmd, taken(p))
              /\ \A c \in Customers :
                    balance(after, c) =
                        balance(before, c) + IF owes(c) THEN cmd.total - cmd.cash ELSE 0

----------------------------------------------------------------------------
(* Anomalies.                                                               *)

\* The log when the shopkeeper has tapped e away.
Without(e) ==
    log \cup {[id |-> Slots + 1, hlc |-> StampOf[Slots + 1], type |-> "ENTRY_VOIDED",
               target |-> e.id]}

\* EVENTS.md: the review screen shows the candidates "with one tap to void one":
\* they account for the number that is negative, one of them pulls it down, and
\* voiding any that does raises it.
AnomaliesExplained ==
    LET state == State(log)
    IN  /\ \A a \in NegativeBalances(state, log) :
              LET payments == {e \in a.candidates : e.type = "PAYMENT_RECEIVED"}
              IN  /\ payments # {}
                  /\ a.amount = Total(a.candidates \ payments) - Total(payments)
                  /\ \A e \in payments :
                        LET new == State(Without(e)).balances
                        IN  a.customer \in DOMAIN new =>
                                new[a.customer].balance = a.amount + e.amount
        /\ \A a \in NegativeStocks(state, log) :
              /\ a.units = MapThenSumSet(Delta, a.candidates)
              /\ \E e \in a.candidates : Delta(e) < 0
              /\ \A e \in a.candidates :
                    OnHand(State(Without(e)), a.product) = a.units - Delta(e)
        /\ \A a \in Duplicates(state, log) : \A e \in a.events :
              a \notin Duplicates(State(Without(e)), Without(e))
=============================================================================
