------------------------------- MODULE Ledger -------------------------------
(* The fold of the six core events: fold.ts, ordering.ts and history.ts of  *)
(* packages/domain/src, and the two queries of apps/mobile's eventStore.ts   *)
(* that decide which events a customer's projection is folded from.         *)
(*                                                                          *)
(* An event is a record [id, hlc, type, ...payload].  The hlc is a stamp    *)
(* of module Hlc, device included.  Payload fields are those the fold       *)
(* reads: customer, name, phone, amount, at (occurred_at ?? created_at),    *)
(* target (voids_event_id).  Amounts are naturals, names and phones values  *)
(* to compare.                                                              *)
EXTENDS Hlc, Sequences, FiniteSets, SequencesExt

CONSTANTS
    NoPhone,       \* phone: null
    KeepPhone      \* a CUSTOMER_RENAMED that omits phone

Entries == {"CREDIT_GIVEN", "PAYMENT_RECEIVED"}
OfCustomer == Entries \cup {"CUSTOMER_ADDED", "CUSTOMER_RENAMED", "CUSTOMER_ARCHIVED"}

\* buildEvent: an event is its envelope and what the payload adds to it.
Joined(envelope, payload) ==
    [x \in DOMAIN envelope \cup DOMAIN payload |->
        IF x \in DOMAIN envelope THEN envelope[x] ELSE payload[x]]

Before(e, f) == StampLess(e.hlc, f.hlc)

\* [...events].sort(compareByHlc), for events of distinct stamps.
Sorted(log) ==
    [i \in 1..Cardinality(log) |->
        CHOOSE e \in log : Cardinality({f \in log : Before(f, e)}) = i - 1]

\* Mutant of VoidedIds: a void counts only once its target is in the log.
VoidedIdsOfSeen(log) ==
    {e.target : e \in {f \in log : /\ f.type = "ENTRY_VOIDED"
                                   /\ \E g \in log : g.id = f.target /\ Before(g, f)}}

\* collectVoidedIds: a scan of the whole log, whatever the order.
VoidedIds(log) == {e.target : e \in {f \in log : f.type = "ENTRY_VOIDED"}}

----------------------------------------------------------------------------
\* fold: LedgerState is a function from the customers met to their rows, and
\* one from the customers with entries to their balances.
EmptyState == [customers |-> <<>>, balances |-> <<>>]

\* The Map map once k is set to v.
Put(map, k, v) == [x \in DOMAIN map \cup {k} |-> IF x = k THEN v ELSE map[x]]

\* Mutant of ApplyBalanceDelta: last_activity_at is the event folded last.
ApplyLastInOrder(balances, e) ==
    LET was == IF e.customer \in DOMAIN balances THEN balances[e.customer].balance ELSE 0
        delta == IF e.type = "CREDIT_GIVEN" THEN e.amount ELSE -e.amount
    IN  Put(balances, e.customer, [balance |-> was + delta, last |-> e.at])

\* applyBalanceDelta
ApplyBalanceDelta(balances, e) ==
    LET delta == IF e.type = "CREDIT_GIVEN" THEN e.amount ELSE -e.amount
        row == IF e.customer \in DOMAIN balances
               THEN LET b == balances[e.customer]
                    IN  [balance |-> b.balance + delta, last |-> Larger(b.last, e.at)]
               ELSE [balance |-> delta, last |-> e.at]
    IN  Put(balances, e.customer, row)

\* The CUSTOMER_* cases of the switch; an unknown customer is left alone.
ApplyCustomer(customers, e) ==
    LET known == e.customer \in DOMAIN customers
    IN  CASE e.type = "CUSTOMER_ADDED" ->
                 Put(customers, e.customer,
                     [name |-> e.name, phone |-> e.phone, archived |-> FALSE])
          [] e.type = "CUSTOMER_RENAMED" /\ known ->
                 [customers EXCEPT ![e.customer].name = e.name,
                                   ![e.customer].phone =
                                       IF e.phone = KeepPhone THEN @ ELSE e.phone]
          [] e.type = "CUSTOMER_ARCHIVED" /\ known ->
                 [customers EXCEPT ![e.customer].archived = TRUE]
          [] OTHER -> customers

\* The switch, for an event that is not voided.
Apply(state, e) ==
    [customers |-> IF e.type \in OfCustomer \ Entries
                   THEN ApplyCustomer(state.customers, e) ELSE state.customers,
     balances  |-> IF e.type \in Entries
                   THEN ApplyBalanceDelta(state.balances, e) ELSE state.balances]

\* One turn of the loop; a void cannot be voided.
Turn(state, e, voided) ==
    IF e.type = "ENTRY_VOIDED" \/ e.id \notin voided THEN Apply(state, e) ELSE state

\* The state after each turn of the loop over the sorted events.
Loop(sorted, voided) ==
    LET after[n \in 0..Len(sorted)] ==
            IF n = 0 THEN EmptyState ELSE Turn(after[n - 1], sorted[n], voided)
    IN  after

Fold(log) == Loop(Sorted(log), VoidedIds(log))[Cardinality(log)]

----------------------------------------------------------------------------
\* Payload fields are looked up in the record: directCustomerId is payload's
\* customer_id, of whatever type the event is.
HasCustomer(e) == "customer" \in DOMAIN e

\* Mutant of EventsForCustomer: the query without its ENTRY_VOIDED branch.
DirectEventsOf(log, c) == {e \in log : HasCustomer(e) /\ e.customer = c}

\* getEventsForCustomer: direct references, and the voids that target them.
EventsForCustomer(log, c) ==
    LET direct == {e \in log : HasCustomer(e) /\ e.customer = c}
    IN  direct \cup {e \in log : e.type = "ENTRY_VOIDED"
                                 /\ \E f \in direct : f.id = e.target}

\* Mutant of Owners: a void is nobody's, for want of a customer of its own.
DirectOwners(log, e) == IF HasCustomer(e) THEN {e.customer} ELSE {}

\* resolveCustomerId: the customers (none or one) whose projection e affects,
\* given the events in the table.
Owners(log, e) ==
    IF HasCustomer(e) THEN {e.customer}
    ELSE IF e.type = "ENTRY_VOIDED"
         THEN {f.customer : f \in {g \in log : g.id = e.target /\ HasCustomer(g)}}
         ELSE {}

\* writeProjection: the customer row and the balance row of c in a state, as
\* sets of at most one row; a balance with no customer is not written.
CustomerRow(state, c) ==
    IF c \in DOMAIN state.customers THEN {state.customers[c]} ELSE {}

BalanceRow(state, c) ==
    IF c \in DOMAIN state.customers \cap DOMAIN state.balances
    THEN {state.balances[c]} ELSE {}

\* One turn of customerHistory's loop: a line for the entry, with the balance
\* after it.
AddLine(lines, e, voided) ==
    LET was == IF lines = <<>> THEN 0 ELSE lines[Len(lines)].balance
        delta == IF e.id \in voided THEN 0
                 ELSE IF e.type = "CREDIT_GIVEN" THEN e.amount ELSE -e.amount
    IN  Append(lines, [event |-> e, voided |-> e.id \in voided, balance |-> was + delta])

\* The lines after each turn of the loop over the sorted entries.
Lines(sorted, voided) ==
    LET after[n \in 0..Len(sorted)] ==
            IF n = 0 THEN <<>> ELSE AddLine(after[n - 1], sorted[n], voided)
    IN  after

\* The entries of c, and the ids among them that are voided.
EntriesOf(log, c) == {e \in log : e.type \in Entries /\ e.customer = c}
VoidedOf(log, c) ==
    {e.target : e \in {f \in log : f.type = "ENTRY_VOIDED"
                                   /\ \E g \in EntriesOf(log, c) : g.id = f.target}}

\* customerHistory: c's entries in order, each with whether it is voided and
\* the balance after it.
History(log, c) ==
    Lines(Sorted(EntriesOf(log, c)), VoidedOf(log, c))[Cardinality(EntriesOf(log, c))]
=============================================================================
