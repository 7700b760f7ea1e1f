------------------------------ MODULE Schemas ------------------------------
(* What an event may carry, and the gates it passes: the payload shapes of  *)
(* types.ts, the Zod schemas and buildEvent of events.ts, the commands of   *)
(* commands.ts and inventoryCommands.ts (all of packages/domain/src), the   *)
(* JSON text of eventStore.ts and api.ts, and validateIncomingEvent of      *)
(* server/src/validate.ts.                                                  *)
(*                                                                          *)
(* A payload is a function from its fields to values.  Of a text only what  *)
(* a check tells apart is kept: blank, a member of the field's enumeration, *)
(* a calendar date, the id of something, or any other.  Half stands for the *)
(* numbers that are no integers.                                            *)
EXTENDS Integers, FiniteSets, TLC

CONSTANTS
    Null,
    Absent,         \* an optional field that is left out
    Blank,          \* "", or spaces where they are trimmed
    Listed,         \* a member of the enumeration of the field it is in
    Date,           \* YYYY-MM-DD, and a day of the calendar
    Text,           \* any other string
    Ids,            \* UUIDs
    Half, Infinite, NaN,
    MaxMoney,       \* MAX_MONEY_MAGNITUDE
    MaxCounter      \* 99999, what the five digits of an hlc hold

ASSUME LimitsAreNumbers == MaxMoney \in Nat \ {0} /\ MaxCounter \in Nat \ {0}

Strings == {Blank, Listed, Date, Text} \cup Ids

\* The integers, as far as a check goes: one beyond the ceiling is enough.
Whole == -(MaxMoney + 1)..(MaxMoney + 1)
Positive == 1..(MaxMoney + 1) \cup {Half, Infinite}
Finite == Whole \cup {Half}

\* z.number() takes what is not NaN.
Numbers == Finite \cup {Infinite}

Nullable(S) == S \cup {Null}
Optional(S) == S \cup {Absent}

\* z.number().int(), z.number().int().positive()
Poisha == Whole
PositivePoisha == Whole \cap Positive

Enum == {Listed}

----------------------------------------------------------------------------
(* The shapes.  A Poisha and a number are one at run time.                  *)

CustomerAddedPayload ==
    [schema_version |-> {1}, customer_id |-> Strings, display_name |-> Strings,
     phone |-> Nullable(Strings)]

CustomerRenamedPayload ==
    [schema_version |-> {1}, customer_id |-> Strings, display_name |-> Strings,
     phone |-> Optional(Nullable(Strings))]

CustomerArchivedPayload ==
    [schema_version |-> {1}, customer_id |-> Strings, reason |-> Enum]

CreditGivenPayload ==
    [schema_version |-> {1}, entry_id |-> Strings, customer_id |-> Strings,
     amount_poisha |-> Numbers, note |-> Nullable(Strings), occurred_at |-> Nullable(Numbers)]

PaymentReceivedPayload ==
    [schema_version |-> {1}, entry_id |-> Strings, customer_id |-> Strings,
     amount_poisha |-> Numbers, note |-> Nullable(Strings), occurred_at |-> Nullable(Numbers)]

EntryVoidedPayload ==
    [schema_version |-> {1}, voids_event_id |-> Strings, reason |-> Enum]

ProductAddedPayload ==
    [schema_version |-> {1}, product_id |-> Strings, name |-> Strings, unit |-> Enum,
     sale_price_poisha |-> Nullable(Numbers), low_stock_threshold_units |-> Nullable(Numbers)]

ProductUpdatedPayload ==
    [schema_version |-> {1}, product_id |-> Strings,
     name |-> Optional(Strings), unit |-> Optional(Enum),
     sale_price_poisha |-> Optional(Nullable(Numbers)),
     low_stock_threshold_units |-> Optional(Nullable(Numbers))]

ProductArchivedPayload == [schema_version |-> {1}, product_id |-> Strings]

StockReceivedPayload ==
    [schema_version |-> {1}, movement_id |-> Strings, product_id |-> Strings,
     quantity_units |-> Numbers, cost_price_poisha |-> Nullable(Numbers),
     expiry_date |-> Nullable(Strings), occurred_at |-> Nullable(Numbers)]

StockSoldPayload ==
    [schema_version |-> {1}, movement_id |-> Strings, product_id |-> Strings,
     quantity_units |-> Numbers, sale_price_poisha |-> Numbers,
     sale_id |-> Nullable(Strings), occurred_at |-> Nullable(Numbers)]

StockAdjustedPayload ==
    [schema_version |-> {1}, movement_id |-> Strings, product_id |-> Strings,
     delta_units |-> Numbers, reason |-> Enum, note |-> Nullable(Strings)]

SaleRecordedPayload ==
    [schema_version |-> {1}, sale_id |-> Strings, customer_id |-> Nullable(Strings),
     total_poisha |-> Numbers, payment_method |-> Enum, cash_paid_poisha |-> Numbers,
     occurred_at |-> Nullable(Numbers)]

SeasonalMultiplierSetPayload ==
    [schema_version |-> {1}, product_id |-> Nullable(Strings), season |-> Enum,
     multiplier |-> Numbers]

ReorderSettingsSetPayload ==
    [schema_version |-> {1}, product_id |-> Nullable(Strings),
     lead_time_days |-> Nullable(Numbers), service_level |-> Nullable(Numbers)]

----------------------------------------------------------------------------
(* The schemas: each takes its shape, some of it narrowed.                  *)

CustomerAddedSchema == CustomerAddedPayload
CustomerRenamedSchema == CustomerRenamedPayload
CustomerArchivedSchema == CustomerArchivedPayload
CreditGivenSchema == [CreditGivenPayload EXCEPT !.amount_poisha = PositivePoisha]
PaymentReceivedSchema == [PaymentReceivedPayload EXCEPT !.amount_poisha = PositivePoisha]
EntryVoidedSchema == EntryVoidedPayload
ProductAddedSchema == [ProductAddedPayload EXCEPT !.sale_price_poisha = Nullable(Poisha)]

ProductUpdatedSchema ==
    [ProductUpdatedPayload EXCEPT !.sale_price_poisha = Optional(Nullable(Poisha))]

ProductArchivedSchema == ProductArchivedPayload

StockReceivedSchema ==
    [StockReceivedPayload EXCEPT !.quantity_units = Positive,
                                 !.cost_price_poisha = Nullable(Poisha)]

StockSoldSchema ==
    [StockSoldPayload EXCEPT !.quantity_units = Positive, !.sale_price_poisha = Poisha]

StockAdjustedSchema == StockAdjustedPayload

SaleRecordedSchema ==
    [SaleRecordedPayload EXCEPT !.total_poisha = Poisha, !.cash_paid_poisha = Poisha]

SeasonalMultiplierSetSchema == SeasonalMultiplierSetPayload

ReorderSettingsSetSchema ==
    [ReorderSettingsSetPayload EXCEPT !.service_level = Nullable({0, Half, 1})]

SchemaFor ==
    [CUSTOMER_ADDED          |-> CustomerAddedSchema,
     CUSTOMER_RENAMED        |-> CustomerRenamedSchema,
     CUSTOMER_ARCHIVED       |-> CustomerArchivedSchema,
     CREDIT_GIVEN            |-> CreditGivenSchema,
     PAYMENT_RECEIVED        |-> PaymentReceivedSchema,
     ENTRY_VOIDED            |-> EntryVoidedSchema,
     PRODUCT_ADDED           |-> ProductAddedSchema,
     PRODUCT_UPDATED         |-> ProductUpdatedSchema,
     PRODUCT_ARCHIVED        |-> ProductArchivedSchema,
     STOCK_RECEIVED          |-> StockReceivedSchema,
     STOCK_SOLD              |-> StockSoldSchema,
     STOCK_ADJUSTED          |-> StockAdjustedSchema,
     SALE_RECORDED           |-> SaleRecordedSchema,
     SEASONAL_MULTIPLIER_SET |-> SeasonalMultiplierSetSchema,
     REORDER_SETTINGS_SET    |-> ReorderSettingsSetSchema]

EventTypes == DOMAIN SchemaFor

----------------------------------------------------------------------------
(* buildEvent and the text an event becomes.                                *)

FieldOf(payload, f) == IF f \in DOMAIN payload THEN payload[f] ELSE Absent

\* schema.safeParse: every field of the schema has a value it takes.
Parses(schema, payload) == \A f \in DOMAIN schema : FieldOf(payload, f) \in schema[f]

\* What it returns: the fields of the schema that are there, and no others.
Parsed(schema, payload) ==
    [f \in {g \in DOMAIN schema : FieldOf(payload, g) # Absent} |-> payload[f]]

\* buildEvent: the event of a type, a payload and an envelope ctx, or none.
BuildEvent(type, payload, ctx) ==
    IF type \in EventTypes /\ Parses(SchemaFor[type], payload)
    THEN {ctx @@ [type |-> type, payload |-> Parsed(SchemaFor[type], payload)]}
    ELSE {}

Envelope(event) ==
    [f \in {"id", "device_id", "seq", "hlc", "shop_id", "created_at"} |-> event[f]]

\* JSON.parse of JSON.stringify: what is no finite number comes back as null.
AsText(payload) ==
    [f \in DOMAIN payload |-> IF payload[f] \in {Infinite, NaN} THEN Null ELSE payload[f]]

\* The row append writes, as rowToEvent reads it, as the body of a push has it.
Row(event) == [event EXCEPT !.payload = AsText(@)]

\* What a device makes of a row it pulled.
Merged(row) == BuildEvent(row.type, row.payload, Envelope(row))

----------------------------------------------------------------------------
(* validateIncomingEvent.                                                   *)

MoneyFields ==
    {"amount_poisha", "sale_price_poisha", "cost_price_poisha", "total_poisha",
     "cash_paid_poisha"}

\* findAbsurdMoney
AbsurdMoney(payload) ==
    \E f \in MoneyFields \cap DOMAIN payload :
        payload[f] \notin Nullable(-MaxMoney..MaxMoney)

\* HLC_RE: the text of a stamp has a place of five digits for the counter.
FitsHlc(hlc) == hlc.c \in 0..MaxCounter

\* The event the server stores, or none; shop is the token's.
ValidateIncomingEvent(raw, shop) ==
    IF /\ raw.id \in Ids
       /\ raw.device_id # Blank
       /\ raw.seq \in Whole /\ raw.seq >= 1
       /\ FitsHlc(raw.hlc)
       /\ raw.created_at \in Whole
       /\ raw.shop_id = shop
       /\ ~AbsurdMoney(raw.payload)
    THEN BuildEvent(raw.type, raw.payload, [Envelope(raw) EXCEPT !.shop_id = shop])
    ELSE {}

----------------------------------------------------------------------------
(* The commands: the event one builds, or none.  A command is a record of   *)
(* what it is given; ctx is the envelope.                                   *)

EntryCommand ==
    [entry_id : Ids, customer_id : Ids, amount_poisha : Numbers \cup {NaN},
     note : {Null, Text}, occurred_at : {Null, 1}]

\* applyCredit and applyPayment: an amount that is not above zero is refused.
ApplyEntry(type, cmd, ctx) ==
    IF cmd.amount_poisha \in Whole \ Positive THEN {}
    ELSE BuildEvent(type, [schema_version |-> 1] @@ cmd, ctx)

ApplyCredit(cmd, ctx) == ApplyEntry("CREDIT_GIVEN", cmd, ctx)
ApplyPayment(cmd, ctx) == ApplyEntry("PAYMENT_RECEIVED", cmd, ctx)

CorrectionCommand == [voids_event_id : Ids \cup {Text}, reason : Enum]

\* applyCorrection: whether there is such an event is not asked.
ApplyCorrection(cmd, ctx) == BuildEvent("ENTRY_VOIDED", [schema_version |-> 1] @@ cmd, ctx)

ArchiveCustomerCommand == [customer_id : Ids, reason : Enum]

\* applyArchiveCustomer; customers are those of the state.
ApplyArchiveCustomer(customers, cmd, ctx) ==
    IF cmd.customer_id \notin customers THEN {}
    ELSE BuildEvent("CUSTOMER_ARCHIVED", [schema_version |-> 1] @@ cmd, ctx)

AddProductCommand ==
    [product_id : Ids, name : {Blank, Text}, unit : Enum,
     sale_price_poisha : Nullable(Numbers), low_stock_threshold_units : Nullable(Numbers)]

AddProduct(cmd, ctx) ==
    IF \/ cmd.name = Blank
       \/ cmd.sale_price_poisha \in Whole \ Positive
       \/ cmd.low_stock_threshold_units \in Whole \ (Positive \cup {0})
    THEN {}
    ELSE BuildEvent("PRODUCT_ADDED", [schema_version |-> 1] @@ cmd, ctx)

ReceiveStockCommand ==
    [movement_id : Ids, product_id : Ids, quantity_units : Numbers \cup {NaN},
     cost_price_poisha : Nullable(Numbers), expiry_date : {Null, Date, Text},
     occurred_at : {Null, 1}]

\* Mutant of ReceiveStock: an infinite quantity is positive too.
ReceiveAnyStock(cmd, ctx) ==
    IF \/ cmd.quantity_units \notin Positive
       \/ cmd.cost_price_poisha \in Whole \ Positive
       \/ cmd.expiry_date \notin {Null, Date}
    THEN {}
    ELSE BuildEvent("STOCK_RECEIVED", [schema_version |-> 1] @@ cmd, ctx)

ReceiveStock(cmd, ctx) ==
    IF \/ cmd.quantity_units \notin Positive \cap Finite
       \/ cmd.cost_price_poisha \in Whole \ Positive
       \/ cmd.expiry_date \notin {Null, Date}
    THEN {}
    ELSE BuildEvent("STOCK_RECEIVED", [schema_version |-> 1] @@ cmd, ctx)

AdjustStockCommand ==
    [movement_id : Ids, product_id : Ids, delta_units : Numbers \cup {NaN}, reason : Enum,
     note : {Null, Text}]

AdjustStock(cmd, ctx) ==
    IF cmd.delta_units \notin Finite \ {0} THEN {}
    ELSE BuildEvent("STOCK_ADJUSTED", [schema_version |-> 1] @@ cmd, ctx)
=============================================================================
