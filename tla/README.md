# Hisab: TLA+ models, checks and proofs

Hisab is an offline-first ledger for small shops. Every device keeps an
append-only table of events, folds it into projections (customers, balances)
that the screens read, and exchanges events with a server that keeps the shop's
log in PostgreSQL. Nothing is locked and nothing is ever deleted: what makes the
program right is that a fold over a set of events gives the same answer
everywhere, that the projections follow the fold, and that sync loses nothing
while requests fail, are repeated, and run beside each other. These modules
model that, TLC checks them on small shops, and TLAPS proves the most important
of the properties for shops of any size.

All paths below are relative to the repository.

## The system

| component | state | operations | what is hard |
|---|---|---|---|
| hybrid logical clock (`apps/mobile/src/data/clock.ts`) | `HlcState` of one `Clock` object | `next`, `receive`, `createDeviceClock` | wall clocks that jump; restarts that forget what was received |
| customer fold (`packages/domain/src/fold.ts`, `ordering.ts`, `history.ts`) | none: pure functions of a set of events | `fold`, `collectVoidedIds`, `customerHistory` | events in any order of arrival, voids before their target |
| event store (`data/eventStore.ts`, `schema.ts`, `archiveCustomer.ts`, `bootstrap.ts`) | tables `events`, `sync_state`, `sync_cursor`, `customers`, `balances`; `seqChain`; the clock | `append`, `merge`, `rebuildProjections`, `archiveCustomer`, `unsynced`, `markPushed`, cursor | chains of awaited statements without a transaction; calls that overlap; kills |
| sync engine (`sync/syncEngine.ts`, `api.ts`, `backgroundTask.ts`) | the pass in flight, the cursor | `syncOnce`: push by batches, mark, pull by pages, merge | answers that are lost after the commit, retries beside a request still running |
| server log (`server/src/routes/events.ts`, `security/rateEnvelope.ts`, `validate.ts`, `migrations/001_events.sql`) | table `events` with `server_seq BIGSERIAL` | `pushEvents`, `pullEvents` | numbers taken before rows are visible; the rate envelope between validation and INSERT |
| tokens, login and lockout (`server/src/auth/*`, `routes/auth.ts`, `security/pinSession.ts`) | tables `tokens`, `login_attempts`; the client's token store | register, login, refresh, logout | rotation in separate statements, lost answers |
| inventory (`packages/domain/src/inventory.ts`, `inventoryCommands.ts`) | none: pure functions | `foldInventory`, `expiryRisks`, `recordSale` and commands of one event | a bound over every order of consumption, voids of parts of a sale |
| anomalies, attention (`packages/domain/src/anomalies.ts`, `attention.ts`) | none | `detectAnomalies`, `customerAttention`, `productAttention` | conflicts that appear with the merge, thresholds |
| events and their validation (`packages/domain/src/types.ts`, `events.ts`, `commands.ts`, `inventoryCommands.ts`; `server/src/validate.ts`) | none | `buildEvent`, the commands, `validateIncomingEvent` | four gates that must agree: the command, the schema, the JSON text, the server |
| view models (`data/screenViewmodels.ts`, `viewmodels.ts`, `customerQueries.ts`) | none | `buildAgingVM`, `buildAlertsVM`, `buildDailySummaryVM`, `buildProductListVM`, `getHomeVM`, `listCustomerRows`, `buildCustomerDetailVM` | one number from two sources, what is cut off, windows of days |
| circuit breaker, backoff (`sync/circuitBreaker.ts`, `backoff.ts`) | a counter and an instant | `canAttempt`, `recordFailure`, `recordSuccess` | failures counted in two places, the half-open probe |
| PIN screen and session (`security/PinScreen.tsx`, `pinSession.ts`) | mode, busy flag, failure count, cooldown | `submit`, `setPin`, what an answer does | the answer that is lost, the lockout of the server beside its own |
| inactivity timer (`security/inactivityTimer.ts`) | a timer of the platform, a flag | `start`, `recordActivity`, `pause`, its callback | a timer of an earlier call that is still armed |
| secure store and database key (`data/deviceId.ts`, `security/dbKeyDerivation.ts`) | device id, shop id and salt; the key of the encrypted database | `getOrCreateId`, `getOrCreateSalt`, `changePin` | two first calls at once; steps that cannot be rolled back |
| server start (`server/src/index.ts`, `db/migrate.ts`) | `schema_migrations`, the advisory lock | `main`, `migrate` | several builds rolled out at once, a crash between two files |
| recording screens (`navigation/CoreFlow.tsx`, `screens/*.tsx`, `data/customerQueries.ts`, `customerCommands.ts`) | the stack of screens, the form's draft, what each mounted screen keeps and has loaded | navigation, `handleConfirmEntry`, `handleUndo`, `handleAddCustomerSubmit`, `goToRecordEntry`, the loads | handlers that go on after their screen was left; reloads that overlap; state React keeps |
| keypad and the text of amounts (`screens/RecordEntryScreen.tsx`, `ui/formatDigits.ts`, `i18n/formatter.ts`, `packages/domain/src/money.ts`) | the amount being composed | digits, backspace, chips; `formatComposingPoisha`, `money` | an amount changed through its text, filled in below zero |
| routing, other screens, i18n | | | I/O and views |

How they interact: a screen calls a command, which calls `append`; `append` takes
a sequence number and a stamp, inserts the event, reads the customer's events
back, folds them and writes the two projection rows. `SyncEngine.syncOnce` reads
`unsynced()`, posts batches to `pushEvents`, marks what was settled, then pulls
pages after its cursor, hands them to `merge` (which inserts, moves the clock and
re-folds) and moves the cursor. Shared state is only the database on either side.

## Modules

* `Hlc` - `tick`, `tickReceive` and the order of stamps. A stamp is the triple
  `[l, c, dev]` that the text `encodeHlc` writes sorts like, as long as the
  counter keeps to its five digits (a listed hazard).
* `DeviceClock` - the clocks of several devices with the stamps in their tables:
  `Write`, `WriteRefused` (the tick is spent although the payload is refused),
  `Merge`, `Restart`. `Seed` is `createDeviceClock`.
* `Ledger` - pure: `Before`, `VoidedIds`, `Fold` over the six customer events,
  `EventsForCustomer` and `Owners` (the two queries of the event store that decide
  what is re-folded), the projection rows, and `History`.
* `EventStore` (EXTENDS `Ledger`, which EXTENDS `Hlc`) - one device. `op[o]` is a
  call in progress; every action is one awaited statement with what follows it up
  to the next `await`. `Throw` lets any statement fail, `Kill` restarts the app.
  `owed`, `shared`, `lost`, `dropped`, `contested` are history variables the
  properties use: which customers a call has changed and not yet written, which of
  them nobody will write since it was cut short (a rebuild, in the case of
  `dropped`), and which were last written by two calls at once.
* `Inventory` (EXTENDS `Ledger`) - pure: `FoldInventory`, `StockLevel`,
  `ExpiryRisks`, and the sale command as `SaleAccepted` and `RecordSale`.
* `Reports` (EXTENDS `Inventory`) - pure: `DetectAnomalies`, the attention rules,
  and the aging list, the alerts and the daily summary as numbers.
* `Screens` (EXTENDS `Reports`) - pure: the rows of `listCustomerRows`, `getHomeVM`,
  `buildCustomerDetailVM` and `buildProductListVM`, and the pending sets of the
  folds. What reads the projection tables takes `CustomerRow` and `BalanceRow`.
* `Books` (EXTENDS `Reports`) - a shop's log that grows by one event at a time
  (`Arrive`: an INSERT of `append` or `merge`), of which nothing is assumed but that
  ids and stamps are its own and payloads have passed `buildEvent`; and the reference
  definitions the folds, the history, the anomalies and the sale command are compared
  with: sets of the events that stand, the last of them, and sums.
* `Schemas` - pure: the payloads of all fifteen event types as functions from
  fields to values, their Zod schemas, `BuildEvent`, the text an event becomes
  (`AsText`), `ValidateIncomingEvent`, and the commands `ApplyEntry`,
  `ApplyCorrection`, `ApplyArchiveCustomer`, `AddProduct`, `ReceiveStock`,
  `AdjustStock`. Of a value only what some check tells apart is kept.
* `ReplicatedLedger` - what sync promises: a ledger that grows, copies that grow,
  acknowledgements that are never wrong. Four actions.
* `Sync` - the devices and the server. `pass[d]` is the pass in flight, `call[h]`
  a request a server handler works on. A handler outlives the caller that gave up
  on it (`Retry`, `Abort`), so the old and the repeated push run side by side; it
  takes its `server_seq` (`TakeNumber`) before its row is visible (`Commit`).
  `Ledger == INSTANCE ReplicatedLedger WITH held <- table, ledger <- Stored,
  acked <- marked` is the refinement.
* `Session` - the tokens. The server's `rotateRefreshToken`, `issuePair`,
  `revokeFamily` and logout are one action per SQL statement, `call[h]` being the
  request; on the device, `StartPass`, `UseAccess`, `AskRefresh`, `Work`, `Denied`,
  `Fails` and `Clear` are the token handling, the retries and the breaker of
  `SyncEngine`, `Login` the PIN screen. A request nobody waits for any more runs on
  (`RefreshLost`, `LoginLost`, `Kill`). A token is a pair `<<device, login, n>>`;
  `access`, `live` and `spent` are the rows of the table `tokens`. `hurt` and
  `raced` are history variables. The data a pass moves is in `Sync`, its tokens
  are here: the two share the pass and nothing else.
* `Access` - the way in, for one phone number. The server's `register` and `login`
  with the two statements of `recordFailedAttempt` are one action per statement;
  `Submit`, `Choose`, `Mismatch`, `SetPin` and `Answer` are `PinScreen` with its
  `PinSession`. Instants are kept as the time left until them. `Issue` stands for
  `issuePair`, whose statements are in `Session`; what a token is worth afterwards
  is there too. `owed`, `last`, `raced` and `with` are history variables.
* `CoreFlow` - the screens. A tap either moves the stack or starts a handler
  (`Confirm`, `Undo`, `Save`, `RecordFromDetail`); the handler's second half
  (`EntryRecorded`, `ShowDone`, `EntryVoided`, `CustomerAdded`, `RowRead`) runs when
  its call has returned, wherever the stack is by then. `Goes` is what React does
  when the stack changes: a screen after one of its own kind keeps its state, one
  after another kind is new; the effects run again when `refreshToken` or the
  customer changes. The updates between two awaits are one step. The event store
  is reduced to what its calls promise; `EventStore` says when that may fail.
  `late`, `overtook`, `unseen` and `typedFor` are history variables.
* `Secrets` - what a device draws once and keeps (`Ask`, `ReadExisting`, `Draw`,
  `Keep`, one action per await of `getOrCreateId` and `getOrCreateSalt`), and
  `changePin` as `OpenCurrent`, `Rekey`, `Verified`, `RekeyFails`. `Throws` and `Kill`
  come between any two steps. A key is the pair of the PIN and the salt.
* `InactivityTimer` - `Start`, `RecordActivity`, `Pause` and the callback `Fire`
  over the timers the platform has armed; `handle` is the only one the object knows.
* `Migrate` - servers of builds with more files or fewer, each from `Boot` over the
  lock, the table, one transaction per file to `Listen`; `Fails` is a file that
  throws or a process that dies, which gives up its lock and its transaction.
* `EntryAmount` - the keypad and the chips of `RecordEntryScreen` (`PressDigit`,
  `Backspace`, `AddChip`), which change the amount through its text, and the three
  places that write an amount: `FormatComposingPoisha`, `ToDisplayTaka` and
  `FormatPoisha`. A text is a sequence of digits and signs; `String` and `Number` are
  JavaScript's. What Confirm does with the amount is in `CoreFlow`.
* `LedgerProofs` (with the lemmas about `Hlc`), `BookProofs`, `EventStoreProofs`, `SyncProofs`,
  `SessionProofs`, `AccessProofs`, `CoreFlowProofs` and `SmallPartsProofs` (with
  `DeviceClock`) - the theorems.
* `MCDeviceClock`, `MCLedger`, `MCEventStore`, `MCSync`, `MCSession`,
  `MCAccess`, `MCCoreFlow`, `MCSmallParts` - instances
  for TLC. `MCLedger` is `Books` with two books, and holds the properties of the shelf,
  the screens and the written events besides; `MCSmallParts` runs `DeviceClock`, `Secrets`,
  `InactivityTimer`, `EntryAmount` and `Migrate`, which share nothing, in one run: a
  behaviour moves one of them only.

Operators named "Mutant of X" are plausible slips of X that the checked
properties are known to catch; no specification uses them.

## Runs

| run | checks | shows |
|---|---|---|
| `device_clock_restart` | `CausalAlways`, violated | after a restart it may: the clock is seeded from own events only (`clock.ts:140`) |
| `ledger` | `FoldIsReference`, `CustomerFoldIsFold`, `HistoryAgreesWithFold`, `OnlyOwnersChange` | fold, per-customer fold and history agree with the reference for every set of up to four events in every order of arrival; an event changes only the customers `Owners` finds |
| `ledger` | `StockIsReference`, `ExpiryBound`, `SaleBooked` | the inventory fold agrees with its reference; `at_most_expired_units` holds whichever units were sold; a sale moves goods and debt by exactly what was agreed, whichever part of it is voided |
| `ledger` | `WrittenIsRead` | an event a command builds is stored, sent, accepted by the server and rebuilt by the other devices as it was, but for money above the ceiling, a counter of six digits, and a stock limit that is not finite |
| `ledger` | `AnomaliesExplained`, `ScreensAgree` | the candidates of an anomaly account for it and voiding one mends it; Home, the customer list, the aging list, the detail, the alerts, the products and the days tell one story, and nothing that does not add up is cut off |
| `event_store` | `RowsAreFold`, `SeqFollowsStamp`, `RebuildRestores` | exactly when a projection may differ from the fold (a call cut short, or two calls on one customer), and that a rebuild mends it, unless a second one beside it empties the tables and is cut short |
| `event_store_double_tap` | `RebuildTest`, violated | two appends may leave the older fold in the table |
| `event_store_retry` | `MergeRefolds`, violated | a merge cut short and repeated does not re-fold what it had inserted |
| `sync` | `TypeOK`, `NothingLost`, `CursorComplete`, `ImplementsLedger` | the safety of sync under failures, refusals and abandoned handlers |
| `sync_live` | `OwnOrderKept`, `EventuallySettled`, `EventuallyEverywhere` | a device's events get increasing `server_seq` in the order it wrote them, retries included, unless one was rejected; what the server does not refuse gets there, is acknowledged, and reaches the other devices |
| `session` | `SessionSurvives`, `RedeemedOnce`, `OpenIsQuiet`, `CircuitCloses` | a device keeps a refresh token it can redeem unless an answer was lost, a logout or thirty days came; no token is redeemed twice but by overlapping requests; an open circuit is silent and closes again |
| `access` | `LockIsLastFailures`, `LetInWithThePin`, `RightPinGetsIn` | the lock is the one the last failure calls for, unless two failures cross; of several registrations one wins; who knows the PIN and goes on trying gets in |
| `core_flow` | `DoneIsRecorded`, `UndoneIsGone`, `StackIsSound`, `ShownIsFresh` | a Done screen is that of a recorded entry and never of one already undone; a screen names the customer it records for, and what is typed on it was typed for him; when a screen leads nowhere, and when it may go on showing old balances |
| `small_parts` | `TypeOK`, `OwnStampsAdvance`, `CausalInSession` | a device never stamps backwards over any restarts and readings; within one run of the app it never stamps before what it merged; no table holds a stamp its device has not written |
| `small_parts` | `IssuedIsKept`, `PinOpens`, `LocksWhenIdle` | what was handed out is what is kept unless two first calls overlap; after a PIN change cut short a PIN its owner would try opens the database; the screen locks after exactly the idle time |
| `small_parts` | `TextIsAmount` | the text under the keypad is the amount Confirm hands over, sign and grouping included, and what the other screens write of it later; backspace takes back a digit; only an amount filled in below zero can go wrong |
| `small_parts` | `MigratedOnce`, `EventuallyServing` | servers rolled out together apply every file once and come to serve |
| `entry_amount` | `AmountIsInteger`, violated | taking back the digits of an amount below zero leaves a minus sign, which is read as NaN (`RecordEntryScreen.tsx:81`) |

Violated runs are disagreements between the code and what the repository says of
it; PROJECT.json quotes both under "findings".

### Bounds, and why they are enough

* `device_clock_restart`, and the clocks in `small_parts`: two devices, two events
  each, readings 0 and 2 (behind and ahead of any counter), counters to 3 and to 2.
  One device behind, one ahead and a restart between two writes are the interesting
  cases; the proof removes the bound.
* `ledger`: two books of logs of four events. Customers: two of them, six kinds of
  events; products: two, six kinds of events, batches that have expired and not;
  in both, voids of entries and of voids, equal and different stamps.
  `SaleBooked` adds every command of a set to every log with room for its events,
  with every draw of ids not taken.
  `ExpiryBound` leaves out archived products, which the report skips, and two
  cases in which the log itself does not know what is on the shelf: more taken
  than was there, and units found by a count. For those the bound may fail. The reference is a set comprehension,
  so an error of ordering or of voiding needs at most an addition, an entry, a
  void and one more event to show.
  `WrittenIsRead` takes every command with every combination of the values its checks
  tell apart (blank, listed, a date, any text; zero, one, one above the ceiling of one,
  the negatives, half, infinite, NaN), and every event type with each of these, or
  none, in one field at a time.
* `event_store`: two calls in progress, two local events, one merged page of two
  events, two rebuilds, one failure. Two calls suffice for a lost update of a
  row, one failure for a call cut short. A second rebuild is needed for one
  to find its rows dropped behind its back. `FourCalls`
  keeps the whole to four calls. The calls' names are interchangeable
  (SYMMETRY); all checked properties treat them alike.
* `sync`: two devices with one event each, one of them unreadable for the other;
  batches and pages of one; two handlers; one failure; a rate threshold of one.
  `sync_live`: a phone with three events of which the first is always refused, a
  tablet that only follows, batches of two, one failure: the smallest in which a
  retry overlaps an abandoned handler in mid-batch.
* `session`: one device, two logins, pairs refreshed once, two requests at the
  server, two failures (a loss and what follows from it), a breaker that opens at
  three. A refresh that is repeated, and a login beside a refresh, need no more.
  Other devices' families are other rows; only logout and a 401 reach across.
* `access`: two devices, two requests at once, three wrong PINs, a lockout from the
  second on that doubles once and is then capped, one failure, requests that take up
  to one unit of time. Two counted failures that both lock, and a login between
  them, need no more.
* `small_parts`, the others: two callers with one slot beside the salt, three draws,
  two PIN changes, two PINs; a timer of three ticks on a platform with two; three
  servers, one of a build with two migrations and two with three, two crashes. Two
  first calls and one change cut short after another need no more; an old build after
  a new one is the case in which a file is missing from the image. Amounts have up to
  nine digits, as in the code, pressed from 0 and 9, which make every length and
  grouping and a fraction of nothing; a chip of fifty or of a thousand taka, tapped
  once; a payment filled in with -300.00, -0.05 or 2500.50.
* `core_flow`: two handlers at once, four screens deep, two names, one amount; a
  customer to begin with, and two of: a customer added, an entry recorded, a call
  that fails, a kill. Two handlers suffice for one to move the stack under the
  other. Handlers and names are interchangeable (SYMMETRY).

### Fairness

`Sync!FairSpec` asks weak fairness of the steps of a pass, of the steps of a
handler, and of events leaving the 24-hour window. The first is what
`backgroundTask.ts` gives while the app is in the foreground (a pass every two
minutes, and one at start); the second is the server running; the third is time.
`Session!FairSpec` asks the same of the steps of passes and handlers, and that the
minute of an open circuit passes: the model's circuit only cools down, while a wall clock
set back would open a half-open one again. `MigrateSpec` asks that a process that was started goes on and that PostgreSQL
hands out a lock that is free; nobody has to start one. `Access!FairSpec` asks that time passes, that the
server works, and that somebody who knows the PIN types it whenever the screen takes
it: the property is about such a person. Nobody else is obliged to do anything, and failures are never fair. They are bounded
(`MaxFailures`): a network that fails for ever settles nothing.

## Proofs

TLAPS checks these for all values of the constants (any number of devices,
handlers and events, any sizes, any thresholds, any readings of the clock).

* `LedgerProofs`: `PartIsWhole`, for every log: what `getEventsForCustomer` returns
  folds to the customer's rows of the whole. The fold is a loop over the sorted log,
  so this is an induction over logs: the library's least element of a well-founded
  set gives a least set of events for which it fails (`LeastSubset`); that set has a
  last event (`LastExists`), which the sort puts last (`SortedLast`, from the `Ranks`
  of its events) and the loop turns to last (`FoldStep`); and a turn that does not
  concern the customer leaves his rows alone (`TurnElsewhere`), one that does treats
  both folds alike (`TurnAlike`). The lemmas about `Tick` and `TickReceive`, which
  `EventStoreProofs` and `SmallPartsProofs` share, are here too.
* `BookProofs`: what `Books` says of the folds, for any book and a log of any size.
  `LogOk` is inductive (a log is finite, its events are of a book or voids, no two have
  one id) and makes every log `Sound`: its stamps order it and its fields have their
  types. The rest are inductions over sets of events, by `LeastSubset` as above, of
  invariants of the three loops stated on the events folded so far: `CustomerAgrees`
  and `BalanceAgrees` (a row is that of the last events that set it, a balance is
  credits less payments, whatever the ids voided), `ProductAgrees` and `StockAgrees`,
  and `LinesAgree` for the history. One event more changes the reference as the turn
  of the loop changes the row (`CustomerTurn`, `BalanceTurn`, `ProductTurn`,
  `MovementTurn`, `LineTurn`); one that is about someone else changes neither. A sum
  over a finite set is the community module's fold in an order nobody chose: that it
  exists (`SumRunExists`) and takes its elements in any order (`SumSteps`, `SumAdds`)
  is proved first. From these `LedgerIsReference`, `InventoryIsReference` and
  `HistoryIsTheFolds`; `CustomerFoldIsWhole` and `OthersKeepTheirRows` are
  `PartIsWhole` again. `AnomaliesAreExplained` compares two logs: a void more takes one
  event out of what stands (`WithoutStands`), hence its amount out of a sum
  (`TotalLess`, `MovedAdds`); and a sum below zero has a term below zero
  (`TotalIsNat`, `MovedIsNat`). `SalesAreBooked` compares two logs as well, for any
  command and any number of line items: what `RecordSale` returns is one event for each
  id drawn, in the order of the contexts (`SaleEvents`); all are new to the log, readable
  and no voids, so what stands grows by those not voided beforehand (`SaleAfter`); each
  line item takes its units off, by induction over sets of line items (`ItemsMoved`).
* `SmallPartsProofs`, the clocks: `ClockInvariant` proves `ClockInv == TypeOK /\ ClockAhead`
  inductive. `ClockAhead` says no clock is behind what its device wrote or merged
  in this session, and that own stamps have a last one; the second half is what
  makes `Restart` preserve the first. `TypeOK` includes that a table holds no stamp its
  device has not written (`OnlyWritten`). From it: `ClockTypes`,
  `OwnStampsAdvanceAlways`, `CausalWithinSession`; each says of the stamp a step adds
  that it is new and after the ones named (`WritesAfter`).
* `EventStoreProofs`: `NumbersFollowStamps`, from `StoreInv`. The numbers and the
  stamps of a device are in one order not only in the table but among all that were
  given out (`Issued`): a call that has its number and waits for its INSERT counts,
  since the calls before and after it may be stored first. Nothing given out is ahead
  of the sequence or of the clock (`IssuedOk`), no number is given out twice
  (`NumbersApart`), a merge never inserts an event of this device (`MergeOk`), and a
  device that wrote has a last event (`HasLast`): that is what lets `Kill` start the
  sequence and the clock again from rows that agree.
  `ProjectionIsFold` and `RebuildMends` need two invariants more. `TableInv`: the
  table is a log the fold is defined on, no two rows with one stamp. `BookInv`: a call
  owes the customers it has touched (`DebtOk`); two that owe one customer both know
  (`SharedOk`); what a call is about to write is right if nobody shares the debt
  (`WritesOk`), what a rebuild has dropped stays so and what it scanned stays true
  (`DropsOk`, `ScansOk`); as long as nothing is inserted, every customer is either
  right and about to be written right, or owed, dropped or contested (`RestoresOk`);
  and who is wrong is accounted for (`Accounted`). An INSERT keeps it because an event
  changes no rows but its owners', which is `PartIsWhole` again: the customer's own
  events are the same before and after.
* `SyncProofs`: `SyncTypes`; `LedgerInvariant`, the inductive invariant of the
  protocol: what a device holds is its own or stored (`DeviceOk`), what a pass
  carries is the caller's own, and settled ids are stored (`PassOk`, `CallOk`),
  and every stored event is on its author's device. `NothingIsLost` and
  `SyncImplementsLedger` follow. `CursorsAreComplete` needs two more: `NumberInv`
  (numbers are unique and never above the sequence's last value) and `CursorInv`
  (what is below the cursor, or in the page and already taken from it, is on the
  device, unreadable or overtaken), with the lemma `PageClosed` that a page has no
  holes. `OwnOrderIsKept` rests on `OrderInv`: what a pass still has to send and what a
  handler still has to judge is closed towards the past, up to what the server has
  dealt with (`PassInOrder`, `CallInOrder`); a handler somebody waits for holds that
  pass's batch (`Awaited`), so a batch is left behind only when it is dealt with.
* `SessionProofs`: `SessionTypes`, and on it three invariants. `WaitInv`: a refresh
  somebody waits for is the only one of his and works on the pair of his pass; from
  it and the pass that stops when the breaker opens, `OpenCircuitIsQuiet`. `RaceInv`:
  a family of which two requests run is raced for, and a pair about to be rotated is
  not spent but in one of those; it gives `RefreshRedeemedOnce`. `AliveInv`: what a
  device holds is live, also in the hands of a handler between two of its statements,
  for every family nothing has gone wrong with; it gives `StoredTokenSurvives`.
* `AccessProofs`: `PinInv` (past the comparison a request carries the account's PIN,
  and an answer goes to the one device that waits for it) gives `OnlyThePinLetsIn`.
  `LockInv` (the lock is the one owed, or the handler that is to set it still will)
  gives `LockFollowsLastFailure`; the row that counts may be cleared in between.
* `CoreFlowProofs`: `CoreInv` gives `DoneSpeaksTrue`, `NothingUndoneTwice` and
  `StackStaysSound`. What a screen says is said again by every handler it started
  (`TrueCall`), and stays true because customers and entries are only added (`Grows`).
  An entry whose Done screen is still to come is on no screen, not undone, and in no
  other handler's hands (`Unshown`): without it two handlers could bring back what a
  third has undone. As long as no handler came late, only home, the list and the
  detail screen have others above them (`Straight`), so Back leads to no entry screen
  whose amount was typed for another customer. `BalancesAreFresh` needs `FreshInv`:
  the newest load is still to come with nothing or the truth in it, or it has been
  shown and every load left knows that it is older; the detail screen has one load.
* `SmallPartsProofs`: `TimerInv` (the handle is the one timer that is armed, if any is)
  gives `TimerLocksWhenIdle`. `MigrateInv` gives `MigratedOnceAlways`: only the holder
  of the lock migrates (`OneMigrator`), so what it read is still so when it commits
  (`UpToDate`), so the files executed are the first ones. `SlotsInv` gives
  `IssuedIsKeptAlways`: a slot not raced for is empty while its only writer writes it
  (`KeptOnce`); it also shows that the salt never changes, on which `PinInv` rests:
  while one change is under way the database has the old key, then the new one or
  none. From it `PinOpensAlways`.

The assumptions are those named in the modules: finite sets of devices and
handlers, natural sizes, `Unreadable` never holding a device's own events, a timeout
of at least a tick, a natural number of migrations in each build; that the wall
clock reads natural numbers (`ReadingsAssumption`); that the pages of `RemotePages` hold
events other devices stamped (`PagesAssumption`; a page with this device's own events,
which the server sends back too, is in `Pages` once they are stored), no two with one
stamp (`StampsAssumption`: a clock never stamps twice alike, and a stamp names its
device); that an event has the fields its schema names, with their types, and voids are
targeted at ids of the log (`BooksAssumption` of `Books`, where no two slots of the log
share a stamp); that a sale command has fields of the types `RecordSaleCommand` gives
them, its products and customer being the shop's (`SalesAssumption`); that what a screen appends and a page holds has passed `buildEvent` or its
counterpart at the merge, so that an event of a customer names him and a void names
only its target (`PayloadsAssumption`); a lockout threshold and a base of at least one
and a cap no smaller (`DurationAssumption`).

Each inductive invariant was checked by TLC, on the instance of its component's run,
before it was proved.

Only model-checked: liveness (the proof system has no rule for `WF` and
`ENABLED`), and what is left of the pure functions. `ExpiryBound` is about every way to
empty a shelf, a reference that is itself a fold over sequences of sets;
`ScreensAgree` about lists in the order the community module's sort gives them;
`WrittenIsRead` about a finite table of cases, which TLC has evaluated to the last
one; `TextIsAmount` about the digits of a number, by recursion on it.

## Not modelled, and why

Of the screens `CoreFlow` leads to, the error message, the search field, the phone,
the timing log and the sheet that shows the customer his balance are left out; the
screens it does not lead to (products, alerts, the gallery, settings) and the texts
of `i18n` are views over `Screens` and `Reports` with no state that outlives them.
How a view model is worded is left out, and of the text of an amount the numerals
and `formatAmountDigits`, which only the gallery's component `Amount` uses. The
key derivation and the hashing of a PIN are cryptography: the one is taken to be
injective, the other to tell PINs apart. HTTP routing, JSON bodies and the pool are
I/O around handlers that are modelled. `PinSession`, `SyncEngine`, `InactivityTimer`,
`changePin` and the inventory commands have no caller in the shipped app: they are
modelled as their tests and comments use them.

Some things the models do and no property forbids. `start()` of `InactivityTimer` takes a
lock off whoever calls it, also at a foreground event (`Start`); `LocksWhenIdle` begins
anew there too. A 401 for an access token that
expired in mid-pass clears the whole stored pair, a refresh token still good
included (`Denied`, `Clear` of `Session`). A device that set its PIN and lost the
answer is told UNAVAILABLE for ever, until it is opened to enter the PIN
(`Exists`). Two taps on Confirm record two entries: no document says
they may not. An entry screen rendered in the
place of another keeps the amount typed for the first (`Goes`), whatever its
`initialAmountPoisha`; `StackIsSound` says that only a handler that comes late can
put it there. A product's stock limit that is not finite is written as null. And with the
rate envelope full a stored event that is pushed again is answered with a rejection
rather than as a duplicate (`Judge`), because the envelope is looked at before the
INSERT; `EventuallySettled` says it is cleared in the end all the same.

Abstractions worth knowing: texts and payloads are model values; amounts are
small integers, and so are units, though of goods sold by weight the code keeps
fractions, whose rounding is left out; in `Sync` a push request is validated by a fixed set `Refused`, and
what is in such a set is `Schemas`; one SELECT or one INSERT is atomic, nothing
larger is.

## Plan

1. Done: every component above but the views; the proofs above.
2. Done: theorems for every safety property of the components with processes in
   them, and for the folds, the history, the anomalies and the sale.
3. Left: theorems about the shelf and the text of an amount.
