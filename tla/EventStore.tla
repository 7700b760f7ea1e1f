----------------------------- MODULE EventStore -----------------------------
(* One device's event store: createEventStore of apps/mobile/src/data/       *)
(* eventStore.ts over the tables of schema.ts, with the commands that call  *)
(* it (customerCommands.ts, archiveCustomer.ts) and the restart of          *)
(* bootstrap.ts.                                                            *)
(*                                                                          *)
(* Every method of the store is a chain of awaited statements; the Database *)
(* interface (db.ts) promises neither a transaction nor an order between    *)
(* the statements of two callers.  A call in progress is a frame in op[o];  *)
(* each action below runs one statement and what follows it up to the next  *)
(* await.  Any statement may throw, and the app may be killed between any   *)
(* two: neither is retried by the store.                                    *)
EXTENDS Ledger

CONSTANTS
    Op,            \* names for the calls that may be in progress together
    Me,            \* this device
    Customers,     \* customer ids
    Drafts,        \* payloads the screens may append, voids and archivings apart
    RemotePages,   \* pages of events other devices wrote, as the server may send them
    Unreadable,    \* ids of the remote events this build's schemas refuse
    Readings,      \* what Date.now may return
    MaxLocal,      \* bound: events this device appends
    MaxMerges,     \* bound: calls of merge
    MaxRebuilds,   \* bound: calls of rebuildProjections
    MaxFailures    \* bound: statements that throw, and kills of the app

ASSUME MeAssumption == Me \in Nat
ASSUME ReadingsAssumption == Readings \subseteq Nat
\* A page holds something, and only what other devices stamped.
ASSUME PagesAssumption ==
    /\ RemotePages \subseteq Seq(UNION {ToSet(page) : page \in RemotePages}) \ {<<>>}
    /\ \A page \in RemotePages : \A e \in ToSet(page) :
          {"id", "hlc"} \subseteq DOMAIN e /\ e.id[1] # Me /\ ClockOf(e.hlc) \in HlcState
\* The events the server may send.
Sendable == UNION {ToSet(page) : page \in RemotePages}

\* buildEvent keeps of a payload what the schema of its type names: the six core
\* types but the void name a customer, the void only its target.
PayloadOk(p) ==
    /\ "type" \in DOMAIN p
    /\ p.type \in OfCustomer => HasCustomer(p)
    /\ p.type = "ENTRY_VOIDED" => ~HasCustomer(p) /\ "target" \in DOMAIN p
    /\ HasCustomer(p) => p.customer \in Customers
ASSUME PayloadsAssumption == \A p \in Drafts \cup Sendable : PayloadOk(p)

\* A device puts its own name in its stamps and stamps no two events alike.
ASSUME StampsAssumption ==
    /\ \A e \in Sendable : e.hlc \in [l : Nat, c : Nat, dev : Nat \ {Me}]
    /\ \A e, f \in Sendable : e.hlc = f.hlc => e.id = f.id

ASSUME BoundsAssumption ==
    {MaxLocal, MaxMerges, MaxRebuilds, MaxFailures} \subseteq Nat

VARIABLES
    events,      \* table events: the rows, each an event of module Ledger
    syncState,   \* table sync_state: ids of local events known to be pushed
    customers,   \* table customers: the row of each customer, if any
    balances,    \* table balances: the row of each customer, if any
    lastSeq,     \* what seqChain resolves to
    clock,       \* the state of the Clock
    op,          \* the calls in progress
    used,        \* how often each bounded thing happened
    owed,        \* owed[o]: customers o has to re-fold for an insert of its own (history)
    shared,      \* shared[o]: those another call owed too at some time (history)
    lost,        \* customers somebody owed when his call was cut short (history)
    dropped,     \* those of them whose rows a rebuild owed (history)
    contested    \* customers written last while another call owed them (history)

tables == <<events, syncState, customers, balances>>
history == <<owed, shared, lost, dropped, contested>>
vars == <<tables, lastSeq, clock, op, used, history>>

\* A call in progress: what it is, where it is, the events it still has to
\* insert, the customers it has to re-fold, the one it is writing and the rows
\* it folded for it, and the rows a rebuild scanned.
Idle == [kind |-> "none", pc |-> "idle", todo |-> <<>>, page |-> <<>>,
         touched |-> {}, cur |-> {}, row |-> <<>>, scan |-> {}]
Frame(kind, pc) == [Idle EXCEPT !.kind = kind, !.pc = pc]
Busy(o) == op[o] # Idle

Ids == {e.id : e \in events}
Own == {e \in events : e.id[1] = Me}
Times(what) == used[what]
Count(what) == used' = [used EXCEPT ![what] = @ + 1]

\* Mutant of DeviceSeed: the clock of a fresh install.
DeviceSeedLost(own) == ZeroHlc

\* createDeviceClock: the last of this device's own stamps.
DeviceSeed(own) ==
    IF own = {} THEN ZeroHlc
    ELSE ClockOf((CHOOSE e \in own : \A f \in own : f = e \/ Before(f, e)).hlc)

\* seqChain's first link: MAX(seq) of this device's events.
SeqSeed(own) == IF own = {} THEN 0 ELSE Max({e.id[2] : e \in own})

Init ==
    /\ events = {} /\ syncState = {}
    /\ customers = [c \in Customers |-> {}]
    /\ balances = [c \in Customers |-> {}]
    /\ lastSeq = 0 /\ clock = ZeroHlc
    /\ op = [o \in Op |-> Idle]
    /\ used = [local |-> 0, merges |-> 0, rebuilds |-> 0, failures |-> 0]
    /\ owed = [o \in Op |-> {}] /\ shared = [o \in Op |-> {}]
    /\ lost = {} /\ dropped = {} /\ contested = {}

----------------------------------------------------------------------------
(* The bookkeeping of the history variables.                                *)

\* o has put a row in the table that the projections of C depend on.
Owes(o, C) ==
    /\ owed' = [owed EXCEPT ![o] = @ \cup C]
    /\ shared' = [p \in Op |->
                    IF p = o THEN shared[o] \cup {c \in C : \E q \in Op \ {o} : c \in owed[q]}
                    ELSE shared[p] \cup (C \cap owed[p])]
    /\ UNCHANGED <<lost, dropped, contested>>

\* o has written both rows of every customer of C.
Settles(o, C) ==
    /\ owed' = [owed EXCEPT ![o] = @ \ C]
    /\ shared' = [shared EXCEPT ![o] = @ \ C]
    /\ lost' = lost \ C
    /\ dropped' = dropped \ C
    /\ contested' = (contested \ C) \cup (C \cap shared[o])

\* The calls in O are gone, with whatever they still owed.
Abandons(O) ==
    /\ lost' = lost \cup UNION {owed[o] : o \in O}
    /\ dropped' = dropped \cup UNION {owed[o] : o \in {p \in O : op[p].kind = "rebuild"}}
    /\ UNCHANGED contested
    /\ owed' = [o \in Op |-> IF o \in O THEN {} ELSE owed[o]]
    /\ shared' = [o \in Op |-> IF o \in O THEN {} ELSE shared[o]]

----------------------------------------------------------------------------
(* Starting a call.                                                         *)

\* append(), up to its INSERT: nextSeq and clock.next run in call order, before
\* any statement; the event is this device's own and not yet synced.
StampAndInsert(o, payload) ==
    \E now \in Readings :
        LET s == Tick(clock, now)
            e == Joined([id |-> <<Me, lastSeq + 1>>, hlc |-> Stamp(s, Me)], payload)
        IN  /\ clock' = s
            /\ lastSeq' = lastSeq + 1
            /\ op' = [op EXCEPT ![o] = [Frame("append", "insert") EXCEPT !.todo = <<e>>]]

\* What a screen can ask for: an entry of a customer it lists, the first
\* appearance of a new customer, the undoing of an entry of the history.
Askable(payload) ==
    CASE payload.type = "CUSTOMER_ADDED" ->
             /\ \A e \in events : HasCustomer(e) => e.customer # payload.customer
             /\ \A o \in Op : \A i \in DOMAIN op[o].todo :
                   HasCustomer(op[o].todo[i]) => op[o].todo[i].customer # payload.customer
      [] payload.type = "ENTRY_VOIDED" ->
             \E e \in events : e.id = payload.target /\ e.type \in Entries
      [] OTHER -> customers[payload.customer] # {}

AppendEvent(o, payload) ==
    /\ ~Busy(o) /\ Times("local") < MaxLocal /\ Askable(payload)
    /\ StampAndInsert(o, payload)
    /\ Count("local")
    /\ UNCHANGED <<tables, history>>

\* append() of a payload buildEvent refuses: the seq and the tick are spent.
AppendRefused(o) ==
    /\ ~Busy(o) /\ Times("local") < MaxLocal
    /\ \E now \in Readings : clock' = Tick(clock, now)
    /\ lastSeq' = lastSeq + 1
    /\ Count("local")
    /\ UNCHANGED <<tables, op, history>>

\* archiveCustomer(): the existence check is a query of its own ...
Archive(o, c) ==
    /\ ~Busy(o) /\ Times("local") < MaxLocal /\ customers[c] # {}
    /\ op' = [op EXCEPT ![o] = [Frame("append", "check") EXCEPT !.cur = {c}]]
    /\ Count("local")
    /\ UNCHANGED <<tables, lastSeq, clock, history>>

\* ... and append() follows when the fold of what it read has the customer.
CheckArchive(o, c) ==
    /\ op[o].pc = "check" /\ op[o].cur = {c}
    /\ IF c \in DOMAIN Fold(EventsForCustomer(events, c)).customers
       THEN StampAndInsert(o, [type |-> "CUSTOMER_ARCHIVED", customer |-> c])
       ELSE op' = [op EXCEPT ![o] = Idle] /\ UNCHANGED <<lastSeq, clock>>
    /\ UNCHANGED <<tables, used, history>>

\* merge() of a page; SyncEngine.inFlight lets one run at a time.
Merge(o, page) ==
    /\ ~Busy(o) /\ Times("merges") < MaxMerges
    /\ \A p \in Op : op[p].kind # "merge"
    /\ op' = [op EXCEPT ![o] = [Frame("merge", "select") EXCEPT !.todo = page, !.page = page]]
    /\ Count("merges")
    /\ UNCHANGED <<tables, lastSeq, clock, history>>

\* rebuildProjections()
Rebuild(o) ==
    /\ ~Busy(o) /\ Times("rebuilds") < MaxRebuilds
    /\ op' = [op EXCEPT ![o] = Frame("rebuild", "dropCustomers")]
    /\ Count("rebuilds")
    /\ UNCHANGED <<tables, lastSeq, clock, history>>

----------------------------------------------------------------------------
(* The statements of append and merge.                                      *)

\* Mutant of Onward: the call ends with its events, nobody is re-folded.
OnwardUnfolded(f) == IF f.todo # <<>> THEN [f EXCEPT !.pc = "select"] ELSE Idle

\* Where a call goes when the head of its events is dealt with.
Onward(f) ==
    IF f.todo # <<>> THEN [f EXCEPT !.pc = "select"]
    ELSE IF f.touched # {} THEN [f EXCEPT !.pc = "refold"]
    ELSE Idle

Dropped(f) == [f EXCEPT !.todo = Tail(@)]

\* merge: the schemas refuse the event, or the SELECT says whether it is here.
Select(o) ==
    LET f == op[o]
        e == Head(f.todo)
    IN  /\ f.pc = "select"
        /\ op' = [op EXCEPT ![o] =
                     IF e.id \in Unreadable THEN Onward(Dropped(f))
                     ELSE [f EXCEPT !.pc = IF e.id \in Ids THEN "mark" ELSE "insert"]]
        /\ UNCHANGED <<tables, lastSeq, clock, used, history>>

\* merge: the event is here already; it has demonstrably reached the server.
Mark(o) ==
    LET f == op[o]
    IN  /\ f.pc = "mark"
        /\ syncState' = syncState \cup {Head(f.todo).id}
        /\ op' = [op EXCEPT ![o] = Onward(Dropped(f))]
        /\ UNCHANGED <<events, customers, balances, lastSeq, clock, used, history>>

\* INSERT INTO events: synced_at is null for an append, received_at for a merge.
Insert(o) ==
    LET f == op[o]
        e == Joined([received |-> f.kind = "merge"], Head(f.todo))
    IN  /\ f.pc = "insert"
        /\ events' = events \cup {e}
        /\ op' = [op EXCEPT ![o].pc = "resolve"]
        /\ Owes(o, Owners(events', e))
        /\ UNCHANGED <<syncState, customers, balances, lastSeq, clock, used>>

\* merge calls clock.receive; both look for the customer the event affects.
Resolve(o) ==
    LET f == op[o]
        e == Head(f.todo)
        found == Owners(events, e)
    IN  /\ f.pc = "resolve"
        /\ IF f.kind = "merge"
           THEN \E now \in Readings : clock' = TickReceive(clock, ClockOf(e.hlc), now)
           ELSE UNCHANGED clock
        /\ op' = [op EXCEPT ![o] = Onward([Dropped(f) EXCEPT !.touched = @ \cup found])]
        /\ Owes(o, found)
        /\ UNCHANGED <<tables, lastSeq, used>>

\* getEventsForCustomer and fold, for one of the customers touched.
Refold(o, c) ==
    LET f == op[o]
        state == Fold(EventsForCustomer(IF f.kind = "rebuild" THEN f.scan ELSE events, c))
    IN  /\ f.pc = "refold" /\ c \in f.touched
        /\ op' = [op EXCEPT ![o] =
                     [f EXCEPT !.pc = "writeCustomer", !.cur = {c},
                               !.row = <<CustomerRow(state, c), BalanceRow(state, c)>>]]
        /\ UNCHANGED <<tables, lastSeq, clock, used, history>>

\* writeProjection: upsert or delete the customer's row, then the balance's.
WriteCustomer(o, c) ==
    LET f == op[o]
    IN  /\ f.pc = "writeCustomer" /\ f.cur = {c}
        /\ customers' = [customers EXCEPT ![c] = f.row[1]]
        /\ op' = [op EXCEPT ![o].pc = "writeBalance"]
        /\ UNCHANGED <<events, syncState, balances, lastSeq, clock, used, history>>

\* What the statement on the balance leaves in the table.
BalanceAfter(old, row) == row

WriteBalance(o, c) ==
    LET f == op[o]
    IN  /\ f.pc = "writeBalance" /\ f.cur = {c}
        /\ balances' = [balances EXCEPT ![c] = BalanceAfter(@, f.row[2])]
        /\ op' = [op EXCEPT ![o] =
                     Onward([f EXCEPT !.touched = @ \ {c}, !.cur = {}, !.row = <<>>])]
        /\ Settles(o, {c})
        /\ UNCHANGED <<events, syncState, customers, lastSeq, clock, used>>

----------------------------------------------------------------------------
(* The statements of rebuildProjections before it writes.                   *)

DropCustomers(o) ==
    /\ op[o].pc = "dropCustomers"
    /\ customers' = [c \in Customers |-> {}]
    /\ op' = [op EXCEPT ![o].pc = "dropBalances"]
    /\ Owes(o, Customers)
    /\ UNCHANGED <<events, syncState, balances, lastSeq, clock, used>>

DropBalances(o) ==
    /\ op[o].pc = "dropBalances"
    /\ balances' = [c \in Customers |-> {}]
    /\ op' = [op EXCEPT ![o].pc = "scan"]
    /\ UNCHANGED <<events, syncState, customers, lastSeq, clock, used, history>>

\* One SELECT; every event goes to the bucket of the customer it affects.
Scan(o) ==
    LET found == UNION {Owners(events, e) : e \in events}
    IN  /\ op[o].pc = "scan"
        /\ op' = [op EXCEPT ![o] = Onward([op[o] EXCEPT !.touched = found, !.scan = events])]
        /\ Settles(o, Customers \ found)
        /\ UNCHANGED <<tables, lastSeq, clock, used>>

----------------------------------------------------------------------------
(* Failures.                                                                *)

\* The statement o waits for throws, and with it the call.
Throw(o) ==
    /\ Busy(o) /\ Times("failures") < MaxFailures
    /\ op' = [op EXCEPT ![o] = Idle]
    /\ Abandons({o})
    /\ Count("failures")
    /\ UNCHANGED <<tables, lastSeq, clock>>

\* The app is killed; bootstrap() builds a new Clock and a new event store.
Kill ==
    /\ Times("failures") < MaxFailures
    /\ op' = [o \in Op |-> Idle]
    /\ clock' = DeviceSeed(Own)
    /\ lastSeq' = SeqSeed(Own)
    /\ Abandons(Op)
    /\ Count("failures")
    /\ UNCHANGED tables

----------------------------------------------------------------------------
\* A pull brings other devices' events and this device's own ones back.
Pages == RemotePages \cup {<<e>> : e \in Own}

Next ==
    \/ \E o \in Op :
          \/ \E d \in Drafts : AppendEvent(o, d)
          \/ \E e \in events : AppendEvent(o, [type |-> "ENTRY_VOIDED", target |-> e.id])
          \/ AppendRefused(o)
          \/ \E c \in Customers : Archive(o, c) \/ CheckArchive(o, c)
          \/ \E page \in Pages : Merge(o, page)
          \/ Rebuild(o)
          \/ Select(o) \/ Mark(o) \/ Insert(o) \/ Resolve(o)
          \/ \E c \in Customers :
                Refold(o, c) \/ WriteCustomer(o, c) \/ WriteBalance(o, c)
          \/ DropCustomers(o) \/ DropBalances(o) \/ Scan(o)
          \/ Throw(o)
    \/ Kill

Spec == Init /\ [][Next]_vars

----------------------------------------------------------------------------
\* The customers whose two rows are what folding the whole table gives.
Matching ==
    LET state == Fold(events)
    IN  {c \in Customers : /\ customers[c] = CustomerRow(state, c)
                           /\ balances[c] = BalanceRow(state, c)}

\* The customers some call in progress still has to write.
Owed == UNION {owed[o] : o \in {p \in Op : Busy(p)}}

\* The projection is a cache of a fold, as far as it goes: a customer's two rows
\* are what folding the whole table gives, unless a call that inserted one of
\* its events is still running, was cut short before it had written both rows,
\* or wrote them while another call was doing the same.  The next call that
\* re-folds the customer undisturbed makes the rows right again.
RowsAreFold ==
    Customers \ Matching \subseteq lost \cup contested \cup Owed

\* A device's seq order is its stamp order, kills included: the server's
\* UNIQUE(device_id, seq) and the fold agree on what came first.
SeqFollowsStamp ==
    \A e, f \in Own : e.id[2] < f.id[2] <=> Before(e, f)

\* rebuildProjections restores every row, whatever was lost before, an earlier
\* rebuild cut short included: if nothing was inserted since it read the log,
\* only a customer that another call was writing meanwhile, or whose rows
\* another rebuild dropped meanwhile, may still be wrong.
RebuildRestores ==
    [][\A o \in Op :
          op[o].kind = "rebuild" /\ op'[o] = Idle /\ op[o].scan = events /\ used' = used
          => Customers \ Matching' \subseteq contested' \cup dropped' \cup Owed']_vars

\* EVENTS.md section 7: at rest, dropping the projections and replaying the log
\* gives the same projections back.
RebuildTest == (\A o \in Op : ~Busy(o)) => Matching = Customers

\* EventStore.merge: it "re-folds what [the events] touch", first call or not.
MergeRefolds ==
    [][\A o \in Op :
          /\ op[o].kind = "merge" /\ op'[o] = Idle /\ used' = used
          => \A i \in DOMAIN op[o].page :
                Owners(events', op[o].page[i]) \subseteq Matching']_vars
=============================================================================
