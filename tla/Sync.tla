-------------------------------- MODULE Sync --------------------------------
(* The devices of one shop and its server, exchanging events: SyncEngine    *)
(* (apps/mobile/src/sync/syncEngine.ts) over the tables events, sync_state  *)
(* and sync_cursor of a device (eventStore.ts), and the handlers of POST    *)
(* and GET /v1/events (server/src/routes/events.ts) over Postgres.          *)
(*                                                                          *)
(* A push handler inserts its events one statement at a time, each its own  *)
(* transaction.  An INSERT takes its server_seq when it starts and shows    *)
(* its row when it commits; two handlers interleave in between.  A client   *)
(* that gives up (timeout, abort, kill) leaves its handler running, and a   *)
(* handler may die with part of its batch committed.                        *)
(*                                                                          *)
(* An event is <<d, n>>, the n-th event of device d: its id, its seq and,   *)
(* among the events of d, its place in the hlc order (EventStore, property  *)
(* SeqFollowsStamp).  What an event says is left out, but for its type.     *)
EXTENDS Integers, FiniteSets

CONSTANTS
    Device,        \* the devices of the shop
    Writer,        \* the devices somebody writes on; the others only follow
    MaxEvents,     \* bound: events one device writes
    Handler,       \* push requests the server may be running together
    NoOne,         \* nobody waits for this handler's answer
    TypeOf,        \* TypeOf[e]: the type of event e
    Refused,       \* events validateIncomingEvent refuses
    Unreadable,    \* Unreadable[d]: events of others d's schemas refuse
    PushBatch,     \* PUSH_BATCH_SIZE
    PullPage,      \* PULL_PAGE_SIZE
    RateThreshold, \* RATE_ENVELOPE_THRESHOLD
    MaxFailures    \* bound: requests, handlers and passes that fail

Event == Device \X (1..MaxEvents)
Author(e) == e[1]
Before(e, f) == e[2] < f[2]
Types == {TypeOf[e] : e \in Event}

ASSUME DeviceAssumption == IsFiniteSet(Device) /\ NoOne \notin Device
ASSUME EventAssumption ==
    /\ MaxEvents \in Nat
    /\ DOMAIN TypeOf = Event
    /\ Refused \subseteq Event
    /\ Unreadable \in [Device -> SUBSET Event]
    /\ \A d \in Device : \A e \in Unreadable[d] : Author(e) # d
ASSUME SizesAssumption ==
    /\ {PushBatch, PullPage} \subseteq Nat \ {0}
    /\ {RateThreshold, MaxFailures} \subseteq Nat

VARIABLES
    table,       \* table[d]: the ids in d's events table
    marked,      \* marked[d]: the ids in d's sync_state
    cursor,      \* cursor[d]: d's sync_cursor
    pass,        \* pass[d]: d's pass in flight
    call,        \* call[h]: the push request handler h works on
    serverSeq,   \* serverSeq[e]: the server_seq of e's row, 0 if there is none
    lastVal,     \* the last value events_server_seq_seq gave out
    recent,      \* the stored events received in the last 24 hours
    failures,    \* how often something failed
    overtaken,   \* events whose row appeared below a visible one (history)
    turnedAway   \* events a push answered with a rejection (history)

device == <<table, marked, cursor>>
server == <<serverSeq, lastVal, recent>>
history == <<overtaken, turnedAway>>
vars == <<device, pass, call, server, failures, history>>

Stored == {e \in Event : serverSeq[e] # 0}

\* The pass of d: where it is, the unsynced events not yet dealt with, the
\* settled ids not yet marked, the page pulled and what is left of it to merge.
NoPass == [pc |-> "idle", pending |-> {}, toMark |-> {}, page |-> {}, left |-> {}]

\* Mutant of NoCall: no row in the making is written as -1.
NoCallUnset == [caller |-> NoOne, stage |-> "free", todo |-> {}, settled |-> {},
                seen |-> [t \in Types |-> -1], num |-> -1]

\* A request: who waits for the answer, what is next for its first event, the
\* events still to do, those settled, the counts per type it has read (-1: not
\* yet) and the server_seq of the row it is inserting.
NoCall == [caller |-> NoOne, stage |-> "free", todo |-> {}, settled |-> {},
           seen |-> [t \in Types |-> -1], num |-> 0]

Init ==
    /\ table = [d \in Device |-> {}]
    /\ marked = [d \in Device |-> {}]
    /\ cursor = [d \in Device |-> 0]
    /\ pass = [d \in Device |-> NoPass]
    /\ call = [h \in Handler |-> NoCall]
    /\ serverSeq = [e \in Event |-> 0]
    /\ lastVal = 0 /\ recent = {}
    /\ failures = 0
    /\ overtaken = {} /\ turnedAway = {}

----------------------------------------------------------------------------
(* The device.                                                              *)

\* append(): a new event, at any time.
Append(d) ==
    /\ d \in Writer
    /\ \E n \in 1..MaxEvents :
          /\ <<d, n>> \notin table[d]
          /\ \A m \in 1..(n - 1) : <<d, m>> \in table[d]
          /\ table' = [table EXCEPT ![d] = @ \cup {<<d, n>>}]
    /\ UNCHANGED <<marked, cursor, pass, call, server, failures, history>>

\* unsynced(): synced_at is null on the rows append() wrote, which are d's own.
Unsynced(d) == {e \in table[d] : Author(e) = d} \ marked[d]

\* The next slice of the pending events.
Batch(P) == {e \in P : Cardinality({f \in P : Before(f, e)}) < PushBatch}

\* runPass(), up to the snapshot push() takes; inFlight allows one at a time.
StartPass(d) ==
    /\ pass[d] = NoPass
    /\ pass' = [pass EXCEPT ![d] = [NoPass EXCEPT !.pc = "push", !.pending = Unsynced(d)]]
    /\ UNCHANGED <<device, call, server, failures, history>>

\* push(): the request for the next batch leaves.
Push(d, h) ==
    /\ pass[d].pc = "push" /\ pass[d].pending # {}
    /\ call[h] = NoCall
    /\ call' = [call EXCEPT ![h] = [NoCall EXCEPT !.caller = d, !.stage = "judge",
                                                  !.todo = Batch(pass[d].pending)]]
    /\ pass' = [pass EXCEPT ![d].pc = "wait"]
    /\ UNCHANGED <<device, server, failures, history>>

\* markPushed(): one settled id after another, ...
Mark(d) ==
    /\ pass[d].pc = "mark"
    /\ \E e \in pass[d].toMark :
          /\ marked' = [marked EXCEPT ![d] = @ \cup {e}]
          /\ pass' = [pass EXCEPT ![d].toMark = @ \ {e}]
    /\ UNCHANGED <<table, cursor, call, server, failures, history>>

\* Mutant of BatchDone: the same batch again.
BatchAgain(d) ==
    /\ pass[d].pc = "mark" /\ pass[d].toMark = {}
    /\ pass' = [pass EXCEPT ![d].pc = "push"]
    /\ UNCHANGED <<device, call, server, failures, history>>

\* ... then the next batch.
BatchDone(d) ==
    /\ pass[d].pc = "mark" /\ pass[d].toMark = {}
    /\ pass' = [pass EXCEPT ![d].pc = "push", ![d].pending = @ \ Batch(@)]
    /\ UNCHANGED <<device, call, server, failures, history>>

PushDone(d) ==
    /\ pass[d].pc = "push" /\ pass[d].pending = {}
    /\ pass' = [pass EXCEPT ![d].pc = "pull"]
    /\ UNCHANGED <<device, call, server, failures, history>>

\* Mutant of PageAfter: ORDER BY server_seq DESC.
PageNewest(c) ==
    LET rows == {e \in Stored : serverSeq[e] > c}
    IN  {e \in rows : Cardinality({f \in rows : serverSeq[f] > serverSeq[e]}) < PullPage}

\* Mutant of PageAfter: the cursor is taken for the next number, not the last.
PageSkips(c) ==
    LET rows == {e \in Stored : serverSeq[e] > c + 1}
    IN  {e \in rows : Cardinality({f \in rows : serverSeq[f] < serverSeq[e]}) < PullPage}

\* pullEvents: the first rows after the cursor, as one SELECT sees them.
PageAfter(c) ==
    LET rows == {e \in Stored : serverSeq[e] > c}
    IN  {e \in rows : Cardinality({f \in rows : serverSeq[f] < serverSeq[e]}) < PullPage}

\* pull(): a page, or the end of the pass.
Pull(d) ==
    /\ pass[d].pc = "pull"
    /\ LET page == PageAfter(cursor[d])
       IN  pass' = [pass EXCEPT ![d] =
                       IF page = {} THEN NoPass
                       ELSE [NoPass EXCEPT !.pc = "merge", !.page = page, !.left = page]]
    /\ UNCHANGED <<device, call, server, failures, history>>

\* merge(): the next event of the page is refused, known already, or new.
MergeOne(d) ==
    /\ pass[d].pc = "merge"
    /\ \E e \in pass[d].left :
          /\ \A f \in pass[d].left : serverSeq[e] <= serverSeq[f]
          /\ pass' = [pass EXCEPT ![d].left = @ \ {e}]
          /\ \/ /\ e \in Unreadable[d]
                /\ UNCHANGED <<table, marked>>
             \/ /\ e \notin Unreadable[d] /\ e \in table[d]
                /\ marked' = [marked EXCEPT ![d] = @ \cup {e}]
                /\ UNCHANGED table
             \/ /\ e \notin Unreadable[d] /\ e \notin table[d]
                /\ table' = [table EXCEPT ![d] = @ \cup {e}]
                /\ UNCHANGED marked
    /\ UNCHANGED <<cursor, call, server, failures, history>>

\* setCursor(): to the last row of the page; a short page was the last.
SetCursor(d) ==
    /\ pass[d].pc = "merge" /\ pass[d].left = {}
    /\ \E e \in pass[d].page :
          /\ \A f \in pass[d].page : serverSeq[f] <= serverSeq[e]
          /\ cursor' = [cursor EXCEPT ![d] = serverSeq[e]]
    /\ pass' = [pass EXCEPT ![d] =
                   IF Cardinality(pass[d].page) < PullPage THEN NoPass
                   ELSE [NoPass EXCEPT !.pc = "pull"]]
    /\ UNCHANGED <<table, marked, call, server, failures, history>>

----------------------------------------------------------------------------
(* The handler of POST /v1/events.                                          *)

\* Mutant of AtHead: the events of a batch are dealt with in any order.
AtAnyPlace(h, e) == e \in call[h].todo

\* e is the event h deals with now: a batch is in the order unsynced() gave it.
AtHead(h, e) == e \in call[h].todo /\ \A f \in call[h].todo : e = f \/ Before(e, f)

\* Mutant of Reject: a rejected id is reported like a stored one.
RejectSilently(c, e) == [c EXCEPT !.todo = @ \ {e}, !.settled = @ \cup {e}]

\* The answer will list e under `rejected`.
Reject(c, e) == [c EXCEPT !.todo = @ \ {e}]

\* countRecentEvents, read once per type and request, then kept in runningCounts.
RecentCount(c, t) ==
    IF c.seen[t] >= 0 THEN c.seen[t] ELSE Cardinality({f \in recent : TypeOf[f] = t})

\* validateIncomingEvent, then the rate envelope.
Judge(h) ==
    /\ call[h].stage = "judge"
    /\ \E e \in call[h].todo :
          /\ AtHead(h, e)
          /\ LET t == TypeOf[e]
                 count == RecentCount(call[h], t)
             IN  IF e \in Refused \/ count >= RateThreshold
                 THEN /\ call' = [call EXCEPT ![h] = Reject(@, e)]
                      /\ turnedAway' = turnedAway \cup {e}
                 ELSE /\ call' = [call EXCEPT ![h].stage = "insert", ![h].seen[t] = count + 1]
                      /\ UNCHANGED turnedAway
    /\ UNCHANGED <<device, pass, server, failures, overtaken>>

\* INSERT starts: the column default takes the next value of the sequence.
TakeNumber(h) ==
    /\ call[h].stage = "insert"
    /\ lastVal' = lastVal + 1
    /\ call' = [call EXCEPT ![h].stage = "commit", ![h].num = lastVal']
    /\ UNCHANGED <<device, pass, serverSeq, recent, failures, history>>

\* INSERT ends: the row is visible, or ON CONFLICT (id) DO NOTHING drops it.
\* Either way the answer will list e under `accepted` or `duplicates`.
Commit(h) ==
    /\ call[h].stage = "commit"
    /\ \E e \in call[h].todo :
          /\ AtHead(h, e)
          /\ call' = [call EXCEPT ![h].stage = "judge", ![h].num = 0,
                                  ![h].todo = @ \ {e}, ![h].settled = @ \cup {e}]
          /\ IF e \in Stored
             THEN UNCHANGED <<serverSeq, recent, overtaken>>
             ELSE /\ serverSeq' = [serverSeq EXCEPT ![e] = call[h].num]
                  /\ recent' = recent \cup {e}
                  /\ overtaken' = IF \E f \in Stored : serverSeq[f] > call[h].num
                                  THEN overtaken \cup {e} ELSE overtaken
    /\ UNCHANGED <<device, pass, lastVal, failures, turnedAway>>

\* The answer goes out; a caller that has given up never sees it.
Respond(h) ==
    /\ call[h].stage = "judge" /\ call[h].todo = {}
    /\ call' = [call EXCEPT ![h] = NoCall]
    /\ pass' = [d \in Device |->
                   IF d = call[h].caller
                   THEN [pass[d] EXCEPT !.pc = "mark", !.toMark = call[h].settled]
                   ELSE pass[d]]
    /\ UNCHANGED <<device, server, failures, history>>

\* An event leaves the window of the rate envelope.
Age(e) ==
    /\ e \in recent
    /\ recent' = recent \ {e}
    /\ UNCHANGED <<device, pass, call, serverSeq, lastVal, failures, history>>

----------------------------------------------------------------------------
(* Failures.                                                                *)

Abandoned(d) == [h \in Handler |-> IF call[h].caller = d
                                   THEN [call[h] EXCEPT !.caller = NoOne] ELSE call[h]]

\* The push times out or its answer is lost; withRetry sends the batch again.
Retry(d) ==
    /\ pass[d].pc = "wait" /\ failures < MaxFailures
    /\ call' = Abandoned(d)
    /\ pass' = [pass EXCEPT ![d].pc = "push"]
    /\ failures' = failures + 1
    /\ UNCHANGED <<device, server, history>>

\* The pass ends early: an operation failed for the last time, a statement on
\* the device threw, or the app was killed.
Abort(d) ==
    /\ pass[d] # NoPass /\ failures < MaxFailures
    /\ call' = Abandoned(d)
    /\ pass' = [pass EXCEPT ![d] = NoPass]
    /\ failures' = failures + 1
    /\ UNCHANGED <<device, server, history>>

\* A statement of the handler throws or the server stops: what is committed
\* stays.  A caller that waits sees an error, and tries again or gives up.
HandlerDies(h) ==
    /\ call[h] # NoCall /\ failures < MaxFailures
    /\ call' = [call EXCEPT ![h] = NoCall]
    /\ \E again \in BOOLEAN :
          pass' = [d \in Device |->
                      IF d # call[h].caller THEN pass[d]
                      ELSE IF again THEN [pass[d] EXCEPT !.pc = "push"] ELSE NoPass]
    /\ failures' = failures + 1
    /\ UNCHANGED <<device, server, history>>

----------------------------------------------------------------------------
PassStep(d) ==
    \/ StartPass(d)
    \/ \E h \in Handler : Push(d, h)
    \/ Mark(d) \/ BatchDone(d) \/ PushDone(d)
    \/ Pull(d) \/ MergeOne(d) \/ SetCursor(d)

HandlerStep(h) == Judge(h) \/ TakeNumber(h) \/ Commit(h) \/ Respond(h)

Next ==
    \/ \E d \in Device : Append(d) \/ PassStep(d) \/ Retry(d) \/ Abort(d)
    \/ \E h \in Handler : HandlerStep(h) \/ HandlerDies(h)
    \/ \E e \in Event : Age(e)

Spec == Init /\ [][Next]_vars

\* Passes keep being started and make progress (backgroundTask.ts starts one
\* every two minutes for as long as the app is in the foreground), the server
\* works on what it was sent, and time passes.  Nobody is made to write.
Fairness ==
    /\ \A d \in Device : WF_vars(PassStep(d))
    /\ \A h \in Handler : WF_vars(HandlerStep(h))
    /\ \A e \in Event : WF_vars(Age(e))

FairSpec == Spec /\ Fairness

----------------------------------------------------------------------------
PassRecord ==
    [pc : {"idle", "push", "wait", "mark", "pull", "merge"},
     pending : SUBSET Event, toMark : SUBSET Event,
     page : SUBSET Event, left : SUBSET Event]

CallRecord ==
    [caller : Device \cup {NoOne}, stage : {"free", "judge", "insert", "commit"},
     todo : SUBSET Event, settled : SUBSET Event,
     seen : [Types -> Nat \cup {-1}], num : Nat]

\* Every variable holds a value of its kind.
TypeOK ==
    /\ table \in [Device -> SUBSET Event]
    /\ marked \in [Device -> SUBSET Event]
    /\ cursor \in [Device -> Nat]
    /\ pass \in [Device -> PassRecord]
    /\ call \in [Handler -> CallRecord]
    /\ serverSeq \in [Event -> Nat] /\ lastVal \in Nat
    /\ recent \subseteq Event /\ failures \in Nat
    /\ overtaken \subseteq Event /\ turnedAway \subseteq Event

\* A device stops sending an event only when the server holds it: whatever was
\* lost, repeated or cut short, an event is in the server's log or will be in
\* the next snapshot of unsynced().
NothingLost == \A d \in Device : marked[d] \cup (table[d] \ Unsynced(d)) \subseteq Stored

\* A cursor passes over no row: what lies at or below it is on the device, or
\* the device's schemas refuse it, or it is a row that became visible below a
\* row already visible (the gap docs/DECISIONS.md 2026-08-15 describes).
CursorComplete ==
    \A d \in Device : \A e \in Stored :
        serverSeq[e] <= cursor[d] => e \in table[d] \cup Unreadable[d] \cup overtaken

\* The order peers pull in is, for the events of one device, the order it wrote
\* them in, retries and abandoned handlers included; only an event some push
\* was told is rejected may come late or never.
OwnOrderKept ==
    \A e, f \in Event :
        Author(e) = Author(f) /\ Before(e, f) /\ f \in Stored /\ e \notin turnedAway
        => e \in Stored /\ serverSeq[e] < serverSeq[f]

\* Sync implements the replicated ledger.
Ledger == INSTANCE ReplicatedLedger WITH held <- table, ledger <- Stored, acked <- marked
ImplementsLedger == Ledger!Spec

\* An event the server has nothing against gets there, and its author gets to
\* know it, however the pushes before were answered.
EventuallySettled ==
    \A e \in Event \ Refused : e \in table[Author(e)] ~> e \in marked[Author(e)]

\* What the server holds reaches every other device that can read it.
EventuallyEverywhere ==
    \A e \in Event : \A d \in Device \ {Author(e)} :
        e \in Stored ~> e \in table[d] \cup Unreadable[d] \cup overtaken
=============================================================================
