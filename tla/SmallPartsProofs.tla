-------------------------- MODULE SmallPartsProofs --------------------------
(* Proofs about modules DeviceClock, InactivityTimer, Migrate and Secrets,  *)
(* for any devices and readings of their clocks, any timeout, any number of *)
(* timers, servers, migrations, calls and secrets.                          *)
EXTENDS DeviceClock, Secrets, InactivityTimer, Migrate, LedgerProofs

----------------------------------------------------------------------------
(* InactivityTimer.                                                         *)

\* The handle is the only timer that is armed, if one is: what Cleared clears is
\* all there is, which is why no earlier timer is left to fire.
Waiting ==
    /\ locked = FALSE /\ quiet \in 0..Timeout
    /\ handle \in Timer /\ armed = [u \in {handle} |-> Timeout - quiet]

AtRest ==
    /\ handle = NoTimer /\ armed = [u \in {} |-> 0]
    /\ quiet = (IF locked THEN Timeout ELSE Off)
    /\ locked \in BOOLEAN

TimerInv == Waiting \/ AtRest

\* Whatever was armed, pause() leaves nothing armed.
LEMMA ClearedIsEmpty == TimerInv => Cleared = [u \in {} |-> 0]
<1>1. Waiting => DOMAIN armed \ {handle} = {}
      BY DEF Waiting
<1>2. AtRest => DOMAIN armed \ {handle} = {}
      BY DEF AtRest
<1> SUFFICES ASSUME DOMAIN armed \ {handle} = {}
             PROVE  [u \in DOMAIN armed \ {handle} |-> armed[u]] = [u \in {} |-> 0]
    BY <1>1, <1>2 DEF TimerInv, Cleared, Without
<1> QED OBVIOUS

LEMMA ResetWaits == TimerInv /\ Reset /\ locked' = FALSE => Waiting'
<1> SUFFICES ASSUME TimerInv, Reset, locked' = FALSE PROVE Waiting'
    OBVIOUS
<1>1. PICK t \in Timer :
        /\ handle' = t
        /\ armed' = [u \in DOMAIN Cleared \cup {t} |-> IF u = t THEN Timeout ELSE armed[u]]
      BY DEF Reset
<1>2. DOMAIN Cleared = {}
      BY ClearedIsEmpty
<1>3. DOMAIN Cleared \cup {t} = {t}
      BY <1>2
<1>4. armed' = [u \in {t} |-> IF u = t THEN Timeout ELSE armed[u]]
      BY <1>1, <1>3
<1>5. armed' = [u \in {t} |-> Timeout - 0]
      BY <1>4, TimerAssumption
<1> QED BY <1>1, <1>5, TimerAssumption DEF Reset, Waiting

LEMMA TimerStep == TimerInv /\ [TimerNext]_timerVars => TimerInv'
<1> SUFFICES ASSUME TimerInv, [TimerNext]_timerVars PROVE TimerInv'
    OBVIOUS
<1>1. CASE Start
      BY <1>1, ResetWaits DEF Start, TimerInv
<1>2. CASE RecordActivity
      <2>1. locked' = FALSE
            BY <1>2 DEF RecordActivity, TimerInv, Waiting, AtRest
      <2> QED BY <1>2, <2>1, ResetWaits DEF RecordActivity, TimerInv
<1>3. CASE Pause
      <2>1. armed' = [u \in {} |-> 0]
            BY <1>3, ClearedIsEmpty DEF Pause
      <2>2. locked \in BOOLEAN /\ (locked => quiet = Timeout)
            BY Zenon DEF TimerInv, Waiting, AtRest
      <2> QED BY <1>3, <2>1, <2>2, Zenon DEF Pause, TimerInv, AtRest
<1>4. ASSUME NEW t \in Timer, Fire(t) PROVE TimerInv'
      <2>1. Waiting /\ t = handle
            BY <1>4 DEF Fire, TimerInv, Waiting, AtRest
      <2>2. quiet = Timeout
            BY <1>4, <2>1, TimerAssumption DEF Fire, Waiting
      <2>3. armed' = [u \in {} |-> 0]
            BY <1>4, <2>1, ClearedIsEmpty DEF Fire, Cleared
      <2> QED BY <1>4, <2>2, <2>3 DEF Fire, TimerInv, AtRest
<1>5. CASE Elapse
      <2>1. Waiting
            BY <1>5 DEF Elapse, TimerInv, AtRest
      <2>2. DOMAIN armed = {handle} /\ armed[handle] = Timeout - quiet /\ quiet \in 0..Timeout
            BY <2>1 DEF Waiting
      <2>3. quiet \in 0..(Timeout - 1)
            BY <1>5, <2>2, TimerAssumption DEF Elapse
      <2>4. quiet' = quiet + 1 /\ quiet' \in 0..Timeout
            BY <1>5, <2>3, TimerAssumption DEF Elapse
      <2>5. armed' = [u \in {handle} |-> armed[u] - 1]
            BY <1>5, <2>2 DEF Elapse
      <2>6. armed' = [u \in {handle} |-> Timeout - (quiet + 1)]
            BY <2>5, <2>2, <2>3, TimerAssumption
      <2> QED BY <1>5, <2>1, <2>4, <2>6 DEF Elapse, Waiting, TimerInv
<1>6. CASE UNCHANGED timerVars
      BY <1>6 DEF timerVars, TimerInv, Waiting, AtRest
<1> QED BY <1>1, <1>2, <1>3, <1>4, <1>5, <1>6 DEF TimerNext

\* SECURITY.md: "Auto-lock after inactivity".  Whatever the timeout, the timer of
\* the last start() or tap is the only one armed, and has exactly the rest of the
\* idle time to run; after a pause there is none.
THEOREM TimerLocksWhenIdle == TimerSpec => []LocksWhenIdle
<1>1. TimerInit => TimerInv
      BY DEF TimerInit, TimerInv, AtRest
<1>2. TimerInv => LocksWhenIdle
      <2>1. Waiting => LocksWhenIdle
            BY TimerAssumption DEF Waiting, LocksWhenIdle
      <2>2. AtRest => LocksWhenIdle
            BY DEF AtRest, LocksWhenIdle
      <2> QED BY <2>1, <2>2 DEF TimerInv
<1> QED BY <1>1, <1>2, TimerStep, PTL DEF TimerSpec

----------------------------------------------------------------------------
(* Migrate.                                                                 *)

Pcs == {"down", "lock", "create", "select", "begin", "commit", "serving"}
Migrating == {"create", "select", "begin", "commit"}

ServerTypes ==
    /\ schema \in Seq(Nat)
    /\ server \in [Server -> [pc : Pcs, already : SUBSET Nat, open : Seq(Nat)]]
    /\ recorded \subseteq Nat

\* The files executed are the first ones, and schema_migrations has their names.
Applied ==
    /\ \A i \in 1..Len(schema) : schema[i] = i
    /\ recorded \ NoTable = 1..Len(schema)

OneMigrator == \A s \in Server : server[s].pc \in Migrating => holder = s

\* What a migrator read is still so when it uses it, and its open transaction is
\* the next file.
UpToDate(s) ==
    /\ server[s].pc \in {"select", "begin", "commit"} => 0 \notin recorded
    /\ server[s].pc \in {"begin", "commit"} => server[s].already = recorded
    /\ server[s].pc = "commit" => server[s].open = <<Len(schema) + 1>>
    /\ server[s].pc = "serving" => Files[s] <= Len(schema)

MigrateInv == ServerTypes /\ Applied /\ OneMigrator /\ (\A s \in Server : UpToDate(s))

LEMMA MigrateInvInit == MigrateInit => MigrateInv
  BY SMT DEF MigrateInit, MigrateInv, ServerTypes, Applied, OneMigrator, UpToDate,
             NoTable, Down, Pcs, Migrating

\* A step of s that leaves the database alone, and s where the invariant has it.
LEMMA ServerMoves ==
    ASSUME MigrateInv, NEW s \in Server, UNCHANGED <<schema, recorded>>,
           NEW r \in [pc : Pcs, already : SUBSET Nat, open : Seq(Nat)],
           server' = [server EXCEPT ![s] = r],
           r.pc \in Migrating => holder' = s,
           holder' = holder \/ holder = s \/ \A t \in Server : server[t].pc \notin Migrating,
           UpToDate(s)'
    PROVE  MigrateInv'
<1>1. ServerTypes' /\ Applied'
      BY DEF MigrateInv, ServerTypes, Applied
<1>2. ASSUME NEW t \in Server PROVE UpToDate(t)'
      <2>1. CASE t = s
            BY <2>1
      <2>2. CASE t # s
            <3>1. server'[t] = server[t]
                  BY <2>2 DEF MigrateInv, ServerTypes
            <3> QED BY <3>1 DEF MigrateInv, UpToDate
      <2> QED BY <2>1, <2>2
<1>3. OneMigrator'
      <2> SUFFICES ASSUME NEW t \in Server, server'[t].pc \in Migrating PROVE holder' = t
          BY DEF OneMigrator
      <2>1. CASE t = s
            BY <2>1 DEF MigrateInv, ServerTypes
      <2>2. CASE t # s
            <3>1. server'[t] = server[t]
                  BY <2>2 DEF MigrateInv, ServerTypes
            <3> QED BY <3>1, <2>2 DEF MigrateInv, OneMigrator
      <2> QED BY <2>1, <2>2
<1> QED BY <1>1, <1>2, <1>3 DEF MigrateInv

\* The migrator is alone: only it sees recorded change under it.
LEMMA Alone ==
    ASSUME MigrateInv, NEW s \in Server, server[s].pc \in Migrating,
           NEW t \in Server, t # s
    PROVE  server[t].pc \notin Migrating
  BY DEF MigrateInv, OneMigrator

LEMMA NextFile ==
    ASSUME MigrateInv, NEW s \in Server, server[s].pc = "begin", NEW f, IsNext(s, f)
    PROVE  f = Len(schema) + 1
<1>1. Len(schema) \in Nat /\ Files[s] \in Nat
      BY MigrateAssumption DEF MigrateInv, ServerTypes
<1>2. server[s].already = 1..Len(schema)
      BY DEF MigrateInv, UpToDate, Applied, NoTable
<1>3. f \in 1..Files[s] /\ f > Len(schema)
      BY <1>1, <1>2 DEF IsNext, Pending
<1>4. Len(schema) + 1 \in Pending(s)
      BY <1>1, <1>2, <1>3 DEF Pending
<1> QED BY <1>1, <1>3, <1>4 DEF IsNext

LEMMA CommitStep ==
    ASSUME MigrateInv, NEW s \in Server, Commit(s) PROVE MigrateInv'
<1> DEFINE n == Len(schema)
<1>0. server[s].pc = "commit" /\ server[s].open = <<n + 1>> /\ n \in Nat
      BY DEF Commit, At, MigrateInv, UpToDate, ServerTypes
<1>1. {server[s].open[i] : i \in DOMAIN server[s].open} = {n + 1}
      BY <1>0
<1>2. server[s].already = recorded /\ 0 \notin recorded
      BY <1>0 DEF MigrateInv, UpToDate
<1>3. recorded' = recorded \cup {n + 1} /\ 0 \notin recorded'
      BY <1>0, <1>1, <1>2 DEF Commit
<1>4. server' = [server EXCEPT ![s] = [pc |-> "begin", open |-> <<>>, already |-> recorded']]
      BY <1>1, <1>2, <1>3 DEF Commit
<1>5. schema' \in Seq(Nat) /\ Len(schema') = n + 1
        /\ \A i \in 1..(n + 1) : schema'[i] = i
      <2>1. schema' = schema \o <<n + 1>> /\ schema \in Seq(Nat)
            BY <1>0 DEF Commit, MigrateInv, ServerTypes
      <2>2. \A i \in 1..n : schema[i] = i
            BY DEF MigrateInv, Applied
      <2> QED BY <2>1, <2>2, <1>0
<1>6. ServerTypes'
      <2>1. recorded' \subseteq Nat
            <3>1. recorded \subseteq Nat
                  BY DEF MigrateInv, ServerTypes
            <3>2. n + 1 \in Nat
                  BY <1>0
            <3> HIDE DEF n
            <3> QED BY <3>1, <3>2, <1>3
      <2>2. <<>> \in Seq(Nat)
            OBVIOUS
      <2>3. [pc |-> "begin", open |-> <<>>, already |-> recorded']
              \in [pc : Pcs, already : SUBSET Nat, open : Seq(Nat)]
            BY <2>1, <2>2 DEF Pcs
      <2> QED BY <2>1, <2>3, <1>4, <1>5 DEF MigrateInv, ServerTypes
<1>7. Applied'
      BY <1>0, <1>2, <1>3, <1>5 DEF MigrateInv, Applied, NoTable
<1>8. ASSUME NEW t \in Server, t # s PROVE server'[t] = server[t] /\ server[t].pc \notin Migrating
      BY <1>0, <1>4, <1>8, Alone DEF Migrating, MigrateInv, ServerTypes
<1>9. server'[s].pc = "begin" /\ server'[s].already = recorded'
      BY <1>4 DEF MigrateInv, ServerTypes
<1>10. OneMigrator'
      BY <1>0, <1>8, <1>9 DEF Commit, MigrateInv, OneMigrator, Migrating
<1>11. ASSUME NEW t \in Server PROVE UpToDate(t)'
      <2>1. CASE t = s
            BY <2>1, <1>3, <1>9 DEF UpToDate
      <2>2. CASE t # s
            <3>1. Files[t] \in Nat
                  BY MigrateAssumption
            <3> QED BY <2>2, <3>1, <1>0, <1>5, <1>8 DEF UpToDate, MigrateInv, Migrating
      <2> QED BY <2>1, <2>2
<1> QED BY <1>6, <1>7, <1>10, <1>11 DEF MigrateInv

LEMMA MigrateInvStep == MigrateInv /\ [MigrateNext]_migrateVars => MigrateInv'
<1> SUFFICES ASSUME MigrateInv, [MigrateNext]_migrateVars PROVE MigrateInv'
    OBVIOUS
<1> DEFINE R == [pc : Pcs, already : SUBSET Nat, open : Seq(Nat)]
<1>0. ASSUME NEW s \in Server PROVE server[s] \in R
      BY DEF MigrateInv, ServerTypes
<1>1. ASSUME NEW s \in Server, Boot(s) PROVE MigrateInv'
      <2> DEFINE r == [server[s] EXCEPT !.pc = "lock"]
      <2>1. server' = [server EXCEPT ![s] = r] /\ r \in R /\ server'[s] = r
            BY <1>0, <1>1 DEF Boot, Goes, Pcs, MigrateInv, ServerTypes
      <2>2. r.pc = "lock"
            BY <1>0
      <2> HIDE DEF r
      <2> QED BY <1>1, <2>1, <2>2, ServerMoves DEF Boot, Migrating, UpToDate
<1>2. ASSUME NEW s \in Server, TakeLock(s) PROVE MigrateInv'
      <2> DEFINE r == [server[s] EXCEPT !.pc = "create"]
      <2>1. server' = [server EXCEPT ![s] = r] /\ r \in R /\ server'[s] = r
            BY <1>0, <1>2 DEF TakeLock, Goes, Pcs, MigrateInv, ServerTypes
      <2>2. r.pc = "create"
            BY <1>0
      <2>3. \A t \in Server : server[t].pc \notin Migrating
            BY <1>2, MigrateAssumption DEF TakeLock, LockFree, MigrateInv, OneMigrator
      <2> HIDE DEF r
      <2> QED BY <1>2, <2>1, <2>2, <2>3, ServerMoves DEF TakeLock, UpToDate
<1>3. ASSUME NEW s \in Server, CreateTable(s) PROVE MigrateInv'
      <2>1. server[s].pc = "create" /\ recorded' = recorded \ {0}
            BY <1>3 DEF CreateTable, At, NoTable
      <2>2. server' = [server EXCEPT ![s].pc = "select"]
            BY <1>3 DEF CreateTable, Goes
      <2>3. server'[s].pc = "select" /\ 0 \notin recorded'
            BY <2>1, <2>2 DEF MigrateInv, ServerTypes
      <2>4. ASSUME NEW t \in Server, t # s
            PROVE server'[t] = server[t] /\ server[t].pc \notin Migrating
            BY <2>1, <2>2, <2>4, Alone DEF Migrating, MigrateInv, ServerTypes
      <2>5. ServerTypes'
            BY <1>3, <2>1, <2>2 DEF CreateTable, MigrateInv, ServerTypes, Pcs
      <2>6. Applied'
            BY <1>3, <2>1 DEF CreateTable, MigrateInv, Applied, NoTable
      <2>7. OneMigrator'
            BY <1>3, <2>1, <2>3, <2>4 DEF CreateTable, MigrateInv, OneMigrator, Migrating
      <2>8. \A t \in Server : UpToDate(t)'
            BY <1>3, <2>3, <2>4 DEF CreateTable, UpToDate, MigrateInv, Migrating
      <2> QED BY <2>5, <2>6, <2>7, <2>8 DEF MigrateInv
<1>4. ASSUME NEW s \in Server, SelectApplied(s) PROVE MigrateInv'
      <2> DEFINE r == [server[s] EXCEPT !.pc = "begin", !.already = recorded]
      <2>0. recorded \subseteq Nat /\ server[s].pc = "select"
            BY <1>4 DEF SelectApplied, At, MigrateInv, ServerTypes
      <2>1. server' = [server EXCEPT ![s] = r] /\ r \in R /\ server'[s] = r
            BY <1>0, <1>4, <2>0 DEF SelectApplied, Pcs, MigrateInv, ServerTypes
      <2>2. r.pc = "begin" /\ r.already = recorded
            BY <1>0
      <2>3. holder = s /\ 0 \notin recorded
            BY <2>0 DEF MigrateInv, OneMigrator, UpToDate, Migrating
      <2> HIDE DEF r
      <2> QED BY <1>4, <2>1, <2>2, <2>3, ServerMoves DEF SelectApplied, UpToDate
<1>5. ASSUME NEW s \in Server, Execute(s) PROVE MigrateInv'
      <2>1. PICK f \in Pending(s) :
              IsNext(s, f) /\ server' = [server EXCEPT ![s].pc = "commit", ![s].open = <<f>>]
            BY <1>5 DEF Execute
      <2>2. server[s].pc = "begin"
            BY <1>5 DEF Execute, At
      <2>3. f = Len(schema) + 1 /\ f \in Nat
            BY <2>1, <2>2, NextFile DEF Pending
      <2> DEFINE r == [server[s] EXCEPT !.pc = "commit", !.open = <<f>>]
      <2>4. server' = [server EXCEPT ![s] = r] /\ r \in R /\ server'[s] = r
            <3>1. server' = [server EXCEPT ![s] = r]
                  BY <2>1
            <3>2. <<f>> \in Seq(Nat)
                  BY <2>3
            <3>3. r \in R
                  BY <1>0, <3>2 DEF Pcs
            <3> HIDE DEF r
            <3> QED BY <3>1, <3>3 DEF MigrateInv, ServerTypes
      <2>5. r.pc = "commit" /\ r.open = <<f>> /\ r.already = server[s].already
            BY <1>0
      <2>6. holder = s /\ 0 \notin recorded /\ server[s].already = recorded
            BY <2>2 DEF MigrateInv, OneMigrator, UpToDate, Migrating
      <2> HIDE DEF r
      <2> QED BY <1>5, <2>3, <2>4, <2>5, <2>6, ServerMoves DEF Execute, UpToDate
<1>6. ASSUME NEW s \in Server, Commit(s) PROVE MigrateInv'
      BY <1>6, CommitStep
<1>7. ASSUME NEW s \in Server, Listen(s) PROVE MigrateInv'
      <2> DEFINE r == [server[s] EXCEPT !.pc = "serving"]
      <2>0. server[s].pc = "begin" /\ Pending(s) = {}
            BY <1>7 DEF Listen, At
      <2>1. server' = [server EXCEPT ![s] = r] /\ r \in R /\ server'[s] = r
            BY <1>0, <1>7 DEF Listen, Goes, Pcs, MigrateInv, ServerTypes
      <2>2. r.pc = "serving"
            BY <1>0
      <2>3. holder = s
            BY <2>0 DEF MigrateInv, OneMigrator, Migrating
      <2>4. Files[s] <= Len(schema)
            <3>1. Len(schema) \in Nat /\ Files[s] \in Nat
                  BY MigrateAssumption DEF MigrateInv, ServerTypes
            <3>2. server[s].already = 1..Len(schema)
                  BY <2>0 DEF MigrateInv, UpToDate, Applied, NoTable
            <3>3. 1..Files[s] \subseteq 1..Len(schema)
                  BY <2>0, <3>2 DEF Pending
            <3> QED BY <3>1, <3>3
      <2> HIDE DEF r
      <2> QED BY <1>7, <2>1, <2>2, <2>3, <2>4, ServerMoves DEF Listen, UpToDate, Migrating
<1>8. ASSUME NEW s \in Server, Fails(s) PROVE MigrateInv'
      <2>1. Down \in R /\ Down.pc = "down"
            BY DEF Down, Pcs
      <2>2. server' = [server EXCEPT ![s] = Down] /\ server'[s] = Down
            BY <1>8 DEF Fails, MigrateInv, ServerTypes
      <2>3. holder' = holder \/ holder = s
            BY <1>8 DEF Fails, Released
      <2> QED BY <1>8, <2>1, <2>2, <2>3, ServerMoves DEF Fails, UpToDate, Migrating
<1>9. CASE UNCHANGED migrateVars
      BY <1>9 DEF migrateVars, MigrateInv, ServerTypes, Applied, OneMigrator, UpToDate
<1> QED BY <1>1, <1>2, <1>3, <1>4, <1>5, <1>6, <1>7, <1>8, <1>9 DEF MigrateNext, MigrateStep

\* migrate.ts: "two migrators cannot both decide the same file still needs
\* applying".  For any number of servers of any builds, crashes included, each
\* file is executed once and in order, and who listens has all of its own.
THEOREM MigratedOnceAlways == MigrateSpec => []MigratedOnce
<1>1. MigrateInv => MigratedOnce
      <2> SUFFICES ASSUME MigrateInv PROVE MigratedOnce
          OBVIOUS
      <2>1. DOMAIN schema = 1..Len(schema) /\ Len(schema) \in Nat
            BY DEF MigrateInv, ServerTypes
      <2>2. ASSUME NEW s \in Server, server[s].pc = "serving"
            PROVE  1..Files[s] \subseteq DOMAIN schema
            <3>1. Files[s] \in Nat /\ Files[s] <= Len(schema)
                  BY <2>2, MigrateAssumption DEF MigrateInv, UpToDate
            <3> QED BY <2>1, <3>1
      <2> QED BY <2>1, <2>2 DEF MigrateInv, Applied, MigratedOnce, At
<1> QED BY <1>1, MigrateInvInit, MigrateInvStep, PTL DEF MigrateSpec

----------------------------------------------------------------------------
(* Secrets: what is drawn once.                                             *)

GetRecord == [slot : Slot, pc : {"idle", "read", "write"}, secret : Nat]

SlotTypes ==
    /\ store \in [Slot -> Nat] /\ drawn \in Nat
    /\ issued \in [Slot -> SUBSET Nat] /\ raced \in SUBSET Slot
    /\ get \in [Caller -> GetRecord]
    /\ \A c \in Caller : get[c] = NoGet \/ get[c].pc \in {"read", "write"}

Writes(c, k) == get[c].pc = "write" /\ get[c].slot = k

\* A slot that was not raced for is empty while somebody writes it, and only one
\* does: nothing was handed out that the write could take the place of.
KeptOnce(k) ==
    /\ issued[k] \subseteq {store[k]}
    /\ store[k] = 0 => issued[k] = {}
    /\ \A c \in Caller : Writes(c, k) =>
          /\ get[c].secret # 0 /\ store[k] = 0
          /\ \A d \in Caller : Writes(d, k) => d = c

\* The salt was there from the start and nobody draws another.
SaltStays == store[Salt] # 0 /\ \A c \in Caller : ~Writes(c, Salt)

SlotsInv == SlotTypes /\ SaltStays /\ \A k \in Slot \ raced : KeptOnce(k)

LEMMA SlotsInvInit == SecretsInit => SlotsInv
  BY SecretsAssumption
  DEF SecretsInit, SlotsInv, SlotTypes, SaltStays, KeptOnce, Writes, GetRecord, NoGet

\* A call that ends without a write: the others are where they were.
LEMMA GetEnds ==
    ASSUME SlotsInv, NEW c \in Caller, get' = [get EXCEPT ![c] = NoGet]
    PROVE  /\ get' \in [Caller -> GetRecord] /\ get'[c] = NoGet
           /\ \A d \in Caller : get'[d] = NoGet \/ get'[d].pc \in {"read", "write"}
           /\ \A d \in Caller, k \in Slot : Writes(d, k)' => Writes(d, k) /\ d # c
  BY SecretsAssumption DEF SlotsInv, SlotTypes, GetRecord, NoGet, Writes

\* Whoever writes, the secret goes where nothing was, unless the slot was raced for.
LEMMA WriteLands ==
    ASSUME SlotsInv, NEW c \in Caller, get[c].pc = "write",
           get' = [get EXCEPT ![c] = NoGet],
           store' = [store EXCEPT ![get[c].slot] = get[c].secret],
           \/ issued' = issued
           \/ issued' = [issued EXCEPT ![get[c].slot] = @ \cup {get[c].secret}],
           UNCHANGED <<drawn, raced>>
    PROVE  SlotsInv' /\ store'[Salt] = store[Salt]
<1> DEFINE w == get[c].slot
<1>0. w \in Slot /\ get[c].secret \in Nat /\ w # Salt /\ Writes(c, w)
      BY DEF SlotsInv, SlotTypes, GetRecord, SaltStays, Writes
<1>1. SlotTypes'
      <2>1. store' \in [Slot -> Nat] /\ issued' \in [Slot -> SUBSET Nat]
            <3>1. {get[c].secret} \subseteq Nat
                  BY <1>0
            <3> QED BY <1>0, <3>1 DEF SlotsInv, SlotTypes
      <2> QED BY <2>1, GetEnds DEF SlotsInv, SlotTypes
<1>2. SaltStays' /\ store'[Salt] = store[Salt]
      BY <1>0, GetEnds, SecretsAssumption DEF SlotsInv, SlotTypes, SaltStays
<1>3. ASSUME NEW k \in Slot \ raced PROVE KeptOnce(k)'
      <2>0. KeptOnce(k)
            BY DEF SlotsInv
      <2>1. CASE k = w
            <3>1. store[k] = 0 /\ issued[k] = {} /\ get[c].secret # 0
                  BY <1>0, <2>0, <2>1 DEF KeptOnce
            <3>2. store'[k] = get[c].secret /\ issued'[k] \subseteq {get[c].secret}
                  BY <2>1, <3>1 DEF SlotsInv, SlotTypes
            <3>3. \A d \in Caller : ~Writes(d, k)'
                  BY <1>0, <2>0, <2>1, GetEnds DEF KeptOnce
            <3> QED BY <3>1, <3>2, <3>3 DEF KeptOnce
      <2>2. CASE k # w
            <3>1. store'[k] = store[k] /\ issued'[k] = issued[k]
                  BY <2>2 DEF SlotsInv, SlotTypes
            <3>2. ASSUME NEW d \in Caller, Writes(d, k)'
                  PROVE  Writes(d, k) /\ get'[d].secret = get[d].secret
                  BY <3>2, GetEnds DEF SlotsInv, SlotTypes
            <3> QED BY <2>0, <3>1, <3>2 DEF KeptOnce
      <2> QED BY <2>1, <2>2
<1> QED BY <1>1, <1>2, <1>3 DEF SlotsInv

\* A call ends and the store is as it was; what it returned was in it.
LEMMA EndsQuietly ==
    ASSUME SlotsInv, NEW c \in Caller, get' = [get EXCEPT ![c] = NoGet],
           \/ issued' = issued
           \/ /\ store[get[c].slot] # 0
              /\ issued' = [issued EXCEPT ![get[c].slot] = @ \cup {store[get[c].slot]}],
           UNCHANGED <<store, drawn, raced>>
    PROVE  SlotsInv'
<1>0. get[c].slot \in Slot
      BY DEF SlotsInv, SlotTypes, GetRecord
<1>1. SlotTypes'
      <2>1. issued' \in [Slot -> SUBSET Nat]
            <3>1. {store[get[c].slot]} \subseteq Nat
                  BY <1>0 DEF SlotsInv, SlotTypes
            <3> QED BY <1>0, <3>1 DEF SlotsInv, SlotTypes
      <2> QED BY <2>1, GetEnds DEF SlotsInv, SlotTypes
<1>2. SaltStays'
      BY GetEnds, SecretsAssumption DEF SlotsInv, SaltStays
<1>3. ASSUME NEW k \in Slot \ raced PROVE KeptOnce(k)'
      <2>0. KeptOnce(k)
            BY DEF SlotsInv
      <2>1. issued'[k] \subseteq {store[k]} /\ (store[k] = 0 => issued'[k] = {})
            BY <1>0, <2>0 DEF SlotsInv, SlotTypes, KeptOnce
      <2>2. ASSUME NEW d \in Caller, Writes(d, k)'
            PROVE  Writes(d, k) /\ get'[d].secret = get[d].secret
            BY <2>2, GetEnds DEF SlotsInv, SlotTypes
      <2> QED BY <2>0, <2>1, <2>2 DEF KeptOnce
<1> QED BY <1>1, <1>2, <1>3 DEF SlotsInv

\* A call goes on to draw: it is the only one that writes its slot, or it races.
LEMMA DrawStep ==
    ASSUME SlotsInv, NEW c \in Caller, Draw(c) PROVE SlotsInv' /\ store' = store
<1> DEFINE w == get[c].slot
<1>0. w \in Slot /\ store[w] = 0 /\ w # Salt /\ store' = store /\ issued' = issued
      BY SecretsAssumption DEF Draw, Existing, slots, SlotsInv, SlotTypes, GetRecord, SaltStays
<1> DEFINE r == [get[c] EXCEPT !.pc = "write", !.secret = drawn + 1]
<1>1. get' = [get EXCEPT ![c] = r]
      BY DEF Draw
<1>2. /\ drawn' = drawn + 1 /\ drawn \in Nat
      /\ raced' \in SUBSET Slot /\ raced \subseteq raced'
      BY <1>0 DEF Draw, SlotsInv, SlotTypes
<1>3. r \in GetRecord /\ r.slot = w /\ r.pc = "write" /\ r.secret = drawn + 1
      <2>1. get[c] \in GetRecord /\ drawn + 1 \in Nat
            BY <1>2 DEF SlotsInv, SlotTypes
      <2> QED BY <2>1 DEF GetRecord
<1> HIDE DEF r
<1>4. get'[c] = r /\ \A d \in Caller : d # c => get'[d] = get[d]
      BY <1>1 DEF SlotsInv, SlotTypes
<1>5. SlotTypes'
      BY <1>0, <1>1, <1>2, <1>3, <1>4 DEF SlotsInv, SlotTypes
<1>6. SaltStays'
      BY <1>0, <1>3, <1>4 DEF SlotsInv, SaltStays, Writes
<1>7. ASSUME NEW k \in Slot \ raced' PROVE KeptOnce(k)'
      <2>0. KeptOnce(k)
            BY <1>2 DEF SlotsInv
      <2>1. CASE k = w
            <3>1. \A d \in Caller : ~Writes(d, k)
                  BY <2>1 DEF Draw, Writes
            <3>2. \A d \in Caller : Writes(d, k)' => d = c
                  BY <3>1, <1>4 DEF Writes
            <3>3. get'[c].secret # 0
                  BY <1>2, <1>3, <1>4
            <3> QED BY <1>0, <2>0, <2>1, <3>2, <3>3 DEF KeptOnce
      <2>2. CASE k # w
            <3>1. \A d \in Caller : Writes(d, k)' => Writes(d, k) /\ d # c
                  BY <1>3, <1>4, <2>2 DEF Writes
            <3> QED BY <1>0, <1>4, <2>0, <3>1 DEF KeptOnce
      <2> QED BY <2>1, <2>2
<1> QED BY <1>0, <1>5, <1>6, <1>7 DEF SlotsInv

LEMMA AskStep ==
    ASSUME SlotsInv, NEW c \in Caller, Ask(c) PROVE SlotsInv' /\ store' = store
<1>1. PICK k \in Slot : get' = [get EXCEPT ![c] = [NoGet EXCEPT !.slot = k, !.pc = "read"]]
      BY DEF Ask
<1> DEFINE r == [NoGet EXCEPT !.slot = k, !.pc = "read"]
<1>2. r \in GetRecord /\ r.pc = "read"
      BY SecretsAssumption DEF NoGet, GetRecord
<1> HIDE DEF r
<1>3. get'[c] = r /\ \A d \in Caller : d # c => get'[d] = get[d]
      <2>1. get' = [get EXCEPT ![c] = r]
            BY <1>1 DEF r
      <2> QED BY <2>1 DEF SlotsInv, SlotTypes
<1>4. UNCHANGED <<store, drawn, issued, raced>>
      BY DEF Ask
<1>5. SlotTypes'
      <2>1. get' = [get EXCEPT ![c] = r]
            BY <1>1 DEF r
      <2> QED BY <2>1, <1>2, <1>3, <1>4 DEF SlotsInv, SlotTypes
<1>6. \A d \in Caller, j \in Slot : Writes(d, j)' => Writes(d, j) /\ d # c
      BY <1>2, <1>3 DEF Writes
<1>7. SaltStays'
      BY <1>4, <1>6, SecretsAssumption DEF SlotsInv, SaltStays
<1>8. ASSUME NEW j \in Slot \ raced PROVE KeptOnce(j)'
      BY <1>3, <1>4, <1>6 DEF SlotsInv, KeptOnce
<1> QED BY <1>4, <1>5, <1>7, <1>8 DEF SlotsInv

\* A step of getOrCreateId or getOrCreateSalt, or a kill.
LEMMA SlotsStep ==
    ASSUME SlotsInv, [SecretsNext]_secretsVars
    PROVE  SlotsInv' /\ store'[Salt] = store[Salt]
<1>1. ASSUME NEW c \in Caller, Ask(c) PROVE SlotsInv' /\ store'[Salt] = store[Salt]
      BY <1>1, AskStep
<1>2. ASSUME NEW c \in Caller, ReadExisting(c)
      PROVE SlotsInv' /\ store'[Salt] = store[Salt]
      BY <1>2, EndsQuietly DEF ReadExisting, Existing, Returns
<1>3. ASSUME NEW c \in Caller, Draw(c) PROVE SlotsInv' /\ store'[Salt] = store[Salt]
      BY <1>3, DrawStep
<1>4. ASSUME NEW c \in Caller, Keep(c) PROVE SlotsInv' /\ store'[Salt] = store[Salt]
      BY <1>4, WriteLands DEF Keep, Returns
<1>5. ASSUME NEW c \in Caller, Throws(c) PROVE SlotsInv' /\ store'[Salt] = store[Salt]
      <2>1. CASE store' = store
            BY <1>5, <2>1, EndsQuietly DEF Throws
      <2>2. CASE store' # store
            <3>1. get[c].pc = "write"
                  BY <1>5, <2>2 DEF Throws, SlotsInv, SlotTypes
            <3>2. store' = [store EXCEPT ![get[c].slot] = get[c].secret]
                  BY <1>5, <2>2 DEF Throws
            <3> QED BY <1>5, <3>1, <3>2, WriteLands DEF Throws
      <2> QED BY <2>1, <2>2
<1>6. ASSUME UNCHANGED slots PROVE SlotsInv' /\ store'[Salt] = store[Salt]
      BY <1>6 DEF slots, SlotsInv, SlotTypes, SaltStays, KeptOnce, Writes
<1>7. CASE Kill
      <2>1. UNCHANGED <<store, drawn, issued, raced>> /\ get' = [c \in Caller |-> NoGet]
            BY <1>7 DEF Kill
      <2>2. NoGet \in GetRecord /\ NoGet.pc = "idle"
            BY SecretsAssumption DEF NoGet, GetRecord
      <2>3. \A c \in Caller : get'[c] = NoGet
            BY <2>1
      <2>4. SlotTypes'
            BY <2>1, <2>2, <2>3 DEF SlotsInv, SlotTypes
      <2>5. \A c \in Caller, k \in Slot : ~Writes(c, k)'
            BY <2>2, <2>3 DEF Writes
      <2> QED BY <2>1, <2>4, <2>5, SecretsAssumption DEF SlotsInv, SaltStays, KeptOnce
<1>8. CASE UNCHANGED secretsVars
      BY <1>8, <1>6 DEF secretsVars, slots
<1>9. ASSUME NEW c \in Caller, OpenCurrent(c) \/ Rekey(c) \/ Verified(c) \/ RekeyFails(c)
      PROVE SlotsInv' /\ store'[Salt] = store[Salt]
      BY <1>9, <1>6 DEF OpenCurrent, Rekey, Verified, RekeyFails
<1> QED BY <1>1, <1>2, <1>3, <1>4, <1>5, <1>7, <1>8, <1>9 DEF SecretsNext

LEMMA SlotsInvariant == SecretsSpec => []SlotsInv
<1>1. SlotsInv /\ [SecretsNext]_secretsVars => SlotsInv'
      BY SlotsStep
<1> QED BY <1>1, SlotsInvInit, PTL DEF SecretsSpec

\* deviceId.ts, dbKeyDerivation.ts: whatever a call of getOrCreateId or
\* getOrCreateSalt returned is what every later one returns, over any number of
\* calls, throws and kills, unless two calls found the slot empty together.
THEOREM IssuedIsKeptAlways == SecretsSpec => []IssuedIsKept
<1>1. SlotsInv => IssuedIsKept
      BY DEF SlotsInv, KeptOnce, IssuedIsKept
<1> QED BY <1>1, SlotsInvariant, PTL

----------------------------------------------------------------------------
(* Secrets: the PIN that opens the database.                                *)

KeyOf(pin) == DeriveDbKey(pin, store[Salt])

\* A change under way has the key of its new PIN and the salt, which stays.
ChangeRecord == [pc : {"rekey", "verify"}, pin : Pin, key : Pin \X Nat]

ChangeTypes ==
    /\ change \in [Caller -> {NoChange} \cup ChangeRecord]
    /\ \A c \in InFlight : change[c].key = KeyOf(change[c].pin)

Opens == \E p \in known : db = KeyOf(p)

\* While one change is under way the database has the key it had, which a known
\* PIN makes, and after the re-key that of the new PIN, or none.
OneChange ==
    /\ \A c, d \in InFlight : c = d
    /\ InFlight = {} => Opens \/ (db = NoKey /\ doubtful)
    /\ \A c \in InFlight :
          \/ change[c].pc = "rekey" /\ Opens
          \/ change[c].pc = "verify" /\ db \in {change[c].key, NoKey}

PinInv == ChangeTypes /\ crossed \in BOOLEAN /\ (~crossed => OneChange)

\* A key is never taken for the lack of one, and tells its PIN.
LEMMA KeysDiffer ==
    ASSUME NEW p, NEW q, NEW salt
    PROVE  /\ DeriveDbKey(p, salt) # NoKey
           /\ DeriveDbKey(p, salt) = DeriveDbKey(q, salt) => p = q
  BY DEF DeriveDbKey, NoKey

LEMMA NoChangeIsIdle == NoChange.pc = "idle" /\ NoChange \notin ChangeRecord
  BY DEF NoChange, ChangeRecord

LEMMA InFlightRecord ==
    ASSUME PinInv, NEW c \in Caller, change[c] # NoChange
    PROVE  change[c] \in ChangeRecord /\ change[c].key = KeyOf(change[c].pin)
  BY DEF PinInv, ChangeTypes, InFlight

LEMMA PinInvInit == SecretsInit => PinInv
<1> SUFFICES ASSUME SecretsInit PROVE PinInv
    OBVIOUS
<1>1. change = [c \in Caller |-> NoChange] /\ InFlight = {} /\ crossed = FALSE
      BY DEF SecretsInit, InFlight
<1>2. store[Salt] = 1
      BY SecretsAssumption DEF SecretsInit
<1>3. Opens
      BY <1>2 DEF SecretsInit, Opens, KeyOf
<1> QED BY <1>1, <1>3 DEF PinInv, ChangeTypes, OneChange

\* A change ends: the others are where they were.
LEMMA ChangeEnds ==
    ASSUME PinInv, NEW c \in Caller, change[c] # NoChange, Ends(c), store'[Salt] = store[Salt]
    PROVE  ChangeTypes' /\ InFlight' = InFlight \ {c}
<1>1. change'[c] = NoChange /\ \A d \in Caller : d # c => change'[d] = change[d]
      BY DEF Ends, PinInv, ChangeTypes
<1>2. InFlight' = InFlight \ {c}
      BY <1>1 DEF InFlight
<1>3. change' \in [Caller -> {NoChange} \cup ChangeRecord]
      BY DEF Ends, PinInv, ChangeTypes
<1>4. \A d \in InFlight' : (change[d].key = KeyOf(change[d].pin))'
      BY <1>1, <1>2 DEF PinInv, ChangeTypes, KeyOf, InFlight
<1> QED BY <1>2, <1>3, <1>4 DEF ChangeTypes

\* Alone and cut short, a change leaves what one of the known PINs opens, the new
\* one among them, or a database that nothing opens.
LEMMA CutShort ==
    ASSUME PinInv, ~crossed, NEW c \in InFlight,
           db' \in Halfway(c), known \cup {change[c].pin} \subseteq known',
           store'[Salt] = store[Salt]
    PROVE  Opens' \/ db' = NoKey
<1>1. change[c].key = KeyOf(change[c].pin)
      BY DEF PinInv, ChangeTypes
<1>2. db' = KeyOf(change[c].pin) => Opens'
      BY DEF Opens, KeyOf
<1>3. db' = db /\ Opens => Opens'
      BY DEF Opens, KeyOf
<1>4. CASE change[c].pc = "rekey" /\ Opens
      BY <1>1, <1>2, <1>3, <1>4 DEF Halfway
<1>5. CASE change[c].pc = "verify" /\ db \in {change[c].key, NoKey}
      BY <1>1, <1>2, <1>5 DEF Halfway
<1> QED BY <1>4, <1>5 DEF PinInv, OneChange

LEMMA OpenCurrentStep ==
    ASSUME PinInv, NEW c \in Caller, OpenCurrent(c), store'[Salt] = store[Salt],
           store[Salt] \in Nat
    PROVE  PinInv'
<1>1. /\ change[c] = NoChange /\ UNCHANGED <<db, known, doubtful>>
      /\ crossed' = (crossed \/ InFlight # {})
      BY DEF OpenCurrent
<1>2. Opens' <=> Opens
      BY <1>1 DEF Opens, KeyOf
<1>3. CASE change' = change
      <2>1. InFlight' = InFlight
            BY <1>3 DEF InFlight
      <2> QED BY <1>1, <1>2, <1>3, <2>1 DEF PinInv, ChangeTypes, OneChange, KeyOf
<1>4. CASE change' # change
      <2>1. PICK current \in Pin, new \in Pin :
              /\ db = KeyOf(current)
              /\ change' = [change EXCEPT ![c] =
                     [pc |-> "rekey", pin |-> new, key |-> KeyOf(new)]]
            BY <1>4 DEF OpenCurrent, KeyOf
      <2> DEFINE r == [pc |-> "rekey", pin |-> new, key |-> KeyOf(new)]
      <2>2. r \in ChangeRecord /\ r # NoChange /\ r.pc = "rekey" /\ r.key = KeyOf(r.pin)
            BY NoChangeIsIdle DEF ChangeRecord, KeyOf, DeriveDbKey
      <2> HIDE DEF r
      <2>3. change'[c] = r /\ \A d \in Caller : d # c => change'[d] = change[d]
            BY <2>1 DEF r, PinInv, ChangeTypes
      <2>4. InFlight' = InFlight \cup {c}
            BY <2>2, <2>3 DEF InFlight
      <2>5. ChangeTypes'
            <3>1. change' \in [Caller -> {NoChange} \cup ChangeRecord]
                  BY <2>1, <2>2 DEF r, PinInv, ChangeTypes
            <3>2. \A d \in InFlight' : (change[d].key = KeyOf(change[d].pin))'
                  BY <2>2, <2>3, <2>4 DEF PinInv, ChangeTypes, KeyOf, InFlight
            <3> QED BY <3>1, <3>2 DEF ChangeTypes
      <2>6. ASSUME ~crossed' PROVE OneChange'
            <3>1. InFlight' = {c}
                  BY <1>1, <2>4, <2>6
            <3>2. Opens
                  BY <1>1, <2>1, <2>6, KeysDiffer DEF PinInv, OneChange, KeyOf
            <3> QED BY <1>2, <2>2, <2>3, <3>1, <3>2 DEF OneChange
      <2> QED BY <1>1, <2>5, <2>6 DEF PinInv
<1> QED BY <1>3, <1>4

LEMMA RekeyStep ==
    ASSUME PinInv, NEW c \in Caller, Rekey(c), store'[Salt] = store[Salt] PROVE PinInv'
<1>1. change[c].pc = "rekey" /\ db' \in {change[c].key, NoKey} /\ UNCHANGED <<known, crossed>>
      BY DEF Rekey
<1>2. change[c] # NoChange /\ c \in InFlight
      BY <1>1, NoChangeIsIdle DEF InFlight
<1> DEFINE r == [change[c] EXCEPT !.pc = "verify"]
<1>3. r \in ChangeRecord /\ r.pc = "verify" /\ r.key = change[c].key /\ r.pin = change[c].pin
      BY <1>2, InFlightRecord DEF ChangeRecord
<1> HIDE DEF r
<1>4. change' = [change EXCEPT ![c] = r]
      BY DEF Rekey, r
<1>5. change'[c] = r /\ \A d \in Caller : d # c => change'[d] = change[d]
      BY <1>4 DEF PinInv, ChangeTypes
<1>6. InFlight' = InFlight
      BY <1>2, <1>3, <1>5, NoChangeIsIdle DEF InFlight
<1>7. ChangeTypes'
      <2>1. change' \in [Caller -> {NoChange} \cup ChangeRecord]
            BY <1>3, <1>4 DEF PinInv, ChangeTypes
      <2>2. \A d \in InFlight' : (change[d].key = KeyOf(change[d].pin))'
            BY <1>2, <1>3, <1>5, <1>6 DEF PinInv, ChangeTypes, KeyOf, InFlight
      <2> QED BY <2>1, <2>2 DEF ChangeTypes
<1>8. ASSUME ~crossed' PROVE OneChange'
      <2>1. \A d \in InFlight : d = c
            BY <1>1, <1>2, <1>8 DEF PinInv, OneChange
      <2> QED BY <1>1, <1>2, <1>3, <1>5, <1>6, <2>1 DEF OneChange
<1> QED BY <1>1, <1>7, <1>8 DEF PinInv

LEMMA VerifiedStep ==
    ASSUME PinInv, NEW c \in Caller, Verified(c), store'[Salt] = store[Salt] PROVE PinInv'
<1>1. change[c].pc = "verify" /\ db # NoKey /\ UNCHANGED <<db, crossed>>
        /\ known' = {change[c].pin} /\ Ends(c)
      BY DEF Verified, Readable
<1>2. change[c] # NoChange /\ c \in InFlight
      BY <1>1, NoChangeIsIdle DEF InFlight
<1>3. ChangeTypes' /\ InFlight' = InFlight \ {c}
      BY <1>1, <1>2, ChangeEnds
<1>4. ASSUME ~crossed' PROVE OneChange'
      <2>1. InFlight' = {}
            BY <1>1, <1>2, <1>3, <1>4 DEF PinInv, OneChange
      <2>2. db = KeyOf(change[c].pin)
            BY <1>1, <1>2, <1>4, InFlightRecord DEF PinInv, OneChange
      <2>3. Opens'
            BY <1>1, <2>2 DEF Opens, KeyOf
      <2> QED BY <2>1, <2>3 DEF OneChange
<1> QED BY <1>1, <1>3, <1>4 DEF PinInv

LEMMA RekeyFailsStep ==
    ASSUME PinInv, NEW c \in Caller, RekeyFails(c), store'[Salt] = store[Salt] PROVE PinInv'
<1>1. /\ change[c] # NoChange /\ db' \in Halfway(c) /\ doubtful' = TRUE
      /\ known' = known \cup {change[c].pin} /\ Ends(c) /\ crossed' = crossed
      BY DEF RekeyFails
<1>2. c \in InFlight
      BY <1>1 DEF InFlight
<1>3. ChangeTypes' /\ InFlight' = InFlight \ {c}
      BY <1>1, ChangeEnds
<1>4. ASSUME ~crossed' PROVE OneChange'
      <2>1. InFlight' = {}
            BY <1>1, <1>2, <1>3, <1>4 DEF PinInv, OneChange
      <2>2. Opens' \/ db' = NoKey
            BY <1>1, <1>2, <1>4, CutShort
      <2> QED BY <1>1, <2>1, <2>2 DEF OneChange
<1> QED BY <1>1, <1>3, <1>4 DEF PinInv

LEMMA KillStep ==
    ASSUME PinInv, Kill, store'[Salt] = store[Salt] PROVE PinInv'
<1>1. /\ change' = [c \in Caller |-> NoChange]
      /\ db' \in {db} \cup UNION {Halfway(c) : c \in InFlight}
      /\ known' = known \cup {change[c].pin : c \in InFlight}
      /\ doubtful' = (doubtful \/ InFlight # {})
      /\ crossed' = crossed
      BY DEF Kill
<1>2. ChangeTypes' /\ InFlight' = {}
      BY <1>1 DEF ChangeTypes, InFlight
<1>3. ASSUME ~crossed' PROVE OneChange'
      <2>1. CASE InFlight = {}
            <3>1. db' = db /\ known' = known /\ (doubtful => doubtful')
                  BY <1>1, <2>1
            <3>2. Opens \/ (db = NoKey /\ doubtful)
                  BY <1>1, <1>3, <2>1 DEF PinInv, OneChange
            <3>3. Opens => Opens'
                  BY <3>1 DEF Opens, KeyOf
            <3> QED BY <1>2, <3>1, <3>2, <3>3 DEF OneChange
      <2>2. CASE InFlight # {}
            <3>1. PICK c \in InFlight : db' \in Halfway(c)
                  BY <1>1, <2>2 DEF Halfway
            <3>2. Opens' \/ db' = NoKey
                  BY <1>1, <1>3, <3>1, CutShort
            <3> QED BY <1>1, <1>2, <2>2, <3>2 DEF OneChange
      <2> QED BY <2>1, <2>2
<1> QED BY <1>1, <1>2, <1>3 DEF PinInv

LEMMA PinInvStep == SlotsInv /\ PinInv /\ [SecretsNext]_secretsVars => PinInv'
<1> SUFFICES ASSUME SlotsInv, PinInv, [SecretsNext]_secretsVars PROVE PinInv'
    OBVIOUS
<1>1. store'[Salt] = store[Salt] /\ store[Salt] \in Nat
      BY SlotsStep, SecretsAssumption DEF SlotsInv, SlotTypes
<1>2. ASSUME UNCHANGED vault PROVE PinInv'
      <2>1. InFlight' = InFlight
            BY <1>2 DEF vault, InFlight
      <2>2. Opens' <=> Opens
            BY <1>1, <1>2 DEF vault, Opens, KeyOf
      <2> QED BY <1>1, <1>2, <2>1, <2>2 DEF vault, PinInv, ChangeTypes, OneChange, KeyOf
<1>3. ASSUME NEW c \in Caller, Ask(c) \/ ReadExisting(c) \/ Draw(c) \/ Keep(c) \/ Throws(c)
      PROVE  PinInv'
      BY <1>2, <1>3 DEF Ask, ReadExisting, Draw, Keep, Throws
<1>4. ASSUME NEW c \in Caller, OpenCurrent(c) \/ Rekey(c) \/ Verified(c) \/ RekeyFails(c)
      PROVE  PinInv'
      BY <1>1, <1>4, OpenCurrentStep, RekeyStep, VerifiedStep, RekeyFailsStep
<1>5. CASE Kill
      BY <1>1, <1>5, KillStep
<1>6. CASE UNCHANGED secretsVars
      BY <1>2, <1>6 DEF secretsVars, vault
<1> QED BY <1>3, <1>4, <1>5, <1>6 DEF SecretsNext

\* SECURITY.md: a PIN change must not "silently lose data".  Over any number of
\* changes, throws and kills, one of the PINs that were the owner's opens the
\* database, or the last change did not end in an OK; two changes side by side are
\* the one thing that undoes this.
THEOREM PinOpensAlways == SecretsSpec => []PinOpens
<1>1. PinInv => PinOpens
      BY DEF PinInv, OneChange, Opens, KeyOf, PinOpens
<1> QED BY <1>1, SlotsInvariant, PinInvInit, PinInvStep, PTL DEF SecretsSpec

----------------------------------------------------------------------------
(* DeviceClock.                                                             *)

\* The inductive invariant.
ClockInv == TypeOK /\ ClockAhead

----------------------------------------------------------------------------
\* A stamp issued by a clock strictly ahead of s is after all s is level with.
LEMMA AheadIsAfter ==
    ASSUME NEW s \in HlcState, NEW t \in HlcState, NEW d \in Device,
           NEW h \in Stamps, NotBehind(s, h), StateLess(s, t)
    PROVE  StampLess(h, Stamp(t, d)) /\ NotBehind(t, h)
BY DEF HlcState, Stamps, NotBehind, StateLess, StampLess, Stamp

----------------------------------------------------------------------------
LEMMA InitClockInv == Init => ClockInv
BY DEF Init, ClockInv, TypeOK, OnlyWritten, ClockAhead, Own, ZeroHlc, HlcState, Stamps

\* What an append does to the writer, and to nobody else.
LEMMA WriteEffect ==
    ASSUME ClockInv, NEW d \in Device, Write(d)
    PROVE  \E h \in Stamps :
             /\ clock'[d] \in HlcState
             /\ clock' = [clock EXCEPT ![d] = clock'[d]]
             /\ h = Stamp(clock'[d], d)
             /\ StateLess(clock[d], clock'[d])
             /\ table' = [table EXCEPT ![d] = @ \cup {h}]
             /\ session' = [session EXCEPT ![d] = @ \cup {h}]
             /\ Own(d)' = Own(d) \cup {h}
             /\ count'[d] = count[d] + 1
<1>1. PICK now \in Readings :
        /\ clock' = [clock EXCEPT ![d] = Tick(clock[d], now)]
        /\ table' = [table EXCEPT ![d] = @ \cup {Stamp(Tick(clock[d], now), d)}]
        /\ session' = [session EXCEPT ![d] = @ \cup {Stamp(Tick(clock[d], now), d)}]
      BY DEF Write
<1> DEFINE s == Tick(clock[d], now)
           h == Stamp(s, d)
<1>2. now \in Nat /\ clock[d] \in HlcState
      BY ReadingsAssumption DEF ClockInv, TypeOK
<1>3. s \in HlcState /\ StateLess(clock[d], s)
      BY <1>2, TickAdvances
<1>4. clock'[d] = s
      BY <1>1 DEF ClockInv, TypeOK
<1>5. h \in Stamps
      BY <1>3 DEF Stamp, Stamps, HlcState
<1>6. Own(d)' = Own(d) \cup {h}
      <2>1. table'[d] = table[d] \cup {h}
            BY <1>1 DEF ClockInv, TypeOK
      <2>2. h.dev = d
            BY DEF Stamp
      <2> HIDE DEF h
      <2> QED BY <2>1, <2>2 DEF Own
<1>7. count'[d] = count[d] + 1
      BY DEF Write, ClockInv, TypeOK
<1>8. h = Stamp(clock'[d], d)
      BY <1>4
<1>9. /\ clock' = [clock EXCEPT ![d] = clock'[d]]
      /\ table' = [table EXCEPT ![d] = @ \cup {h}]
      /\ session' = [session EXCEPT ![d] = @ \cup {h}]
      BY <1>1, <1>4
<1>10. clock'[d] \in HlcState /\ StateLess(clock[d], clock'[d])
      BY <1>3, <1>4
<1> HIDE DEF s, h
<1> QED BY <1>5, <1>6, <1>7, <1>8, <1>9, <1>10

\* A stamp comes into a table when its device writes it, or from that device's.
LEMMA TableGrows ==
    ASSUME ClockInv, NEW d \in Device, NEW h \in Stamps,
           table' = [table EXCEPT ![d] = @ \cup {h}], h.dev = d \/ h \in table[h.dev]
    PROVE  OnlyWritten'
<1>1. table'[d] = table[d] \cup {h} /\ \A f \in Device : table[f] \subseteq table'[f]
      BY DEF ClockInv, TypeOK
<1>2. h \in table'[h.dev]
      BY <1>1 DEF Stamps
<1>3. \A f \in Device : table'[f] \subseteq table[f] \cup {h}
      BY DEF ClockInv, TypeOK
<1>4. ASSUME NEW f \in Device, NEW g \in table[f] PROVE g \in table'[g.dev]
      <2>1. g \in Stamps /\ g \in table[g.dev]
            BY DEF ClockInv, TypeOK, OnlyWritten
      <2>2. g.dev \in Device
            BY <2>1 DEF Stamps
      <2> QED BY <1>1, <2>1, <2>2
<1> QED BY <1>2, <1>3, <1>4 DEF OnlyWritten

LEMMA WriteKeepsInv ==
    ASSUME ClockInv, NEW d \in Device, Write(d)
    PROVE  ClockInv'
<1>1. PICK h \in Stamps :
        /\ clock'[d] \in HlcState
        /\ clock' = [clock EXCEPT ![d] = clock'[d]]
        /\ h = Stamp(clock'[d], d)
        /\ StateLess(clock[d], clock'[d])
        /\ table' = [table EXCEPT ![d] = @ \cup {h}]
        /\ session' = [session EXCEPT ![d] = @ \cup {h}]
        /\ Own(d)' = Own(d) \cup {h}
      BY WriteEffect
<1>2. TypeOK'
      <2>1. count' \in [Device -> Nat]
            BY DEF Write, ClockInv, TypeOK
      <2>2. h.dev = d
            BY <1>1 DEF Stamp
      <2>3. OnlyWritten'
            BY <1>1, <2>2, TableGrows
      <2> QED BY <1>1, <2>1, <2>3 DEF ClockInv, TypeOK
<1>3. ASSUME NEW e \in Device, e # d
      PROVE  clock'[e] = clock[e] /\ session'[e] = session[e] /\ Own(e)' = Own(e)
      BY <1>1, <1>3 DEF ClockInv, TypeOK, Own
<1>4. \A g \in session[d] \cup Own(d) :
         g \in Stamps /\ StampLess(g, h) /\ NotBehind(clock'[d], g)
      <2> TAKE g \in session[d] \cup Own(d)
      <2>1. g \in Stamps
            BY DEF ClockInv, TypeOK, Own
      <2>2. NotBehind(clock[d], g) /\ clock[d] \in HlcState
            BY DEF ClockInv, ClockAhead, TypeOK
      <2> QED BY <1>1, <2>1, <2>2, AheadIsAfter
<1>5. NotBehind(clock'[d], h)
      BY <1>1 DEF Stamp, NotBehind, HlcState
<1>6. session'[d] = session[d] \cup {h}
      BY <1>1 DEF ClockInv, TypeOK
<1>7. IsLatest(h, Own(d)')
      BY <1>1, <1>4 DEF IsLatest
<1>8. ClockAhead'
      <2> SUFFICES ASSUME NEW e \in Device
                   PROVE  /\ \A g \in session'[e] \cup Own(e)' : NotBehind(clock'[e], g)
                          /\ Own(e)' = {} \/ \E g \in Own(e)' : IsLatest(g, Own(e)')
            BY DEF ClockAhead
      <2>1. CASE e = d
            BY <1>1, <1>4, <1>5, <1>6, <1>7, <2>1
      <2>2. CASE e # d
            BY <1>3, <2>2 DEF ClockInv, ClockAhead
      <2> QED BY <2>1, <2>2
<1> QED BY <1>2, <1>8 DEF ClockInv

LEMMA RefusedKeepsInv ==
    ASSUME ClockInv, NEW d \in Device, WriteRefused(d)
    PROVE  ClockInv'
<1>1. PICK now \in Readings : clock' = [clock EXCEPT ![d] = Tick(clock[d], now)]
      BY DEF WriteRefused
<1>2. /\ clock[d] \in HlcState
      /\ Tick(clock[d], now) \in HlcState
      /\ StateLess(clock[d], Tick(clock[d], now))
      BY TickAdvances, ReadingsAssumption DEF ClockInv, TypeOK
<1>3. UNCHANGED <<table, session, count>>
      BY DEF WriteRefused
<1>4. TypeOK'
      BY <1>1, <1>2, <1>3 DEF ClockInv, TypeOK, OnlyWritten
<1>5. ASSUME NEW e \in Device, NEW g \in session[e] \cup Own(e)
      PROVE  NotBehind(clock'[e], g)
      <2>1. g \in Stamps /\ NotBehind(clock[e], g)
            BY DEF ClockInv, ClockAhead, TypeOK, Own
      <2>2. CASE e = d
            <3>1. clock'[d] = Tick(clock[d], now)
                  BY <1>1 DEF ClockInv, TypeOK
            <3> QED BY <1>2, <2>1, <2>2, <3>1, AheadIsAfter
      <2>3. CASE e # d
            BY <1>1, <2>1, <2>3 DEF ClockInv, TypeOK
      <2> QED BY <2>2, <2>3
<1>6. \A e \in Device : Own(e)' = Own(e)
      BY <1>3 DEF Own
<1> QED BY <1>3, <1>4, <1>5, <1>6 DEF ClockInv, ClockAhead

LEMMA MergeKeepsInv ==
    ASSUME ClockInv, NEW d \in Device, NEW e \in Device, NEW h \in Own(e),
           Merge(d, h)
    PROVE  ClockInv' /\ \A f \in Device : Own(f)' = Own(f)
<1>1. h \in Stamps /\ h.dev = e /\ h \in table[e] /\ h \notin table[d]
      BY DEF Own, Merge, ClockInv, TypeOK
<1>2. PICK now \in Readings :
        clock' = [clock EXCEPT ![d] = TickReceive(clock[d], ClockOf(h), now)]
      BY DEF Merge
<1> DEFINE t == TickReceive(clock[d], ClockOf(h), now)
<1>3. /\ clock[d] \in HlcState /\ ClockOf(h) \in HlcState /\ now \in Nat
      BY <1>1, ReadingsAssumption DEF ClockInv, TypeOK, ClockOf, HlcState, Stamps
<1>4. t \in HlcState /\ StateLess(clock[d], t) /\ StateLess(ClockOf(h), t)
      BY <1>3, ReceiveAdvances
<1>5. /\ table' = [table EXCEPT ![d] = @ \cup {h}]
      /\ session' = [session EXCEPT ![d] = @ \cup {h}]
      /\ count' = count
      BY DEF Merge
<1> HIDE DEF t
<1>6. TypeOK'
      <2>1. OnlyWritten'
            BY <1>1, <1>5, TableGrows
      <2> QED BY <1>1, <1>2, <1>4, <1>5, <2>1 DEF ClockInv, TypeOK, t
<1>7. ASSUME NEW f \in Device PROVE Own(f)' = Own(f)
      BY <1>1, <1>5 DEF ClockInv, TypeOK, Own
<1>8. NotBehind(t, h)
      BY <1>1, <1>4 DEF NotBehind, StateLess, ClockOf, HlcState, Stamps
<1>9. ASSUME NEW f \in Device, NEW g \in session'[f] \cup Own(f)
      PROVE  NotBehind(clock'[f], g)
      <2>1. CASE f = d
            <3>1. clock'[d] = t /\ session'[d] = session[d] \cup {h}
                  BY <1>2, <1>5 DEF ClockInv, TypeOK, t
            <3>2. CASE g = h
                  BY <1>8, <2>1, <3>1, <3>2
            <3>3. CASE g \in session[d] \cup Own(d)
                  <4>1. g \in Stamps /\ NotBehind(clock[d], g)
                        BY <3>3 DEF ClockInv, ClockAhead, TypeOK, Own
                  <4> QED BY <1>3, <1>4, <2>1, <3>1, <4>1, AheadIsAfter
            <3> QED BY <2>1, <3>1, <3>2, <3>3
      <2>2. CASE f # d
            BY <1>2, <1>5, <2>2 DEF ClockInv, ClockAhead, TypeOK
      <2> QED BY <2>1, <2>2
<1> QED BY <1>6, <1>7, <1>9 DEF ClockInv, ClockAhead

LEMMA RestartKeepsInv ==
    ASSUME ClockInv, NEW d \in Device, Restart(d)
    PROVE  ClockInv' /\ \A f \in Device : Own(f)' = Own(f)
<1>1. /\ clock' = [clock EXCEPT ![d] = Seed(d)]
      /\ session' = [session EXCEPT ![d] = {}]
      /\ UNCHANGED <<table, count>>
      BY DEF Restart
<1>2. \A f \in Device : Own(f)' = Own(f)
      BY <1>1 DEF Own
<1>3. Seed(d) \in HlcState /\ \A g \in Own(d) : NotBehind(Seed(d), g)
      <2>1. CASE Own(d) = {}
            BY <2>1 DEF Seed, ZeroHlc, HlcState
      <2>2. CASE Own(d) # {}
            <3>1. PICK k \in Own(d) : IsLatest(k, Own(d)) /\ Seed(d) = ClockOf(k)
                  <4>1. \E h \in Own(d) : IsLatest(h, Own(d))
                        BY <2>2 DEF ClockInv, ClockAhead
                  <4> DEFINE m == CHOOSE h \in Own(d) : IsLatest(h, Own(d))
                  <4>2. m \in Own(d) /\ IsLatest(m, Own(d))
                        BY <4>1
                  <4>3. Seed(d) = ClockOf(m)
                        BY <2>2 DEF Seed
                  <4> QED BY <4>2, <4>3
            <3>2. Own(d) \subseteq Stamps
                  BY DEF Own, ClockInv, TypeOK
            <3>3. \A g \in Own(d) : g = k \/ StampLess(g, k)
                  BY <3>1 DEF IsLatest
            <3>4. \A g \in Own(d) : g.dev = k.dev
                  BY DEF Own
            <3> QED BY <3>1, <3>2, <3>3, <3>4
                    DEF ClockOf, HlcState, Stamps, NotBehind, StampLess, StateLess
      <2> QED BY <2>1, <2>2
<1>4. TypeOK'
      BY <1>1, <1>3 DEF ClockInv, TypeOK, OnlyWritten
<1>5. ASSUME NEW f \in Device, NEW g \in session'[f] \cup Own(f)
      PROVE  NotBehind(clock'[f], g)
      <2>1. CASE f = d
            BY <1>1, <1>3, <2>1 DEF ClockInv, TypeOK
      <2>2. CASE f # d
            BY <1>1, <2>2 DEF ClockInv, ClockAhead, TypeOK
      <2> QED BY <2>1, <2>2
<1> QED BY <1>2, <1>4, <1>5 DEF ClockInv, ClockAhead

LEMMA NextClockInv == ClockInv /\ [Next]_vars => ClockInv'
<1> SUFFICES ASSUME ClockInv, [Next]_vars PROVE ClockInv'
    OBVIOUS
<1>1. ASSUME NEW d \in Device, Write(d) PROVE ClockInv'
      BY <1>1, WriteKeepsInv
<1>2. ASSUME NEW d \in Device, WriteRefused(d) PROVE ClockInv'
      BY <1>2, RefusedKeepsInv
<1>3. ASSUME NEW d \in Device, NEW e \in Device, NEW h \in Own(e), Merge(d, h)
      PROVE  ClockInv'
      BY <1>3, MergeKeepsInv
<1>4. ASSUME NEW d \in Device, Restart(d) PROVE ClockInv'
      BY <1>4, RestartKeepsInv
<1>5. CASE UNCHANGED vars
      BY <1>5 DEF vars, ClockInv, TypeOK, OnlyWritten, ClockAhead, Own
<1> QED BY <1>1, <1>2, <1>3, <1>4, <1>5 DEF Next

\* The invariant of the clocks, restarts included: no clock is behind what its
\* device wrote, nor behind what the device merged since the clock was built.
THEOREM ClockInvariant == Spec => []ClockInv
<1>1. Init => ClockInv
      BY InitClockInv
<1>2. ClockInv /\ [Next]_vars => ClockInv'
      BY NextClockInv
<1> QED BY <1>1, <1>2, PTL DEF Spec

\* Type correctness of DeviceClock; and whatever is merged or restarted, no table
\* ever holds a stamp its device has not written.
THEOREM ClockTypes == Spec => []TypeOK
<1>1. ClockInv => TypeOK
      BY DEF ClockInv
<1> QED BY <1>1, ClockInvariant, PTL

----------------------------------------------------------------------------
\* Whatever H a device's clock is level with, its next event is after all of H.
LEMMA StepWritesAfter ==
    ASSUME ClockInv, [Next]_vars, NEW d \in Device, NEW H,
           H \subseteq session[d] \cup Own(d)
    PROVE  WritesAfter(d, H)
<1> SUFFICES ASSUME count'[d] # count[d]
             PROVE  \E h \in Own(d)' \ Own(d) : \A g \in H : StampLess(g, h)
    BY DEF WritesAfter
<1>1. Write(d)
      <2>1. ASSUME NEW e \in Device, Write(e) PROVE e = d
            BY <2>1 DEF Write, ClockInv, TypeOK
      <2> QED BY <2>1 DEF Next, WriteRefused, Merge, Restart, vars
<1>2. PICK h \in Stamps :
        /\ clock'[d] \in HlcState
        /\ h = Stamp(clock'[d], d)
        /\ StateLess(clock[d], clock'[d])
        /\ Own(d)' = Own(d) \cup {h}
      BY <1>1, WriteEffect
<1>3. \A g \in H \cup Own(d) : g \in Stamps /\ StampLess(g, h)
      <2> TAKE g \in H \cup Own(d)
      <2>1. g \in Stamps /\ NotBehind(clock[d], g) /\ clock[d] \in HlcState
            BY DEF ClockInv, ClockAhead, TypeOK, Own
      <2> QED BY <1>2, <2>1, AheadIsAfter
<1>4. ~StampLess(h, h)
      <2>1. h.l \in Nat /\ h.c \in Nat /\ h.dev \in Nat
            BY DeviceAssumption DEF Stamps
      <2> QED BY <2>1 DEF StampLess, StateLess
<1>5. h \in Own(d)' \ Own(d)
      BY <1>2, <1>3, <1>4
<1> QED BY <1>3, <1>5

\* A device never re-issues or goes behind one of its own stamps, whatever its
\* wall clock says and however often it restarts (createDeviceClock, tick).
THEOREM OwnStampsAdvanceAlways == Spec => OwnStampsAdvance
<1>1. ClockInv /\ [Next]_vars => [\A d \in Device : WritesAfter(d, Own(d))]_vars
      BY StepWritesAfter
<1> QED BY <1>1, ClockInvariant, PTL DEF Spec, OwnStampsAdvance

\* Within one run of the app, an event is written after all that the device
\* merged before it, in the order every fold uses (tickReceive).
THEOREM CausalWithinSession == Spec => CausalInSession
<1>1. ClockInv /\ [Next]_vars => [\A d \in Device : WritesAfter(d, session[d])]_vars
      BY StepWritesAfter
<1> QED BY <1>1, ClockInvariant, PTL DEF Spec, CausalInSession
=============================================================================
