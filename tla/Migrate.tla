------------------------------- MODULE Migrate -------------------------------
(* migrate() (server/src/db/migrate.ts) and main() (server/src/index.ts):   *)
(* server processes, of builds with more files or fewer, migrate one        *)
(* database before they listen.  A session of Postgres that ends gives up   *)
(* its advisory lock and its open transaction.                              *)
EXTENDS Integers, Sequences, FiniteSets

CONSTANTS
    Server,         \* processes that run at the same time
    Nobody,
    Files,          \* Files[s]: the migrations are numbered, s ships 1..Files[s]
    MaxCrashes      \* bound: files that fail and processes that die

ASSUME MigrateAssumption ==
    Nobody \notin Server /\ Files \in [Server -> Nat] /\ MaxCrashes \in Nat

VARIABLES
    schema,     \* the files whose statements the database has executed, in order
    recorded,   \* the filenames in schema_migrations, NoTable while there is none
    holder,     \* the session that has MIGRATION_LOCK_ID
    server,     \* server[s]: where s is, the filenames it read, its open transaction
    crashes

migrateVars == <<schema, recorded, holder, server, crashes>>

NoTable == {0}
Down == [pc |-> "down", already |-> {}, open |-> <<>>]
At(s, pc) == server[s].pc = pc
Goes(s, pc) == server' = [server EXCEPT ![s].pc = pc]

MigrateInit ==
    /\ schema = <<>> /\ recorded = NoTable
    /\ holder = Nobody
    /\ server = [s \in Server |-> Down]
    /\ crashes = 0

\* main(), to the point where migrate() waits for the lock.
Boot(s) ==
    /\ At(s, "down")
    /\ Goes(s, "lock")
    /\ UNCHANGED <<schema, recorded, holder, crashes>>

\* Mutant of LockFree: two migrators at once.
LockFreeAlways == TRUE

\* pg_advisory_lock waits until this is so.
LockFree == holder = Nobody

TakeLock(s) ==
    /\ At(s, "lock") /\ LockFree
    /\ holder' = s
    /\ Goes(s, "create")
    /\ UNCHANGED <<schema, recorded, crashes>>

CreateTable(s) ==
    /\ At(s, "create")
    /\ recorded' = recorded \ NoTable
    /\ Goes(s, "select")
    /\ UNCHANGED <<schema, holder, crashes>>

SelectApplied(s) ==
    /\ At(s, "select")
    /\ server' = [server EXCEPT ![s].pc = "begin", ![s].already = recorded]
    /\ UNCHANGED <<schema, recorded, holder, crashes>>

\* The files still to be applied, the first of them next.
Pending(s) == 1..Files[s] \ server[s].already
IsNext(s, f) == f \in Pending(s) /\ \A g \in Pending(s) : f <= g

\* BEGIN and the statements of the next file.
Execute(s) ==
    /\ At(s, "begin")
    /\ \E f \in Pending(s) :
          /\ IsNext(s, f)
          /\ server' = [server EXCEPT ![s].pc = "commit", ![s].open = <<f>>]
    /\ UNCHANGED <<schema, recorded, holder, crashes>>

\* The INSERT and COMMIT; what was read at first is not read again.
Commit(s) ==
    /\ At(s, "commit")
    /\ schema' = schema \o server[s].open
    /\ recorded' = recorded \cup {server[s].open[i] : i \in DOMAIN server[s].open}
    /\ server' = [server EXCEPT ![s] = [pc |-> "begin", open |-> <<>>,
                      already |-> @.already \cup {@.open[i] : i \in DOMAIN @.open}]]
    /\ UNCHANGED <<holder, crashes>>

\* Mutant of Released: the lock stays with who had it.
ReleasedNever(s) == holder

\* The lock once the session of s has ended or unlocked it.
Released(s) == IF holder = s THEN Nobody ELSE holder

\* Nothing is pending: unlock, and listen.
Listen(s) ==
    /\ At(s, "begin") /\ Pending(s) = {}
    /\ Goes(s, "serving")
    /\ holder' = Released(s)
    /\ UNCHANGED <<schema, recorded, crashes>>

\* A statement throws and main() gives up, or the process dies, serving or not.
Fails(s) ==
    /\ ~At(s, "down") /\ crashes < MaxCrashes
    /\ crashes' = crashes + 1
    /\ server' = [server EXCEPT ![s] = Down]
    /\ holder' = Released(s)
    /\ UNCHANGED <<schema, recorded>>

MigrateStep(s) ==
    TakeLock(s) \/ CreateTable(s) \/ SelectApplied(s) \/ Execute(s) \/ Commit(s) \/ Listen(s)

MigrateNext == \E s \in Server : Boot(s) \/ MigrateStep(s) \/ Fails(s)

\* A process that runs goes on, and Postgres hands out a lock that is free.
\* Nobody has to start a process.
MigrateFairness == \A s \in Server : WF_migrateVars(MigrateStep(s))

MigrateSpec == MigrateInit /\ [][MigrateNext]_migrateVars /\ MigrateFairness

----------------------------------------------------------------------------
\* migrate.ts: "two migrators cannot both decide the same file still needs
\* applying", and a failure leaves "the last fully-applied migration".  Files are
\* executed once each and in order, as schema_migrations has it, and a server
\* that listens has all of its own.
MigratedOnce ==
    /\ \A i \in DOMAIN schema : schema[i] = i
    /\ recorded \ NoTable = DOMAIN schema
    /\ \A s \in Server : At(s, "serving") => 1..Files[s] \subseteq DOMAIN schema

\* A server that is started comes to serve, or is seen to be down: a migrator
\* that died "releases it ... rather than wedging every future deploy".
EventuallyServing == \A s \in Server : At(s, "lock") ~> At(s, "serving") \/ At(s, "down")
=============================================================================
