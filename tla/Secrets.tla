------------------------------ MODULE Secrets ------------------------------
(* What a device keeps in its secure store, and the key of its database:    *)
(* getOrCreateId (apps/mobile/src/data/deviceId.ts), getOrCreateSalt and    *)
(* changePin (security/dbKeyDerivation.ts).  Each awaits the store or the   *)
(* database in between; other calls run then, and the app may be killed.    *)
(*                                                                          *)
(* Secrets are numbered in the order they are drawn.  The key deriveDbKey   *)
(* makes of a PIN and a salt is the pair of them.                           *)
EXTENDS Integers, FiniteSets

CONSTANTS
    Caller,         \* calls that may be going on together
    Slot,           \* what the store keeps: device id, shop id, salt
    Salt,           \* the slot of the salt
    Pin,
    MaxDraws,       \* bound: secrets drawn
    MaxChanges      \* bound: PIN changes

ASSUME SecretsAssumption == Salt \in Slot /\ {MaxDraws, MaxChanges} \subseteq Nat

VARIABLES
    store,     \* store[k]: the secret kept under k, 0 if there is none
    drawn,     \* secrets drawn so far
    get,       \* get[c]: the getOrCreate call of c
    issued,    \* issued[k]: what the calls returned (history)
    raced,     \* slots two calls found empty together (history)
    db,        \* the key the database opens with, NoKey if none does
    change,    \* change[c]: the changePin call of c
    changes,   \* how many there were
    known,     \* the PINs its owner has reason to try (history)
    doubtful,  \* the last change ended without an OK (history)
    crossed    \* two changes ran side by side (history)

secretsVars == <<store, drawn, get, issued, raced, db, change, changes, known, doubtful,
                crossed>>
slots == <<store, drawn, get, issued, raced>>
vault == <<db, change, changes, known, doubtful, crossed>>

NoGet == [slot |-> Salt, pc |-> "idle", secret |-> 0]
NoKey == <<>>
DeriveDbKey(pin, salt) == <<pin, salt>>
NoChange == [pc |-> "idle", pin |-> CHOOSE p \in Pin : TRUE, key |-> NoKey]

\* A first start, but for the salt and the database encrypted with it.
SecretsInit ==
    /\ drawn = 1
    /\ store = [k \in Slot |-> IF k = Salt THEN 1 ELSE 0]
    /\ get = [c \in Caller |-> NoGet]
    /\ issued = [k \in Slot |-> {}]
    /\ raced = {}
    /\ \E p \in Pin : db = DeriveDbKey(p, 1) /\ known = {p}
    /\ change = [c \in Caller |-> NoChange]
    /\ changes = 0 /\ crossed = FALSE /\ doubtful = FALSE

----------------------------------------------------------------------------
(* getOrCreateId, getOrCreateSalt.                                          *)

Ask(c) ==
    /\ get[c] = NoGet
    /\ \E k \in Slot : get' = [get EXCEPT ![c] = [NoGet EXCEPT !.slot = k, !.pc = "read"]]
    /\ UNCHANGED <<store, drawn, issued, raced, vault>>

Returns(c, secret) ==
    /\ issued' = [issued EXCEPT ![get[c].slot] = @ \cup {secret}]
    /\ get' = [get EXCEPT ![c] = NoGet]

\* Mutant of Existing: created blindly.
ExistingNever(k) == 0

Existing(k) == store[k]

ReadExisting(c) ==
    LET k == get[c].slot IN
    /\ get[c].pc = "read" /\ Existing(k) # 0
    /\ Returns(c, store[k])
    /\ UNCHANGED <<store, drawn, raced, vault>>

Draw(c) ==
    LET k == get[c].slot IN
    /\ get[c].pc = "read" /\ Existing(k) = 0 /\ drawn < MaxDraws
    /\ drawn' = drawn + 1
    /\ get' = [get EXCEPT ![c].pc = "write", ![c].secret = drawn']
    /\ raced' = IF \E d \in Caller : get[d].pc = "write" /\ get[d].slot = k
                THEN raced \cup {k} ELSE raced
    /\ UNCHANGED <<store, issued, vault>>

Keep(c) ==
    /\ get[c].pc = "write"
    /\ store' = [store EXCEPT ![get[c].slot] = get[c].secret]
    /\ Returns(c, get[c].secret)
    /\ UNCHANGED <<drawn, raced, vault>>

\* The store throws, before or after it has written.
Throws(c) ==
    /\ get[c] # NoGet
    /\ store' \in {store} \cup (IF get[c].pc = "read" THEN {}
                               ELSE {[store EXCEPT ![get[c].slot] = get[c].secret]})
    /\ get' = [get EXCEPT ![c] = NoGet]
    /\ UNCHANGED <<drawn, issued, raced, vault>>

----------------------------------------------------------------------------
(* changePin.                                                               *)

InFlight == {c \in Caller : change[c] # NoChange}

Ends(c) == change' = [change EXCEPT ![c] = NoChange]

\* The database opens with the key of the current PIN and the salt in the store,
\* or the answer is WRONG_CURRENT_PIN.
OpenCurrent(c) ==
    /\ change[c] = NoChange /\ changes < MaxChanges /\ store[Salt] # 0
    /\ changes' = changes + 1
    /\ crossed' = (crossed \/ InFlight # {})
    /\ \E current, new \in Pin :
          IF db = DeriveDbKey(current, store[Salt])
          THEN change' = [change EXCEPT ![c] =
                   [pc |-> "rekey", pin |-> new, key |-> DeriveDbKey(new, store[Salt])]]
          ELSE UNCHANGED change
    /\ UNCHANGED <<slots, db, known, doubtful>>

\* rekey() returns; it may have left what no key opens.
Rekey(c) ==
    /\ change[c].pc = "rekey"
    /\ db' \in {change[c].key, NoKey}
    /\ change' = [change EXCEPT ![c].pc = "verify"]
    /\ UNCHANGED <<slots, changes, known, doubtful, crossed>>

\* Mutant of Readable: verify() is not asked.
ReadableAssumed(key) == TRUE

\* verify(): one cheap read.
Readable(key) == key # NoKey

\* OK
Verified(c) ==
    /\ change[c].pc = "verify" /\ Readable(db)
    /\ known' = {change[c].pin} /\ doubtful' = FALSE
    /\ Ends(c)
    /\ UNCHANGED <<slots, db, changes, crossed>>

\* What a re-key that is cut short leaves is anybody's guess.
Halfway(c) == IF change[c].pc = "rekey" THEN {db, change[c].key, NoKey} ELSE {db}

\* REKEY_FAILED, no rollback: rekey() or verify() threw, or the read failed.
RekeyFails(c) ==
    /\ change[c] # NoChange
    /\ db' \in Halfway(c)
    /\ known' = known \cup {change[c].pin} /\ doubtful' = TRUE
    /\ Ends(c)
    /\ UNCHANGED <<slots, changes, crossed>>

\* The app is killed and started again; the store and the database stay.
Kill ==
    /\ get' = [c \in Caller |-> NoGet]
    /\ change' = [c \in Caller |-> NoChange]
    /\ db' \in {db} \cup UNION {Halfway(c) : c \in InFlight}
    /\ known' = known \cup {change[c].pin : c \in InFlight}
    /\ doubtful' = (doubtful \/ InFlight # {})
    /\ get' # get \/ change' # change
    /\ UNCHANGED <<store, drawn, issued, raced, changes, crossed>>

SecretsNext ==
    \/ \E c \in Caller :
        \/ Ask(c) \/ ReadExisting(c) \/ Draw(c) \/ Keep(c) \/ Throws(c)
        \/ OpenCurrent(c) \/ Rekey(c) \/ Verified(c) \/ RekeyFails(c)
    \/ Kill

SecretsSpec == SecretsInit /\ [][SecretsNext]_secretsVars

----------------------------------------------------------------------------
\* dbKeyDerivation.ts: a second salt or device id would "silently change" what
\* the first stands for.  Whatever was handed out is what is in the store and
\* what every later start gets, kills included, unless two first calls overlap.
IssuedIsKept == \A k \in Slot \ raced : issued[k] \subseteq {store[k]}

\* SECURITY.md: a PIN change must not "silently lose data".  When none is under
\* way, a PIN its owner has reason to try opens the database, and after an OK the
\* new one and no other, unless changes ran side by side; no key at all opens it
\* only if the last change did not end in an OK.
PinOpens ==
    InFlight = {} /\ ~crossed =>
        \/ \E p \in known : db = DeriveDbKey(p, store[Salt])
        \/ db = NoKey /\ doubtful
=============================================================================
