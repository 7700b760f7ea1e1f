------------------------------- MODULE Access -------------------------------
(* The way in: the PIN screen of each device (security/PinScreen.tsx) with   *)
(* the session that counts its failures (security/pinSession.ts), and the   *)
(* server's register and login (server/src/routes/auth.ts), whose lockout   *)
(* (server/src/auth/lockout.ts) is two statements.  One phone number.       *)
(*                                                                          *)
(* Instants are kept as the time left until them: Tick lets a unit pass.  A *)
(* request carries the instant it arrived at, so age is the time since, and *)
(* until + age is what was left of the lock then.                           *)
EXTENDS Integers, FiniteSets, FiniteSetsExt

CONSTANTS
    Device, Handler, Pin,
    NoOne, NoPin,
    Threshold,     \* LOCKOUT_THRESHOLD
    Base,          \* BASE_LOCKOUT_MS
    Cap,           \* MAX_LOCKOUT_MS
    MaxAge,        \* bound: how long the server may work on a request
    MaxWrong,      \* bound: PINs that are not the account's
    MaxFailures    \* bound: requests cut short, devices killed

ASSUME NobodyAssumption == NoOne \notin Device \union Handler /\ NoPin \notin Pin
ASSUME DurationAssumption == {Threshold, Base} \subseteq Nat \ {0} /\ Cap \in Nat /\ Cap >= Base
ASSUME BoundAssumption == {MaxAge, MaxWrong, MaxFailures} \subseteq Nat

VARIABLES
    account,   \* the PIN of the shop with this phone, or NoPin
    count,     \* login_attempts.failed_count; 0 where there is no row
    until,     \* login_attempts.locked_until, as time left
    call,      \* call[h]: the request handler h works on
    screen,    \* screen[d]: the PIN screen of device d
    session,   \* session[d]: failedCount, and cooldownUntil as time left
    wrong,     \* PINs submitted that were not the account's
    failures,
    owed,      \* the lock the last counted failure calls for, as time left (history)
    last,      \* the handler that counted it and has not set the lock yet (history)
    raced,     \* another handler has set the lock since, or it was not set (history)
    with       \* the PIN a device was let in with (history)

table == <<count, until, owed, last, raced>>
vars == <<account, table, call, screen, session, wrong, failures, with>>

----------------------------------------------------------------------------
LockoutDuration(failed) ==
    IF failed < Threshold THEN 0 ELSE Min({Base * 2^(failed - Threshold), Cap})

Unlocked == -MaxAge
Later(left) == Max({left - 1, Unlocked})

NoCall == [kind |-> "none", caller |-> NoOne, pin |-> NoPin, stage |-> "free",
           age |-> 0, failed |-> 0, result |-> "", retry |-> 0]

Fresh(mode) == [mode |-> mode, first |-> NoPin, busy |-> FALSE]
NoFailures == [failed |-> 0, cool |-> 0]

Init ==
    /\ account \in Pin \union {NoPin}
    /\ count = 0 /\ until = Unlocked
    /\ owed = Unlocked /\ last = NoOne /\ raced = FALSE
    /\ call = [h \in Handler |-> NoCall]
    /\ screen \in [Device -> {Fresh("ENTER"), Fresh("SET")}]
    /\ session = [d \in Device |-> NoFailures]
    /\ wrong = 0 /\ failures = 0
    /\ with = [d \in Device |-> NoPin]

----------------------------------------------------------------------------
(* The PIN screen.  A PIN is complete with its last digit.                  *)

Ready(d, mode) == screen[d].mode = mode /\ ~screen[d].busy

Send(d, h, kind, stage, pin) ==
    /\ call[h].stage = "free"
    /\ call' = [call EXCEPT ![h] = [NoCall EXCEPT
           !.kind = kind, !.stage = stage, !.caller = d, !.pin = pin]]
    /\ screen' = [screen EXCEPT ![d].busy = TRUE]
    /\ UNCHANGED <<account, table, session, failures, with>>

\* submit, unless the device is cooling down: then it only says so.
Submit(d, h, pin) ==
    /\ Ready(d, "ENTER") /\ session[d].cool = 0
    /\ Send(d, h, "login", "check", pin)
    /\ wrong' = IF pin = account THEN wrong ELSE wrong + 1
    /\ wrong' <= MaxWrong

Choose(d) ==
    /\ Ready(d, "SET")
    /\ \E pin \in Pin : screen' = [screen EXCEPT ![d].mode = "CONFIRM", ![d].first = pin]
    /\ UNCHANGED <<account, table, call, session, wrong, failures, with>>

Mismatch(d) ==
    /\ Ready(d, "CONFIRM")
    /\ Pin # {screen[d].first}
    /\ screen' = [screen EXCEPT ![d] = Fresh("SET")]
    /\ UNCHANGED <<account, table, call, session, wrong, failures, with>>

SetPin(d, h) ==
    /\ Ready(d, "CONFIRM")
    /\ Send(d, h, "register", "exists", screen[d].first)
    /\ UNCHANGED wrong

----------------------------------------------------------------------------
(* The server, one statement at a time.                                     *)

At(h, stage) == call[h].stage = stage
device == <<screen, session, wrong, failures, with>>

Goes(h, stage) == call' = [call EXCEPT ![h].stage = stage]

\* The handler is done; where nobody waits any more nothing is left of it.
Answers(h, result, retry) ==
    LET c == call[h] IN
    call' = [call EXCEPT ![h] = IF c.caller = NoOne THEN NoCall ELSE
        [NoCall EXCEPT !.kind = c.kind, !.caller = c.caller, !.stage = "answer",
                       !.pin = c.pin, !.result = result, !.retry = retry]]

CheckLockout(h) ==
    LET left == until + call[h].age IN
    /\ At(h, "check")
    /\ IF left > 0 THEN Answers(h, "LOCKED_OUT", left) ELSE Goes(h, "verify")
    /\ UNCHANGED <<account, table, device>>

\* An unknown phone fails as a wrong PIN does.
Verify(h) ==
    /\ At(h, "verify")
    /\ Goes(h, IF call[h].pin = account THEN "clear" ELSE "count")
    /\ UNCHANGED <<account, table, device>>

\* recordFailedAttempt, the upsert.
CountFailure(h) ==
    LET locks == LockoutDuration(count + 1) IN
    /\ At(h, "count")
    /\ count' = count + 1
    /\ IF locks > 0
       THEN /\ call' = [call EXCEPT ![h].stage = "lock", ![h].failed = count']
            /\ owed' = Max({locks - call[h].age, Unlocked}) /\ last' = h /\ raced' = FALSE
       ELSE Answers(h, "INCORRECT", 0) /\ UNCHANGED <<owed, last, raced>>
    /\ UNCHANGED <<account, until, device>>

\* Mutant of LockedFor: the count is taken for the one before.
LockedForOneLess(c) == LockoutDuration(c.failed - 1) - c.age

LockedFor(c) == LockoutDuration(c.failed) - c.age

\* recordFailedAttempt, the UPDATE; it finds no row after a login has deleted it.
Lock(h) ==
    /\ At(h, "lock")
    /\ until' = IF count = 0 THEN until ELSE Max({LockedFor(call[h]), Unlocked})
    /\ raced' = (raced \/ h # last) /\ last' = NoOne
    /\ Answers(h, "INCORRECT", 0)
    /\ UNCHANGED <<account, count, owed, device>>

\* clearFailedAttempts.
Clear(h) ==
    /\ At(h, "clear")
    /\ count' = 0 /\ until' = Unlocked
    /\ owed' = Unlocked /\ last' = NoOne /\ raced' = FALSE
    /\ Goes(h, "issue")
    /\ UNCHANGED <<account, device>>

\* issuePair; Session has its statements.
Issue(h) ==
    /\ At(h, "issue")
    /\ Answers(h, "OK", 0)
    /\ UNCHANGED <<account, table, device>>

\* register, the SELECT.
Exists(h) ==
    /\ At(h, "exists")
    /\ IF account # NoPin THEN Answers(h, "UNAVAILABLE", 0) ELSE Goes(h, "insert")
    /\ UNCHANGED <<account, table, device>>

\* Mutant of Inserted: the second of two registrations is taken for the first.
InsertedAnyway == "issue"

\* shops.phone is UNIQUE: where there is a shop by now the INSERT throws.
Inserted == IF account = NoPin THEN "issue" ELSE "throws"

Insert(h) ==
    /\ At(h, "insert")
    /\ IF Inserted = "issue" THEN Goes(h, "issue") ELSE Answers(h, "UNAVAILABLE", 0)
    /\ account' = IF account = NoPin THEN call[h].pin ELSE account
    /\ UNCHANGED <<table, device>>

\* A statement throws, or the server goes down: what is done stays done.
Dies(h) ==
    /\ call[h].stage \notin {"free", "answer"}
    /\ failures < MaxFailures /\ failures' = failures + 1
    /\ Answers(h, "UNAVAILABLE", 0)
    /\ raced' = (raced \/ At(h, "lock"))
    /\ UNCHANGED <<account, count, until, owed, last, screen, session, wrong, with>>

----------------------------------------------------------------------------
(* The answers.                                                             *)

\* submit's three outcomes; setPin counts nothing.
SessionAfter(s, c) ==
    IF c.kind = "register" THEN s
    ELSE CASE c.result = "OK" -> NoFailures
           [] c.result = "LOCKED_OUT" -> [s EXCEPT !.cool = c.retry]
           [] c.result = "INCORRECT" ->
                  [failed |-> s.failed + 1, cool |-> LockoutDuration(s.failed + 1)]
           [] OTHER -> s

\* Mutant of Rested: the finally clause is left out.
RestedIfIn(s, c) == IF c.result = "OK" THEN Fresh("open") ELSE s

\* onUnlocked takes the screen away, or it takes digits again.
Rested(s, c) == IF c.result = "OK" THEN Fresh("open") ELSE [s EXCEPT !.busy = FALSE]

Answer(h) ==
    LET c == call[h]
        d == c.caller
    IN  /\ At(h, "answer")
        /\ call' = [call EXCEPT ![h] = NoCall]
        /\ screen' = [screen EXCEPT ![d] = Rested(@, c)]
        /\ session' = [session EXCEPT ![d] = SessionAfter(@, c)]
        /\ with' = [with EXCEPT ![d] = IF c.result = "OK" THEN c.pin ELSE NoPin]
        /\ UNCHANGED <<account, table, wrong, failures>>

\* The device hears nothing in time, or was killed: the handler works on alone.
Left(d) == call' = [h \in Handler |->
    IF call[h].caller # d THEN call[h]
    ELSE IF At(h, "answer") THEN NoCall ELSE [call[h] EXCEPT !.caller = NoOne]]

GiveUp(d) ==
    /\ screen[d].busy
    /\ failures < MaxFailures /\ failures' = failures + 1
    /\ Left(d)
    /\ screen' = [screen EXCEPT ![d].busy = FALSE]
    /\ UNCHANGED <<account, table, session, wrong, with>>

\* A new PinScreen with a new PinSession; which mode it opens in is its caller's.
Kill(d) ==
    /\ failures < MaxFailures /\ failures' = failures + 1
    /\ Left(d)
    /\ \E mode \in {"ENTER", "SET"} : screen' = [screen EXCEPT ![d] = Fresh(mode)]
    /\ session' = [session EXCEPT ![d] = NoFailures]
    /\ with' = [with EXCEPT ![d] = NoPin]
    /\ UNCHANGED <<account, table, wrong>>

Tick ==
    /\ \A h \in Handler : call[h].age < MaxAge
    /\ until > Unlocked \/ \E d \in Device : session[d].cool > 0
    /\ until' = Later(until) /\ owed' = Later(owed)
    /\ session' = [d \in Device |-> [session[d] EXCEPT !.cool = Max({@ - 1, 0})]]
    /\ call' = [h \in Handler |->
           IF At(h, "free") THEN NoCall ELSE [call[h] EXCEPT !.age = @ + 1]]
    /\ UNCHANGED <<account, count, last, raced, screen, wrong, failures, with>>

----------------------------------------------------------------------------
ServerStep(h) ==
    \/ CheckLockout(h) \/ Verify(h) \/ CountFailure(h) \/ Lock(h) \/ Clear(h)
    \/ Issue(h) \/ Exists(h) \/ Insert(h) \/ Answer(h)

SubmitRight(d) == \E h \in Handler : account # NoPin /\ Submit(d, h, account)

Next ==
    \/ \E d \in Device :
        \/ \E h \in Handler : SetPin(d, h) \/ \E pin \in Pin : Submit(d, h, pin)
        \/ Choose(d) \/ Mismatch(d) \/ GiveUp(d) \/ Kill(d)
    \/ \E h \in Handler : ServerStep(h) \/ Dies(h)
    \/ Tick

Spec == Init /\ [][Next]_vars

\* Time passes, the server works, and who knows the PIN goes on trying.
Fairness ==
    /\ WF_vars(Tick)
    /\ \A h \in Handler : WF_vars(ServerStep(h))
    /\ \A d \in Device : WF_vars(SubmitRight(d))

FairSpec == Spec /\ Fairness

----------------------------------------------------------------------------
(* Properties.                                                              *)

\* The lock is the one the last failure calls for, from the moment its request
\* arrived, unless the second statement of an earlier failure came after it or
\* its own never ran: however failures, logins and expiries interleave.
LockIsLastFailures ==
    (\A h \in Handler : ~At(h, "lock")) /\ ~raced => until = owed

\* A device is let in with the account's PIN only, also when several register
\* the phone at once.
LetInWithThePin == \A d \in Device : screen[d].mode = "open" => with[d] = account

\* Who knows the PIN and goes on trying gets in, through wrong PINs, lost
\* answers and cooldowns, unless the app is opened to set up a PIN instead.
RightPinGetsIn ==
    \A d \in Device :
        screen[d].mode = "ENTER" /\ account # NoPin ~> screen[d].mode \in {"open", "SET"}
=============================================================================
