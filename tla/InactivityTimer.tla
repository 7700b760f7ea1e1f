--------------------------- MODULE InactivityTimer ---------------------------
(* InactivityTimer (apps/mobile/src/security/inactivityTimer.ts): one timer *)
(* of the platform, armed and cleared by every call.  Time is in ticks, and *)
(* the callback of a timer that is due may run after other calls.           *)
EXTENDS Integers, FiniteSets

CONSTANTS
    Timeout,    \* timeoutMs, in ticks
    Timer,      \* the timers the platform can have armed
    NoTimer,
    Off         \* nobody waits for the screen to lock

ASSUME TimerAssumption == Timeout \in Nat \ {0} /\ NoTimer \notin Timer /\ Off \notin Nat

VARIABLES
    armed,      \* armed[t]: the ticks left on timer t, for those that are armed
    handle, locked,
    quiet       \* ticks since the shopkeeper last did something, or Off (history)

timerVars == <<armed, handle, locked, quiet>>

TimerInit == armed = [t \in {} |-> 0] /\ handle = NoTimer /\ locked = FALSE /\ quiet = Off

Without(t) == [u \in DOMAIN armed \ {t} |-> armed[u]]

\* Mutant of Cleared: what was armed stays.
ClearedNever == armed

\* pause(), but for the handle.
Cleared == Without(handle)

\* reset(): the handle is that of a new timer.
Reset ==
    /\ quiet' = 0
    /\ \E t \in Timer \ DOMAIN armed :
          /\ handle' = t
          /\ armed' = [u \in DOMAIN Cleared \cup {t} |-> IF u = t THEN Timeout ELSE armed[u]]

\* start()
Start == Reset /\ locked' = FALSE

\* recordActivity()
RecordActivity == ~locked /\ Reset /\ UNCHANGED locked

\* pause(); a screen that is locked stays so.
Pause ==
    /\ armed' = Cleared /\ handle' = NoTimer
    /\ quiet' = (IF locked THEN quiet ELSE Off)
    /\ UNCHANGED locked

\* The callback of reset().
Fire(t) ==
    /\ t \in DOMAIN armed /\ armed[t] = 0
    /\ armed' = Without(t) /\ handle' = NoTimer /\ locked' = TRUE
    /\ UNCHANGED quiet

\* A tick, when no callback is due.
Elapse ==
    /\ \E t \in DOMAIN armed : armed[t] > 0
    /\ \A t \in DOMAIN armed : armed[t] > 0
    /\ armed' = [t \in DOMAIN armed |-> armed[t] - 1]
    /\ quiet' = (IF quiet \in 0..(Timeout - 1) THEN quiet + 1 ELSE quiet)
    /\ UNCHANGED <<handle, locked>>

TimerNext == Start \/ RecordActivity \/ Pause \/ (\E t \in Timer : Fire(t)) \/ Elapse

TimerSpec == TimerInit /\ [][TimerNext]_timerVars

----------------------------------------------------------------------------
\* SECURITY.md: "Auto-lock after inactivity ... not disableable".  From the last
\* start() or tap, in a phone that was not put away, exactly Timeout is left to
\* wait, whatever was called before: no timer of an earlier call is left to lock
\* the screen early, to lock it again, or after it was put away.  A start() is taken
\* to begin anew whoever calls it, as the code does; it is not asked why it was called.
LocksWhenIdle ==
    IF locked
    THEN quiet = Timeout /\ DOMAIN armed = {}
    ELSE IF quiet = Off
    THEN DOMAIN armed = {}
    ELSE \E t \in Timer : armed = [u \in {t} |-> Timeout - quiet]
=============================================================================
