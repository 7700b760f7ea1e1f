---------------------------- MODULE DeviceClock ----------------------------
(* The clocks of several devices of one shop: Clock and createDeviceClock   *)
(* (apps/mobile/src/data/clock.ts) as append() and merge()                  *)
(* (apps/mobile/src/data/eventStore.ts) drive them.                         *)
(*                                                                          *)
(* Only the stamps of events are kept.  A device writes an event (append),  *)
(* merges an event another device wrote (merge; the transport is left out   *)
(* and may deliver in any order, or never), and restarts, which builds a    *)
(* new Clock from the events table.  Every reading of Date.now is any       *)
(* member of Readings: EVENTS.md says device clocks are wrong, "sometimes   *)
(* by years", so no device's readings are related to another's or to its    *)
(* own earlier ones.                                                        *)
EXTENDS Hlc

CONSTANTS
    Device,        \* the devices, as naturals: device ids are ordered strings
    Readings,      \* what Date.now may return
    MaxEvents,     \* bound: events one device writes
    MaxCounter     \* bound: the counter of a clock that may still tick

ASSUME DeviceAssumption == Device \subseteq Nat
ASSUME ReadingsAssumption == Readings \subseteq Nat
ASSUME BoundsAssumption == MaxEvents \in Nat /\ MaxCounter \in Nat

VARIABLES
    clock,     \* clock[d]: the state held by d's Clock object
    table,     \* table[d]: the stamps in d's events table
    session,   \* session[d]: those inserted since d's Clock was built (history)
    count      \* count[d]: how many events d has written (history)

vars == <<clock, table, session, count>>

Stamps == [l : Nat, c : Nat, dev : Device]

Own(d) == {h \in table[d] : h.dev = d}

\* h is the last of a set of stamps in the order of the encoded strings.
IsLatest(h, H) == h \in H /\ \A g \in H : g = h \/ StampLess(g, h)

Init ==
    /\ clock = [d \in Device |-> ZeroHlc]
    /\ table = [d \in Device |-> {}]
    /\ session = [d \in Device |-> {}]
    /\ count = [d \in Device |-> 0]

\* append(): Clock.next, then the INSERT of the stamped event.
Write(d) ==
    /\ count[d] < MaxEvents
    /\ clock[d].c < MaxCounter
    /\ \E now \in Readings :
          LET s == Tick(clock[d], now)
              h == Stamp(s, d)
          IN  /\ clock' = [clock EXCEPT ![d] = s]
              /\ table' = [table EXCEPT ![d] = @ \cup {h}]
              /\ session' = [session EXCEPT ![d] = @ \cup {h}]
    /\ count' = [count EXCEPT ![d] = @ + 1]

\* append() given a payload buildEvent refuses: Clock.next has run already.
WriteRefused(d) ==
    /\ clock[d].c < MaxCounter
    /\ \E now \in Readings : clock' = [clock EXCEPT ![d] = Tick(@, now)]
    /\ UNCHANGED <<table, session, count>>

\* merge(), one event that is new to this device: INSERT, then Clock.receive.
Merge(d, h) ==
    /\ h \notin table[d]
    /\ clock[d].c < MaxCounter /\ h.c < MaxCounter
    /\ \E now \in Readings :
          clock' = [clock EXCEPT ![d] = TickReceive(@, ClockOf(h), now)]
    /\ table' = [table EXCEPT ![d] = @ \cup {h}]
    /\ session' = [session EXCEPT ![d] = @ \cup {h}]
    /\ UNCHANGED count

\* createDeviceClock: the new Clock starts from the last of this device's own
\* stamps, or from zero if it never wrote.
Seed(d) ==
    IF Own(d) = {} THEN ZeroHlc
    ELSE ClockOf(CHOOSE h \in Own(d) : IsLatest(h, Own(d)))

\* The app is killed and started again.
Restart(d) ==
    /\ clock' = [clock EXCEPT ![d] = Seed(d)]
    /\ session' = [session EXCEPT ![d] = {}]
    /\ UNCHANGED <<table, count>>

Next ==
    \E d \in Device :
        \/ Write(d)
        \/ WriteRefused(d)
        \/ \E e \in Device : \E h \in Own(e) : Merge(d, h)
        \/ Restart(d)

Spec == Init /\ [][Next]_vars

----------------------------------------------------------------------------
\* A table holds no stamp of a device but those the device has written, which are
\* in the table of its own: append and merge only ever insert.
OnlyWritten == \A d \in Device : \A h \in table[d] : h \in table[h.dev]

\* Every clock is a pair of naturals, every stamp carries a device, and is one that
\* device has written.
TypeOK ==
    /\ clock \in [Device -> HlcState]
    /\ table \in [Device -> SUBSET Stamps]
    /\ session \in [Device -> SUBSET Stamps]
    /\ count \in [Device -> Nat]
    /\ OnlyWritten

\* No clock is behind what its device wrote, nor behind what the device put in
\* its table since the clock was built; and a device that wrote has a last own
\* stamp, from which createDeviceClock can seed the next clock.
NotBehind(s, h) == s.l > h.l \/ (s.l = h.l /\ s.c >= h.c)

ClockAhead ==
    \A d \in Device :
        /\ \A h \in session[d] \cup Own(d) : NotBehind(clock[d], h)
        /\ Own(d) = {} \/ \E h \in Own(d) : IsLatest(h, Own(d))

\* If d's step writes an event, the stamp it adds is a new one, after all in H.
WritesAfter(d, H) ==
    count'[d] # count[d] =>
        \E h \in Own(d)' \ Own(d) : \A g \in H : StampLess(g, h)

\* A device never re-issues a stamp and never goes back: what it writes is
\* after all it wrote before, whatever Date.now said and however often the app
\* was restarted in between (why createDeviceClock reads the events table).
OwnStampsAdvance == [][\A d \in Device : WritesAfter(d, Own(d))]_vars

\* What a device writes is after every event, its own or a peer's, that it put
\* in its table in this run of the app (what tickReceive is for).
CausalInSession == [][\A d \in Device : WritesAfter(d, session[d])]_vars

\* The promise as the comment on tickReceive states it, restarts or not: what a
\* device writes after seeing a remote event sorts after it.
CausalAlways == [][\A d \in Device : WritesAfter(d, table[d])]_vars
=============================================================================
