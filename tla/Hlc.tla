-------------------------------- MODULE Hlc --------------------------------
(* The hybrid logical clock of apps/mobile/src/data/clock.ts: its two tick  *)
(* functions and the order of the strings it encodes.                       *)
(*                                                                          *)
(* A clock state is a record [l, c]: the largest wall-clock reading met so  *)
(* far and a counter.  encodeHlc writes l with fifteen digits, c with five  *)
(* and the device id, so that comparing the strings compares l, then c,     *)
(* then the device; the model keeps the three fields and that order.        *)
EXTENDS Integers

HlcState == [l : Nat, c : Nat]

\* Mutant of ZeroHlc: one before the first counter, so that a first tick gives 0.
ZeroBefore == [l |-> 0, c |-> -1]

\* ZERO_HLC_STATE: the state of a clock on a device that never wrote.
ZeroHlc == [l |-> 0, c |-> 0]

Larger(m, n) == IF m >= n THEN m ELSE n

\* Mutant of Tick: the counter is not moved when time stands still.
TickLazily(s, now) == [l |-> Larger(s.l, now), c |-> IF now > s.l THEN 0 ELSE s.c]

\* tick: the state after a local event, at wall-clock reading now.
Tick(s, now) ==
    LET l == Larger(s.l, now)
    IN  [l |-> l, c |-> IF l = s.l THEN s.c + 1 ELSE 0]

\* Mutant of TickReceive: the remote counter is forgotten when the remote l wins.
ReceiveLazily(s, r, now) == Tick(s, Larger(r.l, now))

\* tickReceive: the state after merging a remote event's clock r.
TickReceive(s, r, now) ==
    LET l == Larger(Larger(s.l, r.l), now)
    IN  [l |-> l,
         c |-> IF l = s.l /\ l = r.l THEN Larger(s.c, r.c) + 1
               ELSE IF l = s.l       THEN s.c + 1
               ELSE IF l = r.l       THEN r.c + 1
               ELSE 0]

\* The order of the states, device left out.
StateLess(s, r) == s.l < r.l \/ (s.l = r.l /\ s.c < r.c)

\* compareByHlc on stamps [l, c, dev]: the encoded strings, device last.
StampLess(a, b) ==
    \/ StateLess(a, b)
    \/ a.l = b.l /\ a.c = b.c /\ a.dev < b.dev

\* encodeHlc: the stamp a device puts on an event when its clock is in state s.
Stamp(s, d) == [l |-> s.l, c |-> s.c, dev |-> d]

\* decodeHlc, without the device.
ClockOf(h) == [l |-> h.l, c |-> h.c]
=============================================================================
