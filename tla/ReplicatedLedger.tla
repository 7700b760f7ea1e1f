-------------------------- MODULE ReplicatedLedger --------------------------
(* What sync promises, whatever the transport does: a ledger of events that *)
(* only grows, copies of it on the devices of the shop that only grow, and  *)
(* acknowledgements that are never wrong.  docs/EVENTS.md sections 1 and 6. *)
(*                                                                          *)
(* An event is a pair <<d, n>>: the n-th event device d writes.             *)
EXTENDS Integers

CONSTANTS Device, MaxEvents

Event == Device \X (1..MaxEvents)
Author(e) == e[1]

VARIABLES
    held,      \* held[d]: the events on device d
    ledger,    \* the events the server holds
    acked      \* acked[d]: the events d need not push any more

vars == <<held, ledger, acked>>

Init ==
    /\ held = [d \in Device |-> {}]
    /\ ledger = {}
    /\ acked = [d \in Device |-> {}]

\* The author writes an event that exists nowhere yet.
Create(e) ==
    /\ \A d \in Device : e \notin held[d]
    /\ e \notin ledger
    /\ held' = [held EXCEPT ![Author(e)] = @ \cup {e}]
    /\ UNCHANGED <<ledger, acked>>

\* The server stores an event its author holds.
Publish(e) ==
    /\ e \in held[Author(e)]
    /\ ledger' = ledger \cup {e}
    /\ UNCHANGED <<held, acked>>

\* A device takes over an event of the server's.
Learn(d, e) ==
    /\ e \in ledger
    /\ held' = [held EXCEPT ![d] = @ \cup {e}]
    /\ UNCHANGED <<ledger, acked>>

\* A device is told that an event it holds is on the server.
Acknowledge(d, e) ==
    /\ e \in ledger \cap held[d]
    /\ acked' = [acked EXCEPT ![d] = @ \cup {e}]
    /\ UNCHANGED <<held, ledger>>

Next ==
    \E e \in Event :
        \/ Create(e)
        \/ Publish(e)
        \/ \E d \in Device : Learn(d, e) \/ Acknowledge(d, e)

Spec == Init /\ [][Next]_vars
=============================================================================
