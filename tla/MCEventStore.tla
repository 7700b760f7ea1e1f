---------------------------- MODULE MCEventStore ----------------------------
(* One device, its peer's events and a shopkeeper, for TLC.                 *)
EXTENDS EventStore

CONSTANTS Cust1, Cust2, Name1

\* The peer (device 2) added both customers, gave credit and took it back; its
\* clock is ahead of this device's.
Sent(n, payload) == [id |-> <<2, n>>, hlc |-> [l |-> 1, c |-> n, dev |-> 2]] @@ payload
Added == Sent(1, [type |-> "CUSTOMER_ADDED", customer |-> Cust1, name |-> Name1, phone |-> NoPhone])
Credited == Sent(2, [type |-> "CREDIT_GIVEN", customer |-> Cust1, amount |-> 2, at |-> 1])
Voided == Sent(3, [type |-> "ENTRY_VOIDED", target |-> <<2, 2>>])
Other == Sent(4, [type |-> "CUSTOMER_ADDED", customer |-> Cust2, name |-> Name1, phone |-> NoPhone])

MCCustomers == {Cust1, Cust2}
MCReadings == {0}
\* A customer with an entry; an event the schemas refuse and a void of an entry
\* that has not come.
MCPages == {<<Added, Credited>>, <<Other, Voided>>}
MCUnreadable == {Other.id}
RetriedPages == {<<Added, Credited>>, <<Added>>}
NoneUnreadable == {}
NoPages == {}

AddTwo == [type |-> "CUSTOMER_ADDED", customer |-> Cust2, name |-> Name1, phone |-> NoPhone]
CreditOne == [type |-> "CREDIT_GIVEN", customer |-> Cust1, amount |-> 1, at |-> 2]
AddOne == [type |-> "CUSTOMER_ADDED", customer |-> Cust1, name |-> Name1, phone |-> NoPhone]
\* Bound: two rebuilds leave time for one other call less.
FourCalls == used.local + used.merges + used.rebuilds <= 4

\* The names of the calls in progress are interchangeable.
OpSymmetry == Permutations(Op)

MCDrafts == {AddTwo, CreditOne}
LocalDrafts == {AddOne, CreditOne}
=============================================================================
