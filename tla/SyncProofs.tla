----------------------------- MODULE SyncProofs -----------------------------
(* Proofs about module Sync, for any number of devices, handlers, events    *)
(* and failures, any batch and page size and any rate threshold.            *)
EXTENDS Sync, FiniteSetTheorems, TLAPS

----------------------------------------------------------------------------
(* Types.                                                                   *)

\* An idle pass and a free handler are records of their kind.
LEMMA NoRecords == NoPass \in PassRecord /\ NoCall \in CallRecord
  BY SMT DEF NoPass, NoCall, PassRecord, CallRecord

\* A count of events, read from the table or kept from before, is a natural or -1.
LEMMA CountType ==
    ASSUME TypeOK, NEW h \in Handler, NEW t \in Types
    PROVE  RecentCount(call[h], t) \in Nat
  <1>1. IsFiniteSet(Event)
    <2>1. IsFiniteSet(1..MaxEvents) BY FS_Interval, EventAssumption
    <2> QED BY <2>1, FS_Product, DeviceAssumption DEF Event
  <1>2. {f \in recent : TypeOf[f] = t} \subseteq Event BY DEF TypeOK
  <1>3. Cardinality({f \in recent : TypeOf[f] = t}) \in Nat
    BY <1>1, <1>2, FS_Subset, FS_CardinalityType
  <1>4. call[h].seen[t] \in Nat \cup {-1} BY DEF TypeOK, CallRecord
  <1> QED BY <1>3, <1>4 DEF RecentCount

\* Abandoning a request changes who waits for it, and nothing else.
LEMMA AbandonedType ==
    ASSUME TypeOK, NEW d \in Device
    PROVE  Abandoned(d) \in [Handler -> CallRecord]
  BY DEF TypeOK, Abandoned, CallRecord

LEMMA TypeInit == Init => TypeOK
  BY NoRecords, EventAssumption DEF Init, TypeOK

LEMMA TypeStep == TypeOK /\ [Next]_vars => TypeOK'
  <1> SUFFICES ASSUME TypeOK, [Next]_vars PROVE TypeOK'
    OBVIOUS
  <1> USE NoRecords
  <1>1. ASSUME NEW d \in Device, Append(d) PROVE TypeOK'
    BY <1>1 DEF Append, TypeOK, Event, server, history
  <1>2. ASSUME NEW d \in Device, StartPass(d) PROVE TypeOK'
    BY <1>2 DEF StartPass, TypeOK, NoPass, PassRecord, Unsynced, device, server, history
  <1>3. ASSUME NEW d \in Device, NEW h \in Handler, Push(d, h) PROVE TypeOK'
    <2>1. Batch(pass[d].pending) \subseteq Event BY DEF Batch, TypeOK, PassRecord
    <2>2. call' \in [Handler -> CallRecord]
      BY <1>3, <2>1 DEF Push, TypeOK, NoCall, CallRecord
    <2>3. pass' \in [Device -> PassRecord] BY <1>3 DEF Push, TypeOK, PassRecord
    <2> QED BY <1>3, <2>2, <2>3 DEF Push, TypeOK, device, server, history
  <1>4. ASSUME NEW d \in Device, Mark(d) PROVE TypeOK'
    <2>1. PICK e \in pass[d].toMark :
             /\ marked' = [marked EXCEPT ![d] = @ \cup {e}]
             /\ pass' = [pass EXCEPT ![d].toMark = @ \ {e}]
      BY <1>4 DEF Mark
    <2>2. e \in Event BY DEF TypeOK, PassRecord
    <2>3. marked' \in [Device -> SUBSET Event] BY <2>1, <2>2 DEF TypeOK
    <2>4. pass' \in [Device -> PassRecord] BY <2>1 DEF TypeOK, PassRecord
    <2> QED BY <1>4, <2>3, <2>4 DEF Mark, TypeOK, server, history
  <1>5. ASSUME NEW d \in Device, BatchDone(d) PROVE TypeOK'
    BY <1>5 DEF BatchDone, TypeOK, PassRecord, device, server, history
  <1>6. ASSUME NEW d \in Device, PushDone(d) PROVE TypeOK'
    BY <1>6 DEF PushDone, TypeOK, PassRecord, device, server, history
  <1>7. ASSUME NEW d \in Device, Pull(d) PROVE TypeOK'
    <2>1. PageAfter(cursor[d]) \subseteq Event BY DEF PageAfter, Stored
    <2>2. pass' \in [Device -> PassRecord]
      BY <1>7, <2>1 DEF Pull, TypeOK, NoPass, PassRecord
    <2> QED BY <1>7, <2>2 DEF Pull, TypeOK, device, server, history
  <1>8. ASSUME NEW d \in Device, MergeOne(d) PROVE TypeOK'
    <2>1. PICK e \in pass[d].left :
             /\ pass' = [pass EXCEPT ![d].left = @ \ {e}]
             /\ marked' = [marked EXCEPT ![d] = @ \cup {e}] \/ UNCHANGED marked
             /\ table' = [table EXCEPT ![d] = @ \cup {e}] \/ UNCHANGED table
      BY <1>8 DEF MergeOne
    <2>2. e \in Event BY DEF TypeOK, PassRecord
    <2>3. marked' \in [Device -> SUBSET Event] /\ table' \in [Device -> SUBSET Event]
      BY <2>1, <2>2 DEF TypeOK
    <2>4. pass' \in [Device -> PassRecord] BY <2>1 DEF TypeOK, PassRecord
    <2> QED BY <1>8, <2>3, <2>4 DEF MergeOne, TypeOK, server, history
  <1>9. ASSUME NEW d \in Device, SetCursor(d) PROVE TypeOK'
    <2>1. cursor' \in [Device -> Nat] BY <1>9 DEF SetCursor, TypeOK, PassRecord
    <2>2. pass' \in [Device -> PassRecord] BY <1>9 DEF SetCursor, TypeOK, NoPass, PassRecord
    <2> QED BY <1>9, <2>1, <2>2 DEF SetCursor, TypeOK, server, history
  <1>10. ASSUME NEW h \in Handler, Judge(h) PROVE TypeOK'
    <2>1. PICK e \in call[h].todo :
             LET t == TypeOf[e]
                 count == RecentCount(call[h], t)
             IN  IF e \in Refused \/ count >= RateThreshold
                 THEN /\ call' = [call EXCEPT ![h] = Reject(@, e)]
                      /\ turnedAway' = turnedAway \cup {e}
                 ELSE /\ call' = [call EXCEPT ![h].stage = "insert", ![h].seen[t] = count + 1]
                      /\ UNCHANGED turnedAway
      BY <1>10 DEF Judge
    <2>2. e \in Event /\ TypeOf[e] \in Types BY DEF TypeOK, CallRecord, Types
    <2>3. RecentCount(call[h], TypeOf[e]) \in Nat BY <2>2, CountType
    <2>4. call[h] \in CallRecord BY DEF TypeOK
    <2>5. Reject(call[h], e) \in CallRecord BY <2>4 DEF CallRecord, Reject
    <2>6. [call[h].seen EXCEPT ![TypeOf[e]] = RecentCount(call[h], TypeOf[e]) + 1]
             \in [Types -> Nat \cup {-1}]
      BY <2>2, <2>3, <2>4 DEF CallRecord
    <2>7. [call[h] EXCEPT !.stage = "insert",
                          !.seen[TypeOf[e]] = RecentCount(call[h], TypeOf[e]) + 1] \in CallRecord
      BY <2>4, <2>6 DEF CallRecord
    <2>8. call' \in [Handler -> CallRecord]
      <3>1. CASE call' = [call EXCEPT ![h] = Reject(@, e)]
        BY <2>5, <3>1 DEF TypeOK
      <3>2. CASE call' = [call EXCEPT ![h].stage = "insert",
                                      ![h].seen[TypeOf[e]] = RecentCount(call[h], TypeOf[e]) + 1]
        BY <2>7, <3>2 DEF TypeOK
      <3> QED BY <2>1, <3>1, <3>2
    <2>9. turnedAway' \subseteq Event BY <2>1, <2>2 DEF TypeOK
    <2> QED BY <1>10, <2>8, <2>9 DEF Judge, TypeOK, device, server
  <1>11. ASSUME NEW h \in Handler, TakeNumber(h) PROVE TypeOK'
    <2>1. lastVal' \in Nat BY <1>11 DEF TakeNumber, TypeOK
    <2>2. call' \in [Handler -> CallRecord]
      BY <1>11, <2>1 DEF TakeNumber, TypeOK, CallRecord
    <2> QED BY <1>11, <2>1, <2>2 DEF TakeNumber, TypeOK, device, history
  <1>12. ASSUME NEW h \in Handler, Commit(h) PROVE TypeOK'
    <2>1. call' \in [Handler -> CallRecord]
      BY <1>12 DEF Commit, TypeOK, CallRecord
    <2>2. serverSeq' \in [Event -> Nat] /\ recent' \subseteq Event /\ overtaken' \subseteq Event
      BY <1>12 DEF Commit, TypeOK, CallRecord
    <2> QED BY <1>12, <2>1, <2>2 DEF Commit, TypeOK, device
  <1>13. ASSUME NEW h \in Handler, Respond(h) PROVE TypeOK'
    BY <1>13 DEF Respond, TypeOK, PassRecord, CallRecord, device, server, history
  <1>14. ASSUME NEW e \in Event, Age(e) PROVE TypeOK'
    BY <1>14 DEF Age, TypeOK, device, history
  <1>15. ASSUME NEW d \in Device, Retry(d) PROVE TypeOK'
    <2>1. pass' \in [Device -> PassRecord] BY <1>15 DEF Retry, TypeOK, PassRecord
    <2> QED BY <1>15, <2>1, AbandonedType DEF Retry, TypeOK, device, server, history
  <1>16. ASSUME NEW d \in Device, Abort(d) PROVE TypeOK'
    BY <1>16, AbandonedType DEF Abort, TypeOK, device, server, history
  <1>17. ASSUME NEW h \in Handler, HandlerDies(h) PROVE TypeOK'
    <2>1. \A d \in Device : [pass[d] EXCEPT !.pc = "push"] \in PassRecord
      BY DEF TypeOK, PassRecord
    <2>2. pass' \in [Device -> PassRecord] BY <1>17, <2>1 DEF HandlerDies, TypeOK
    <2>3. call' \in [Handler -> CallRecord] BY <1>17 DEF HandlerDies, TypeOK
    <2> QED BY <1>17, <2>2, <2>3 DEF HandlerDies, TypeOK, device, server, history
  <1>18. CASE UNCHANGED vars
    BY <1>18 DEF vars, TypeOK, device, server, history
  <1> QED
    BY <1>1, <1>2, <1>3, <1>4, <1>5, <1>6, <1>7, <1>8, <1>9, <1>10, <1>11, <1>12, <1>13,
       <1>14, <1>15, <1>16, <1>17, <1>18 DEF Next, PassStep, HandlerStep

\* Every variable of devices and server keeps holding a value of its kind.
THEOREM SyncTypes == Spec => []TypeOK
  BY TypeInit, TypeStep, PTL DEF Spec

----------------------------------------------------------------------------
(* What is where: the part of the inductive invariant the ledger needs.     *)

\* The tables of d hold d's events, stored or not, and stored events of others.
DeviceOk(d) ==
    /\ marked[d] \subseteq Stored \cap table[d]
    /\ \A e \in table[d] : Author(e) = d \/ e \in Stored

\* A pass only sends its own device's events, and only what is stored comes back.
PassOk(d) ==
    /\ \A e \in pass[d].pending : Author(e) = d /\ e \in table[d]
    /\ pass[d].toMark \subseteq Stored \cap table[d]
    /\ pass[d].page \cup pass[d].left \subseteq Stored

\* A handler works on events their author has, its answer lists stored events,
\* and an INSERT in progress has a number.
CallOk(h) ==
    /\ \A e \in call[h].todo : e \in table[Author(e)]
    /\ call[h].settled \subseteq Stored
    /\ \A e \in call[h].todo \cup call[h].settled :
          call[h].caller \in {NoOne, Author(e)} /\ e \in table[Author(e)]
    /\ call[h].stage = "commit" => call[h].num # 0

LedgerInv ==
    /\ \A d \in Device : DeviceOk(d) /\ PassOk(d)
    /\ \A h \in Handler : CallOk(h)
    /\ \A e \in Stored : e \in table[Author(e)]

\* An event is a pair of its author and a number.
LEMMA EventShape ==
    ASSUME NEW e \in Event
    PROVE  Author(e) \in Device /\ e[2] \in 1..MaxEvents /\ e = <<e[1], e[2]>>
  BY DEF Event, Author

\* What a step may do to the tables: rows of devices and of the server stay.
Grows ==
    /\ \A d \in Device : table[d] \subseteq table'[d] /\ marked[d] \subseteq marked'[d]
    /\ \A e \in Stored : serverSeq'[e] = serverSeq[e]
    /\ Stored \subseteq Stored'

LEMMA StepGrows ==
    ASSUME TypeOK, [Next]_vars
    PROVE  Grows
  <1>1. ASSUME UNCHANGED <<device, serverSeq>> PROVE Grows
    BY <1>1 DEF Grows, Stored, device
  <1>2. ASSUME NEW d \in Device, Append(d) \/ Mark(d) \/ MergeOne(d) \/ SetCursor(d)
        PROVE  Grows
    <2>1. UNCHANGED serverSeq BY <1>2 DEF Append, Mark, MergeOne, SetCursor, server
    <2>2. /\ \E e : table' = [table EXCEPT ![d] = @ \cup {e}] \/ UNCHANGED table
          /\ \E e : marked' = [marked EXCEPT ![d] = @ \cup {e}] \/ UNCHANGED marked
      BY <1>2 DEF Append, Mark, MergeOne, SetCursor
    <2> QED BY <2>1, <2>2 DEF Grows, Stored, TypeOK
  <1>3. ASSUME NEW h \in Handler, Commit(h) PROVE Grows
    <2>1. UNCHANGED device BY <1>3 DEF Commit
    <2>2. \/ UNCHANGED serverSeq
          \/ \E e \in Event \ Stored : serverSeq' = [serverSeq EXCEPT ![e] = call[h].num]
      BY <1>3 DEF Commit, TypeOK, CallRecord
    <2> QED BY <2>1, <2>2 DEF Grows, Stored, TypeOK, device
  <1>4. ASSUME NEW d \in Device, \/ StartPass(d) \/ \E h \in Handler : Push(d, h)
                                 \/ BatchDone(d) \/ PushDone(d) \/ Pull(d)
                                 \/ Retry(d) \/ Abort(d)
        PROVE UNCHANGED <<device, serverSeq>>
    BY <1>4 DEF StartPass, Push, BatchDone, PushDone, Pull, Retry, Abort, server
  <1>5. ASSUME NEW h \in Handler, Judge(h) \/ TakeNumber(h) \/ Respond(h) \/ HandlerDies(h)
        PROVE UNCHANGED <<device, serverSeq>>
    BY <1>5 DEF Judge, TakeNumber, Respond, HandlerDies, server
  <1>6. ASSUME NEW e \in Event, Age(e) PROVE UNCHANGED <<device, serverSeq>>
    BY <1>6 DEF Age
  <1>7. ASSUME UNCHANGED vars PROVE UNCHANGED <<device, serverSeq>>
    BY <1>7 DEF vars, server
  <1> QED BY <1>1, <1>2, <1>3, <1>4, <1>5, <1>6, <1>7 DEF Next, PassStep, HandlerStep

\* A pass or a call the step leaves alone stays in order as the tables grow.
LEMMA PassKept ==
    ASSUME Grows, NEW d \in Device, PassOk(d), pass'[d] = pass[d]
    PROVE  PassOk(d)'
  BY DEF Grows, PassOk

LEMMA CallKept ==
    ASSUME TypeOK, Grows, NEW h \in Handler, CallOk(h), call'[h] = call[h]
    PROVE  CallOk(h)'
  <1>1. \A e \in call[h].todo \cup call[h].settled : Author(e) \in Device
    BY EventShape DEF TypeOK, CallRecord
  <1> QED BY <1>1 DEF Grows, CallOk

LEMMA DeviceKept ==
    ASSUME Grows, NEW d \in Device, DeviceOk(d), table'[d] = table[d], marked'[d] = marked[d]
    PROVE  DeviceOk(d)'
  BY DEF Grows, DeviceOk

LEMMA AbandonedOk ==
    ASSUME TypeOK, LedgerInv, Grows, NEW d \in Device, call' = Abandoned(d)
    PROVE  \A h \in Handler : CallOk(h)'
  <1> SUFFICES ASSUME NEW h \in Handler PROVE CallOk(h)'
    OBVIOUS
  <1>1. CallOk(h) BY DEF LedgerInv
  <1>2. CASE call'[h] = call[h] BY <1>1, <1>2, CallKept
  <1>3. CASE call'[h] = [call[h] EXCEPT !.caller = NoOne]
    <2>1. /\ call'[h].todo = call[h].todo /\ call'[h].settled = call[h].settled
          /\ call'[h].stage = call[h].stage /\ call'[h].num = call[h].num
          /\ call'[h].caller = NoOne
      BY <1>3 DEF TypeOK, CallRecord
    <2>2. \A e \in call[h].todo \cup call[h].settled : Author(e) \in Device
      BY EventShape DEF TypeOK, CallRecord
    <2> QED BY <1>1, <2>1, <2>2 DEF CallOk, Grows
  <1> QED BY <1>2, <1>3 DEF Abandoned

LEMMA LedgerInit == Init => LedgerInv
  BY EventAssumption DEF Init, LedgerInv, DeviceOk, PassOk, CallOk, Stored, NoPass, NoCall

\* The passes and calls other than the actors' stay in order; only the actors
\* and the server's rows need a closer look.
LEMMA LedgerFrame ==
    ASSUME TypeOK, LedgerInv, Grows,
           \A d \in Device : DeviceOk(d)' \/ UNCHANGED <<table[d], marked[d]>>,
           \A d \in Device : PassOk(d)' \/ pass'[d] = pass[d],
           \A h \in Handler : CallOk(h)' \/ call'[h] = call[h],
           \A e \in Stored' \ Stored : e \in table'[Author(e)]
    PROVE  LedgerInv'
  <1>1. \A d \in Device : DeviceOk(d)' /\ PassOk(d)'
    BY PassKept, DeviceKept DEF LedgerInv
  <1>2. \A h \in Handler : CallOk(h)'
    BY CallKept DEF LedgerInv
  <1>3. \A e \in Stored' : e \in table'[Author(e)]
    <2> SUFFICES ASSUME NEW e \in Stored PROVE e \in table'[Author(e)]
      OBVIOUS
    <2>1. e \in table[Author(e)] /\ Author(e) \in Device
      BY EventShape DEF LedgerInv, Stored
    <2> QED BY <2>1 DEF Grows
  <1> QED BY <1>1, <1>2, <1>3 DEF LedgerInv

LEMMA LedgerStep == TypeOK /\ LedgerInv /\ [Next]_vars => LedgerInv'
  <1> SUFFICES ASSUME TypeOK, LedgerInv, [Next]_vars PROVE LedgerInv'
    OBVIOUS
  <1>g. Grows BY StepGrows
  <1>s. ASSUME UNCHANGED serverSeq PROVE Stored' = Stored
    BY <1>s DEF Stored
  <1>1. ASSUME NEW d \in Device, Append(d) PROVE LedgerInv'
    <2>1. PICK n \in 1..MaxEvents : table' = [table EXCEPT ![d] = @ \cup {<<d, n>>}]
      BY <1>1 DEF Append
    <2>2. DeviceOk(d)'
      BY <2>1, <1>1, <1>g DEF Append, LedgerInv, DeviceOk, Grows, Author, TypeOK
    <2>3. \A x \in Device \ {d} : table'[x] = table[x] BY <2>1 DEF TypeOK
    <2> QED BY <1>1, <1>g, <1>s, <2>2, <2>3, LedgerFrame DEF Append, server
  <1>2. ASSUME NEW d \in Device, StartPass(d) PROVE LedgerInv'
    <2>1. pass'[d] = [NoPass EXCEPT !.pc = "push", !.pending = Unsynced(d)]
      BY <1>2 DEF StartPass, TypeOK
    <2>2. PassOk(d)'
      BY <1>2, <2>1 DEF StartPass, PassOk, NoPass, Unsynced, device
    <2>3. \A x \in Device \ {d} : pass'[x] = pass[x] BY <1>2 DEF StartPass, TypeOK
    <2> QED BY <1>2, <1>g, <1>s, <2>2, <2>3, LedgerFrame DEF StartPass, server, device
  <1>3. ASSUME NEW d \in Device, NEW h \in Handler, Push(d, h) PROVE LedgerInv'
    <2>1. call'[h] = [NoCall EXCEPT !.caller = d, !.stage = "judge",
                                    !.todo = Batch(pass[d].pending)]
      BY <1>3 DEF Push, TypeOK
    <2>2. \A e \in Batch(pass[d].pending) : Author(e) = d /\ e \in table[d]
      BY DEF Batch, LedgerInv, PassOk
    <2>3. CallOk(h)'
      BY <1>3, <2>1, <2>2 DEF Push, CallOk, NoCall, device
    <2>4. pass'[d] = [pass[d] EXCEPT !.pc = "wait"] BY <1>3 DEF Push, TypeOK
    <2>5. PassOk(d)'
      BY <1>3, <1>s, <2>4 DEF Push, PassOk, LedgerInv, device, server, TypeOK, PassRecord
    <2>6. /\ \A x \in Device \ {d} : pass'[x] = pass[x]
          /\ \A k \in Handler \ {h} : call'[k] = call[k]
      BY <1>3 DEF Push, TypeOK
    <2> QED BY <1>3, <1>g, <1>s, <2>3, <2>5, <2>6, LedgerFrame DEF Push, server, device
  <1>4. ASSUME NEW d \in Device, Mark(d) PROVE LedgerInv'
    <2>1. PICK e \in pass[d].toMark :
             /\ marked' = [marked EXCEPT ![d] = @ \cup {e}]
             /\ pass' = [pass EXCEPT ![d].toMark = @ \ {e}]
      BY <1>4 DEF Mark
    <2>2. Stored' = Stored /\ table' = table BY <1>4, <1>s DEF Mark, server
    <2>3. marked'[d] = marked[d] \cup {e} BY <2>1 DEF TypeOK
    <2>4. DeviceOk(d)' BY <2>2, <2>3 DEF LedgerInv, DeviceOk, PassOk
    <2>5. pass'[d] = [pass[d] EXCEPT !.toMark = @ \ {e}] BY <2>1 DEF TypeOK
    <2>6. PassOk(d)' BY <2>2, <2>5 DEF LedgerInv, PassOk, TypeOK, PassRecord
    <2>7. \A x \in Device \ {d} : pass'[x] = pass[x] /\ marked'[x] = marked[x]
      BY <2>1 DEF TypeOK
    <2> QED BY <1>4, <1>g, <2>2, <2>4, <2>6, <2>7, LedgerFrame DEF Mark
  <1>5. ASSUME NEW d \in Device, BatchDone(d) \/ PushDone(d) PROVE LedgerInv'
    <2>1. /\ pass'[d].pending \subseteq pass[d].pending
          /\ pass'[d].toMark = pass[d].toMark
          /\ pass'[d].page = pass[d].page /\ pass'[d].left = pass[d].left
      BY <1>5 DEF BatchDone, PushDone, TypeOK, PassRecord
    <2>2. PassOk(d)'
      BY <1>5, <1>s, <2>1 DEF BatchDone, PushDone, PassOk, LedgerInv, device, server
    <2>3. \A x \in Device \ {d} : pass'[x] = pass[x]
      BY <1>5 DEF BatchDone, PushDone, TypeOK
    <2> QED BY <1>5, <1>g, <1>s, <2>2, <2>3, LedgerFrame DEF BatchDone, PushDone, server, device
  <1>7. ASSUME NEW d \in Device, Pull(d) PROVE LedgerInv'
    <2> DEFINE P == PageAfter(cursor[d])
    <2>1. P \subseteq Stored BY DEF PageAfter
    <2>2. \/ pass'[d] = NoPass
          \/ pass'[d] = [NoPass EXCEPT !.pc = "merge", !.page = P, !.left = P]
      BY <1>7 DEF Pull, TypeOK
    <2> HIDE DEF P
    <2>3. Stored' = Stored BY <1>7, <1>s DEF Pull, server
    <2>5. /\ pass'[d].pending = {} /\ pass'[d].toMark = {}
          /\ pass'[d].page \in {{}, P} /\ pass'[d].left \in {{}, P}
      <3>1. CASE pass'[d] = NoPass BY <3>1 DEF NoPass
      <3>2. CASE pass'[d] = [NoPass EXCEPT !.pc = "merge", !.page = P, !.left = P]
        <4>1. pass'[d] = [pc |-> "merge", pending |-> {}, toMark |-> {}, page |-> P, left |-> P]
          BY <3>2 DEF NoPass
        <4> QED BY <4>1
      <3> QED BY <2>2, <3>1, <3>2
    <2>6. PassOk(d)'
      <3>1. /\ pass'[d].page \subseteq Stored' /\ pass'[d].left \subseteq Stored'
            /\ pass'[d].toMark \subseteq Stored' \cap table'[d]
        BY <2>1, <2>3, <2>5
      <3> QED BY <2>5, <3>1 DEF PassOk
    <2>4. \A x \in Device \ {d} : pass'[x] = pass[x] BY <1>7 DEF Pull, TypeOK
    <2> QED BY <1>7, <1>g, <2>3, <2>4, <2>6, LedgerFrame DEF Pull, device
  <1>8. ASSUME NEW d \in Device, MergeOne(d) PROVE LedgerInv'
    <2>1. PICK e \in pass[d].left :
             /\ pass' = [pass EXCEPT ![d].left = @ \ {e}]
             /\ \/ UNCHANGED <<table, marked>>
                \/ /\ e \in table[d] /\ UNCHANGED table
                   /\ marked' = [marked EXCEPT ![d] = @ \cup {e}]
                \/ table' = [table EXCEPT ![d] = @ \cup {e}] /\ UNCHANGED marked
      BY <1>8 DEF MergeOne
    <2>2. Stored' = Stored BY <1>8, <1>s DEF MergeOne, server
    <2>3. e \in Stored BY DEF LedgerInv, PassOk
    <2>4. DeviceOk(d)' BY <2>1, <2>2, <2>3 DEF LedgerInv, DeviceOk, TypeOK
    <2>5. pass'[d] = [pass[d] EXCEPT !.left = @ \ {e}] BY <2>1 DEF TypeOK
    <2>6. PassOk(d)' BY <1>g, <2>2, <2>5 DEF Grows, LedgerInv, PassOk, TypeOK, PassRecord
    <2>7. \A x \in Device \ {d} : /\ pass'[x] = pass[x] /\ marked'[x] = marked[x]
                                  /\ table'[x] = table[x]
      BY <2>1 DEF TypeOK
    <2> QED BY <1>8, <1>g, <2>2, <2>4, <2>6, <2>7, LedgerFrame DEF MergeOne
  <1>9. ASSUME NEW d \in Device, SetCursor(d) PROVE LedgerInv'
    <2>1. pass'[d] = NoPass \/ pass'[d] = [NoPass EXCEPT !.pc = "pull"]
      BY <1>9 DEF SetCursor, TypeOK
    <2>2. PassOk(d)' BY <2>1 DEF PassOk, NoPass
    <2>3. \A x \in Device \ {d} : pass'[x] = pass[x] BY <1>9 DEF SetCursor, TypeOK
    <2> QED BY <1>9, <1>g, <1>s, <2>2, <2>3, LedgerFrame DEF SetCursor, server
  <1>10. ASSUME NEW h \in Handler, Judge(h) \/ TakeNumber(h) PROVE LedgerInv'
    <2>1. /\ call'[h].todo \subseteq call[h].todo /\ call'[h].settled = call[h].settled
          /\ call'[h].caller = call[h].caller
          /\ call'[h].stage = "commit" => call'[h].num # 0
      <3>1. CASE TakeNumber(h) BY <3>1 DEF TakeNumber, TypeOK, CallRecord
      <3>2. CASE Judge(h) BY <3>2 DEF Judge, Reject, TypeOK, CallRecord
      <3> QED BY <3>1, <3>2, <1>10
    <2>2. UNCHANGED <<table, marked, pass, serverSeq>>
      BY <1>10 DEF Judge, TakeNumber, device, server
    <2>3. CallOk(h)' BY <1>s, <2>1, <2>2 DEF LedgerInv, CallOk
    <2>4. \A k \in Handler \ {h} : call'[k] = call[k]
      BY <1>10 DEF Judge, TakeNumber, TypeOK
    <2> QED BY <1>g, <1>s, <2>2, <2>3, <2>4, LedgerFrame
  <1>12. ASSUME NEW h \in Handler, Commit(h) PROVE LedgerInv'
    <2>1. PICK e \in call[h].todo :
             /\ call' = [call EXCEPT ![h].stage = "judge", ![h].num = 0,
                                     ![h].todo = @ \ {e}, ![h].settled = @ \cup {e}]
             /\ IF e \in Stored THEN UNCHANGED serverSeq
                ELSE serverSeq' = [serverSeq EXCEPT ![e] = call[h].num]
      BY <1>12 DEF Commit
    <2>2. e \in Event /\ call[h].num # 0 /\ e \in table[Author(e)]
      BY <1>12 DEF Commit, TypeOK, CallRecord, LedgerInv, CallOk
    <2>3. Stored' = Stored \cup {e} BY <2>1, <2>2 DEF Stored, TypeOK
    <2>4. UNCHANGED <<table, marked, pass>> BY <1>12 DEF Commit, device
    <2>5. /\ call'[h].todo = call[h].todo \ {e} /\ call'[h].settled = call[h].settled \cup {e}
          /\ call'[h].caller = call[h].caller /\ call'[h].stage = "judge"
      BY <2>1 DEF TypeOK, CallRecord
    <2>6. CallOk(h)' BY <2>2, <2>3, <2>4, <2>5 DEF LedgerInv, CallOk
    <2>7. \A k \in Handler \ {h} : call'[k] = call[k] BY <2>1 DEF TypeOK
    <2> QED BY <1>g, <2>2, <2>3, <2>4, <2>6, <2>7, LedgerFrame
  <1>13. ASSUME NEW h \in Handler, Respond(h) PROVE LedgerInv'
    <2>1. UNCHANGED <<table, marked, serverSeq>> BY <1>13 DEF Respond, device, server
    <2>2. CallOk(h)' BY <1>13 DEF Respond, CallOk, NoCall, TypeOK
    <2>3. \A k \in Handler \ {h} : call'[k] = call[k] BY <1>13 DEF Respond, TypeOK
    <2>4. ASSUME NEW d \in Device PROVE PassOk(d)' \/ pass'[d] = pass[d]
      <3>1. CASE d # call[h].caller BY <1>13, <3>1 DEF Respond
      <3>2. CASE d = call[h].caller
        <4>1. /\ pass'[d].toMark = call[h].settled /\ pass'[d].pending = pass[d].pending
              /\ pass'[d].page = pass[d].page /\ pass'[d].left = pass[d].left
          BY <1>13, <3>2 DEF Respond, TypeOK, PassRecord
        <4>2. call[h].settled \subseteq Stored \cap table[d]
          BY <3>2, DeviceAssumption DEF LedgerInv, CallOk
        <4> QED BY <1>s, <2>1, <4>1, <4>2 DEF LedgerInv, PassOk
      <3> QED BY <3>1, <3>2
    <2> QED BY <1>g, <1>s, <2>1, <2>2, <2>3, <2>4, LedgerFrame
  <1>14. ASSUME NEW e \in Event, Age(e) PROVE LedgerInv'
    BY <1>14, <1>g, <1>s, LedgerFrame DEF Age, device
  <1>15. ASSUME NEW d \in Device, Retry(d) \/ Abort(d) PROVE LedgerInv'
    <2>1. UNCHANGED <<table, marked, serverSeq>> BY <1>15 DEF Retry, Abort, device, server
    <2>2. \A h \in Handler : CallOk(h)' BY <1>15, <1>g, AbandonedOk DEF Retry, Abort
    <2>3. \/ pass'[d] = NoPass
          \/ pass'[d] = [pass[d] EXCEPT !.pc = "push"]
      BY <1>15 DEF Retry, Abort, TypeOK
    <2>4. PassOk(d)'
      BY <1>s, <2>1, <2>3 DEF LedgerInv, PassOk, NoPass, TypeOK, PassRecord
    <2>5. \A x \in Device \ {d} : pass'[x] = pass[x] BY <1>15 DEF Retry, Abort, TypeOK
    <2> QED BY <1>g, <1>s, <2>1, <2>2, <2>4, <2>5, LedgerFrame
  <1>17. ASSUME NEW h \in Handler, HandlerDies(h) PROVE LedgerInv'
    <2>1. UNCHANGED <<table, marked, serverSeq>> BY <1>17 DEF HandlerDies, device, server
    <2>2. CallOk(h)' BY <1>17 DEF HandlerDies, CallOk, NoCall, TypeOK
    <2>3. \A k \in Handler \ {h} : call'[k] = call[k] BY <1>17 DEF HandlerDies, TypeOK
    <2>4. ASSUME NEW d \in Device PROVE PassOk(d)'
      <3>1. \/ pass'[d] = NoPass \/ pass'[d] = pass[d]
            \/ pass'[d] = [pass[d] EXCEPT !.pc = "push"]
        BY <1>17 DEF HandlerDies
      <3> QED BY <1>s, <2>1, <3>1 DEF LedgerInv, PassOk, NoPass, TypeOK, PassRecord
    <2> QED BY <1>g, <1>s, <2>1, <2>2, <2>3, <2>4, LedgerFrame
  <1>18. CASE UNCHANGED vars
    BY <1>18, <1>g, <1>s, LedgerFrame DEF vars, device, server
  <1> QED
    BY <1>1, <1>2, <1>3, <1>4, <1>5, <1>7, <1>8, <1>9, <1>10, <1>12, <1>13, <1>14, <1>15,
       <1>17, <1>18 DEF Next, PassStep, HandlerStep

THEOREM LedgerInvariant == Spec => [](TypeOK /\ LedgerInv)
  <1>1. Init => TypeOK /\ LedgerInv BY TypeInit, LedgerInit
  <1>2. TypeOK /\ LedgerInv /\ [Next]_vars => (TypeOK /\ LedgerInv)'
    BY TypeStep, LedgerStep
  <1> QED BY <1>1, <1>2, PTL DEF Spec

\* A device stops sending an event only when the server holds it.
THEOREM NothingIsLost == Spec => []NothingLost
  <1>1. LedgerInv => NothingLost
    BY DEF LedgerInv, DeviceOk, NothingLost, Unsynced
  <1> QED BY <1>1, LedgerInvariant, PTL

----------------------------------------------------------------------------
(* The refinement of ReplicatedLedger.                                      *)

LEMMA LedgerEvent == Ledger!Event = Event /\ \A e : Ledger!Author(e) = Author(e)
  BY DEF Ledger!Event, Event, Ledger!Author, Author

\* A step that leaves tables, marks and rows alone is a stutter of the ledger.
LEMMA Stutter == UNCHANGED <<table, marked, serverSeq>> => UNCHANGED Ledger!vars
  BY DEF Ledger!vars, Stored

LEMMA StepRefines == TypeOK /\ LedgerInv /\ [Next]_vars => [Ledger!Next]_(Ledger!vars)
  <1> SUFFICES ASSUME TypeOK, LedgerInv, [Next]_vars PROVE [Ledger!Next]_(Ledger!vars)
    OBVIOUS
  <1>s. ASSUME UNCHANGED serverSeq PROVE Stored' = Stored
    BY <1>s DEF Stored
  <1>1. ASSUME NEW d \in Device, Append(d) PROVE Ledger!Next
    <2>1. PICK n \in 1..MaxEvents : /\ <<d, n>> \notin table[d]
                                    /\ table' = [table EXCEPT ![d] = @ \cup {<<d, n>>}]
      BY <1>1 DEF Append
    <2> DEFINE e == <<d, n>>
    <2>2. e \in Event /\ Author(e) = d BY DEF Event, Author
    <2>3. e \notin Stored BY <2>1, <2>2 DEF LedgerInv
    <2>4. \A x \in Device : e \notin table[x]
      BY <2>1, <2>2, <2>3 DEF LedgerInv, DeviceOk
    <2>5. Stored' = Stored /\ marked' = marked BY <1>1, <1>s DEF Append, server
    <2> HIDE DEF e
    <2>6. Ledger!Create(e)
      BY <2>1, <2>2, <2>3, <2>4, <2>5, LedgerEvent DEF Ledger!Create, e
    <2> QED BY <2>2, <2>6, LedgerEvent DEF Ledger!Next
  <1>2. ASSUME NEW d \in Device, Mark(d) PROVE Ledger!Next
    <2>1. PICK e \in pass[d].toMark : marked' = [marked EXCEPT ![d] = @ \cup {e}]
      BY <1>2 DEF Mark
    <2>2. e \in Event /\ e \in Stored \cap table[d]
      BY DEF LedgerInv, PassOk, Stored
    <2>3. Stored' = Stored /\ table' = table BY <1>2, <1>s DEF Mark, server
    <2>4. Ledger!Acknowledge(d, e) BY <2>1, <2>2, <2>3 DEF Ledger!Acknowledge
    <2> QED BY <2>2, <2>4, LedgerEvent DEF Ledger!Next
  <1>3. ASSUME NEW d \in Device, MergeOne(d) PROVE [Ledger!Next]_(Ledger!vars)
    <2>1. PICK e \in pass[d].left :
             \/ UNCHANGED <<table, marked>>
             \/ /\ e \in table[d] /\ UNCHANGED table
                /\ marked' = [marked EXCEPT ![d] = @ \cup {e}]
             \/ table' = [table EXCEPT ![d] = @ \cup {e}] /\ UNCHANGED marked
      BY <1>3 DEF MergeOne
    <2>2. e \in Event /\ e \in Stored BY DEF LedgerInv, PassOk, Stored
    <2>3. UNCHANGED serverSeq /\ Stored' = Stored BY <1>3, <1>s DEF MergeOne, server
    <2>4. CASE UNCHANGED <<table, marked>> BY <2>3, <2>4, Stutter
    <2>5. CASE /\ e \in table[d] /\ UNCHANGED table
               /\ marked' = [marked EXCEPT ![d] = @ \cup {e}]
      <3>1. Ledger!Acknowledge(d, e) BY <2>2, <2>3, <2>5 DEF Ledger!Acknowledge
      <3> QED BY <2>2, <3>1, LedgerEvent DEF Ledger!Next
    <2>6. CASE table' = [table EXCEPT ![d] = @ \cup {e}] /\ UNCHANGED marked
      <3>1. Ledger!Learn(d, e) BY <2>2, <2>3, <2>6 DEF Ledger!Learn
      <3> QED BY <2>2, <3>1, LedgerEvent DEF Ledger!Next
    <2> QED BY <2>1, <2>4, <2>5, <2>6
  <1>4. ASSUME NEW h \in Handler, Commit(h) PROVE [Ledger!Next]_(Ledger!vars)
    <2>1. PICK e \in call[h].todo :
             IF e \in Stored THEN UNCHANGED serverSeq
             ELSE serverSeq' = [serverSeq EXCEPT ![e] = call[h].num]
      BY <1>4 DEF Commit
    <2>2. e \in Event /\ call[h].num # 0 /\ e \in table[Author(e)]
      BY <1>4 DEF Commit, TypeOK, CallRecord, LedgerInv, CallOk
    <2>3. UNCHANGED <<table, marked>> BY <1>4 DEF Commit, device
    <2>4. CASE e \in Stored BY <2>1, <2>3, <2>4, Stutter
    <2>5. CASE e \notin Stored
      <3>1. Stored' = Stored \cup {e} BY <2>1, <2>2, <2>5 DEF Stored, TypeOK
      <3>2. Ledger!Publish(e) BY <2>2, <2>3, <3>1, LedgerEvent DEF Ledger!Publish
      <3> QED BY <2>2, <3>2, LedgerEvent DEF Ledger!Next
    <2> QED BY <2>4, <2>5
  <1>5. ASSUME NEW d \in Device, \/ StartPass(d) \/ \E h \in Handler : Push(d, h)
                                 \/ BatchDone(d) \/ PushDone(d) \/ Pull(d) \/ SetCursor(d)
                                 \/ Retry(d) \/ Abort(d)
        PROVE UNCHANGED <<table, marked, serverSeq>>
    BY <1>5 DEF StartPass, Push, BatchDone, PushDone, Pull, SetCursor, Retry, Abort, server, device
  <1>6. ASSUME NEW h \in Handler, Judge(h) \/ TakeNumber(h) \/ Respond(h) \/ HandlerDies(h)
        PROVE UNCHANGED <<table, marked, serverSeq>>
    BY <1>6 DEF Judge, TakeNumber, Respond, HandlerDies, server, device
  <1>7. ASSUME NEW e \in Event, Age(e) PROVE UNCHANGED <<table, marked, serverSeq>>
    BY <1>7 DEF Age, device
  <1>8. ASSUME UNCHANGED vars PROVE UNCHANGED <<table, marked, serverSeq>>
    BY <1>8 DEF vars, server, device
  <1> QED
    BY <1>1, <1>2, <1>3, <1>4, <1>5, <1>6, <1>7, <1>8, Stutter DEF Next, PassStep, HandlerStep

\* Devices and server together are a replicated ledger: nothing appears from
\* nowhere, nothing disappears, no acknowledgement is wrong.
THEOREM SyncImplementsLedger == Spec => ImplementsLedger
  <1>1. Init => Ledger!Init
    BY DEF Init, Ledger!Init, Stored
  <1> QED BY <1>1, StepRefines, LedgerInvariant, PTL DEF Spec, ImplementsLedger, Ledger!Spec

----------------------------------------------------------------------------
(* The numbers of the rows, and what a cursor has passed.                   *)

\* No two rows, visible or in the making, have the same server_seq.
NumberInv ==
    /\ \A e \in Event : serverSeq[e] <= lastVal
    /\ \A h \in Handler : call[h].num <= lastVal
    /\ \A h, k \in Handler : h # k /\ call[h].num = call[k].num => call[h].num = 0
    /\ \A h \in Handler : \A e \in Stored : call[h].num # serverSeq[e]
    /\ \A e, f \in Stored : serverSeq[e] = serverSeq[f] => e = f

LEMMA NumberInit == Init => NumberInv
  BY DEF Init, NumberInv, Stored, NoCall

LEMMA NumberStep == TypeOK /\ LedgerInv /\ NumberInv /\ [Next]_vars => NumberInv'
  <1> SUFFICES ASSUME TypeOK, LedgerInv, NumberInv, [Next]_vars PROVE NumberInv'
    OBVIOUS
  <1>n. ASSUME UNCHANGED <<serverSeq, lastVal>>,
               \A h \in Handler : call'[h].num \in {0, call[h].num}
        PROVE  NumberInv'
    <2>1. Stored' = Stored /\ \A e \in Stored : serverSeq[e] # 0 BY <1>n DEF Stored
    <2>2. lastVal \in Nat /\ \A h \in Handler : call[h].num \in Nat
      BY DEF TypeOK, CallRecord
    <2> QED BY <1>n, <2>1, <2>2 DEF NumberInv
  <1>1. ASSUME NEW h \in Handler, TakeNumber(h) PROVE NumberInv'
    <2>1. lastVal' = lastVal + 1 /\ serverSeq' = serverSeq /\ Stored' = Stored
      BY <1>1 DEF TakeNumber, Stored
    <2>2. \A k \in Handler : call'[k].num = IF k = h THEN lastVal + 1 ELSE call[k].num
      BY <1>1 DEF TakeNumber, TypeOK, CallRecord
    <2>3. /\ lastVal \in Nat /\ \A k \in Handler : call[k].num \in Nat
          /\ serverSeq \in [Event -> Nat] /\ Stored \subseteq Event
      BY DEF TypeOK, CallRecord, Stored
    <2> QED BY <2>1, <2>2, <2>3 DEF NumberInv
  <1>2. ASSUME NEW h \in Handler, Commit(h) PROVE NumberInv'
    <2>1. PICK e \in call[h].todo :
             /\ call' = [call EXCEPT ![h].stage = "judge", ![h].num = 0,
                                     ![h].todo = @ \ {e}, ![h].settled = @ \cup {e}]
             /\ IF e \in Stored THEN UNCHANGED serverSeq
                ELSE serverSeq' = [serverSeq EXCEPT ![e] = call[h].num]
      BY <1>2 DEF Commit
    <2>2. \A k \in Handler : call'[k].num = IF k = h THEN 0 ELSE call[k].num
      BY <2>1 DEF TypeOK, CallRecord
    <2>3. UNCHANGED lastVal BY <1>2 DEF Commit
    <2>4. CASE e \in Stored BY <2>1, <2>2, <2>3, <2>4, <1>n
    <2>5. CASE e \notin Stored
      <3>1. e \in Event /\ call[h].num # 0
        BY <1>2 DEF Commit, TypeOK, CallRecord, LedgerInv, CallOk
      <3>2. /\ Stored' = Stored \cup {e} /\ serverSeq'[e] = call[h].num
            /\ \A f \in Event \ {e} : serverSeq'[f] = serverSeq[f]
        BY <2>1, <2>5, <3>1 DEF Stored, TypeOK
      <3>3. Stored \subseteq Event BY DEF Stored
      <3>4. \A k \in Handler : \A f \in Stored' : call'[k].num # serverSeq'[f]
        <4> SUFFICES ASSUME NEW k \in Handler, NEW f \in Stored'
                     PROVE  call'[k].num # serverSeq'[f]
          OBVIOUS
        <4>1. serverSeq'[f] # 0 BY DEF Stored
        <4> QED BY <2>2, <2>5, <3>1, <3>2, <3>3, <4>1 DEF NumberInv
      <3>5. \A f, g \in Stored' : serverSeq'[f] = serverSeq'[g] => f = g
        BY <2>5, <3>2, <3>3 DEF NumberInv
      <3>6. \A f \in Event : serverSeq'[f] <= lastVal
        BY <3>1, <3>2 DEF NumberInv
      <3>7. /\ \A k \in Handler : call'[k].num <= lastVal
            /\ \A k, l \in Handler : k # l /\ call'[k].num = call'[l].num => call'[k].num = 0
        BY <2>2 DEF NumberInv, TypeOK
      <3> QED BY <2>3, <3>4, <3>5, <3>6, <3>7 DEF NumberInv
    <2> QED BY <2>4, <2>5
  <1>3. ASSUME NEW d \in Device, \/ Append(d) \/ StartPass(d) \/ Mark(d) \/ BatchDone(d)
                                 \/ PushDone(d) \/ Pull(d) \/ MergeOne(d) \/ SetCursor(d)
        PROVE NumberInv'
    <2>1. UNCHANGED <<call, serverSeq, lastVal>>
      BY <1>3 DEF Append, StartPass, Mark, BatchDone, PushDone, Pull, MergeOne, SetCursor, server
    <2> QED BY <2>1, <1>n
  <1>4. ASSUME NEW d \in Device, Retry(d) \/ Abort(d) PROVE NumberInv'
    <2>1. UNCHANGED <<serverSeq, lastVal>> BY <1>4 DEF Retry, Abort, server
    <2>2. \A h \in Handler : call'[h].num = call[h].num
      BY <1>4 DEF Retry, Abort, Abandoned, TypeOK, CallRecord
    <2> QED BY <2>1, <2>2, <1>n
  <1>5. ASSUME NEW d \in Device, NEW h \in Handler, Push(d, h) PROVE NumberInv'
    <2>1. UNCHANGED <<serverSeq, lastVal>> BY <1>5 DEF Push, server
    <2>2. \A k \in Handler : call'[k].num \in {0, call[k].num}
      BY <1>5 DEF Push, TypeOK, NoCall
    <2> QED BY <2>1, <2>2, <1>n
  <1>6. ASSUME NEW h \in Handler, Judge(h) \/ Respond(h) \/ HandlerDies(h) PROVE NumberInv'
    <2>1. UNCHANGED <<serverSeq, lastVal>> BY <1>6 DEF Judge, Respond, HandlerDies, server
    <2>2. \A k \in Handler : call'[k].num \in {0, call[k].num}
      <3>1. CASE Judge(h)
        <4>1. call'[h].num = call[h].num BY <3>1 DEF Judge, Reject, TypeOK, CallRecord
        <4>2. \A k \in Handler \ {h} : call'[k] = call[k] BY <3>1 DEF Judge, TypeOK
        <4> QED BY <4>1, <4>2
      <3>2. CASE Respond(h) \/ HandlerDies(h)
        <4>1. call' = [call EXCEPT ![h] = NoCall] BY <3>2 DEF Respond, HandlerDies
        <4>2. NoCall.num = 0 BY DEF NoCall
        <4> QED BY <4>1, <4>2 DEF TypeOK
      <3> QED BY <1>6, <3>1, <3>2
    <2> QED BY <2>1, <2>2, <1>n
  <1>7. ASSUME NEW e \in Event, Age(e) PROVE NumberInv'
    BY <1>7, <1>n DEF Age
  <1>8. CASE UNCHANGED vars
    BY <1>8, <1>n DEF vars, server
  <1> QED
    BY <1>1, <1>2, <1>3, <1>4, <1>5, <1>6, <1>7, <1>8 DEF Next, PassStep, HandlerStep

\* A page has every visible row between the cursor and any row it has.
LEMMA PageClosed ==
    ASSUME TypeOK, NEW c \in Nat, NEW e \in PageAfter(c), NEW f \in Stored,
           c < serverSeq[f], serverSeq[f] <= serverSeq[e]
    PROVE  f \in PageAfter(c)
  <1> DEFINE rows == {g \in Stored : serverSeq[g] > c}
             Below(x) == {g \in rows : serverSeq[g] < serverSeq[x]}
  <1>1. IsFiniteSet(Event)
    <2>1. IsFiniteSet(1..MaxEvents) BY FS_Interval, EventAssumption
    <2> QED BY <2>1, FS_Product, DeviceAssumption DEF Event
  <1>2. /\ serverSeq \in [Event -> Nat] /\ Stored \subseteq Event
        /\ e \in rows /\ f \in rows
        /\ Cardinality(Below(e)) < PullPage
    BY DEF TypeOK, Stored, PageAfter
  <1>3. Below(f) \subseteq Below(e)
    <2> SUFFICES ASSUME NEW g \in Below(f) PROVE g \in Below(e)
      OBVIOUS
    <2>1. /\ serverSeq[g] \in Nat /\ serverSeq[f] \in Nat /\ serverSeq[e] \in Nat
          /\ serverSeq[g] < serverSeq[f]
      BY <1>2
    <2> QED BY <2>1
  <1>4. IsFiniteSet(Below(e))
    <2>1. Below(e) \subseteq Event BY <1>2
    <2> QED BY <1>1, <2>1, FS_Subset
  <1>5. /\ Cardinality(Below(f)) \in Nat /\ Cardinality(Below(e)) \in Nat
        /\ Cardinality(Below(f)) <= Cardinality(Below(e))
    BY <1>3, <1>4, FS_Subset, FS_CardinalityType
  <1>6. Cardinality(Below(f)) < PullPage BY <1>2, <1>5, SizesAssumption
  <1> QED BY <1>2, <1>6 DEF PageAfter

\* What d's cursor and d's page in hand have covered.
Has(d, e) == e \in table[d] \cup Unreadable[d]

CursorOk(d) ==
    /\ cursor[d] = 0 \/ \E f \in Stored : serverSeq[f] = cursor[d]
    /\ \A e \in Stored : serverSeq[e] <= cursor[d] => Has(d, e) \/ e \in overtaken
    /\ \A e \in pass[d].page : e \in pass[d].left \/ Has(d, e)
    /\ \A f \in pass[d].page : \A e \in Stored :
          serverSeq[e] <= serverSeq[f]
          => e \in pass[d].page \cup overtaken \/ serverSeq[e] <= cursor[d]

CursorInv == \A d \in Device : CursorOk(d)

LEMMA CursorInit == Init => CursorInv
  BY DEF Init, CursorInv, CursorOk, Stored, NoPass

\* What a step without effect on the server's rows leaves of CursorOk, when the
\* cursor stays and the page stays, vanishes or is worked on.
LEMMA CursorFrame ==
    ASSUME TypeOK, CursorInv, Grows, NEW d \in Device,
           UNCHANGED <<serverSeq, overtaken>>, cursor'[d] = cursor[d],
           \/ pass'[d].page = {}
           \/ /\ pass'[d].page = pass[d].page
              /\ \A e \in pass[d].left : e \in pass'[d].left \/ Has(d, e)'
    PROVE  CursorOk(d)'
  <1>1. Stored' = Stored BY DEF Stored
  <1>2. \A e : Has(d, e) => Has(d, e)' BY DEF Has, Grows
  <1> QED BY <1>1, <1>2 DEF CursorInv, CursorOk

LEMMA CursorStep ==
    TypeOK /\ LedgerInv /\ NumberInv /\ CursorInv /\ [Next]_vars => CursorInv'
  <1> SUFFICES ASSUME TypeOK, LedgerInv, NumberInv, CursorInv, [Next]_vars,
                      NEW x \in Device
               PROVE  CursorOk(x)'
    BY DEF CursorInv
  <1>g. Grows BY StepGrows
  <1>1. ASSUME NEW d \in Device, Pull(d) PROVE CursorOk(x)'
    <2>1. UNCHANGED <<serverSeq, overtaken, cursor, table>> BY <1>1 DEF Pull, server, history, device
    <2>2. CASE x # d
      <3>1. pass'[x] = pass[x] BY <1>1, <2>2 DEF Pull, TypeOK
      <3> QED BY <1>g, <2>1, <3>1, CursorFrame
    <2>3. CASE x = d
      <3> DEFINE P == PageAfter(cursor[d])
      <3>1. CASE pass'[d] = NoPass
        BY <1>g, <2>1, <2>3, <3>1, CursorFrame DEF NoPass
      <3>2. CASE pass'[d] = [NoPass EXCEPT !.pc = "merge", !.page = P, !.left = P]
        <4>1. \A f \in P : \A e \in Stored :
                serverSeq[e] <= serverSeq[f] => e \in P \/ serverSeq[e] <= cursor[d]
          <5> SUFFICES ASSUME NEW f \in P, NEW e \in Stored, serverSeq[e] <= serverSeq[f],
                              ~(serverSeq[e] <= cursor[d])
                       PROVE  e \in P
            OBVIOUS
          <5>1. cursor[d] \in Nat /\ serverSeq[e] \in Nat BY DEF TypeOK, Stored
          <5>2. cursor[d] < serverSeq[e] BY <5>1
          <5> QED BY <5>1, <5>2, PageClosed
        <4> HIDE DEF P
        <4>2. pass'[d].page = P /\ pass'[d].left = P
          <5>1. pass'[d] = [pc |-> "merge", pending |-> {}, toMark |-> {}, page |-> P, left |-> P]
            BY <3>2 DEF NoPass
          <5> QED BY <5>1
        <4>3. Stored' = Stored /\ \A e : Has(d, e)' = Has(d, e) BY <2>1 DEF Stored, Has
        <4> QED BY <2>1, <2>3, <4>1, <4>2, <4>3 DEF CursorInv, CursorOk
      <3> QED BY <1>1, <3>1, <3>2 DEF Pull, TypeOK
    <2> QED BY <2>2, <2>3
  <1>2. ASSUME NEW d \in Device, MergeOne(d) PROVE CursorOk(x)'
    <2>1. UNCHANGED <<serverSeq, overtaken, cursor>> BY <1>2 DEF MergeOne, server, history
    <2>2. PICK e \in pass[d].left :
             /\ pass' = [pass EXCEPT ![d].left = @ \ {e}]
             /\ e \in Unreadable[d] \/ e \in table'[d]
      BY <1>2 DEF MergeOne, TypeOK
    <2>3. CASE x # d
      <3>1. pass'[x] = pass[x] BY <2>2, <2>3 DEF TypeOK
      <3> QED BY <1>g, <2>1, <3>1, CursorFrame
    <2>4. CASE x = d
      <3>1. pass'[d].page = pass[d].page /\ pass'[d].left = pass[d].left \ {e}
        BY <2>2 DEF TypeOK, PassRecord
      <3>2. Has(d, e)' BY <2>2 DEF Has
      <3> QED BY <1>g, <2>1, <2>4, <3>1, <3>2, CursorFrame
    <2> QED BY <2>3, <2>4
  <1>3. ASSUME NEW d \in Device, SetCursor(d) PROVE CursorOk(x)'
    <2>1. UNCHANGED <<serverSeq, overtaken, table>> BY <1>3 DEF SetCursor, server, history
    <2>2. PICK e \in pass[d].page : /\ \A f \in pass[d].page : serverSeq[f] <= serverSeq[e]
                                    /\ cursor' = [cursor EXCEPT ![d] = serverSeq[e]]
      BY <1>3 DEF SetCursor
    <2>3. CASE x # d
      <3>1. pass'[x] = pass[x] /\ cursor'[x] = cursor[x] BY <1>3, <2>2, <2>3 DEF SetCursor, TypeOK
      <3> QED BY <1>g, <2>1, <3>1, CursorFrame
    <2>4. CASE x = d
      <3>1. pass'[d].page = {} /\ pass[d].left = {}
        BY <1>3 DEF SetCursor, TypeOK, NoPass
      <3>2. cursor'[d] = serverSeq[e] /\ e \in Stored
        BY <2>2 DEF TypeOK, LedgerInv, PassOk
      <3>3. \A f \in Stored : serverSeq[f] <= serverSeq[e] => Has(d, f) \/ f \in overtaken
        BY <3>1 DEF CursorInv, CursorOk
      <3>4. Stored' = Stored /\ \A f : Has(d, f)' = Has(d, f) BY <2>1 DEF Stored, Has
      <3> QED BY <2>1, <2>4, <3>1, <3>2, <3>3, <3>4 DEF CursorOk
    <2> QED BY <2>3, <2>4
  <1>4. ASSUME NEW h \in Handler, Commit(h) PROVE CursorOk(x)'
    <2>1. PICK e \in call[h].todo :
             IF e \in Stored
             THEN UNCHANGED <<serverSeq, recent, overtaken>>
             ELSE /\ serverSeq' = [serverSeq EXCEPT ![e] = call[h].num]
                  /\ recent' = recent \cup {e}
                  /\ overtaken' = IF \E f \in Stored : serverSeq[f] > call[h].num
                                  THEN overtaken \cup {e} ELSE overtaken
      BY <1>4 DEF Commit
    <2>2. UNCHANGED <<table, cursor, pass>> BY <1>4 DEF Commit, device
    <2>3. CASE e \in Stored BY <1>g, <2>1, <2>2, <2>3, CursorFrame
    <2>4. CASE e \notin Stored
      <3>1. e \in Event /\ call[h].num # 0 /\ call[h].num \in Nat
        BY <1>4 DEF Commit, TypeOK, CallRecord, LedgerInv, CallOk
      <3>2. /\ Stored' = Stored \cup {e} /\ serverSeq'[e] = call[h].num
            /\ \A f \in Stored : serverSeq'[f] = serverSeq[f] /\ serverSeq[f] \in Nat
        BY <2>1, <2>4, <3>1 DEF Stored, TypeOK
      <3>3. \A f \in Stored : call[h].num <= serverSeq[f] => e \in overtaken'
        BY <2>1, <2>4, <3>1, <3>2 DEF NumberInv
      <3>4. call[h].num <= cursor[x] => e \in overtaken'
        BY <3>1, <3>3 DEF CursorInv, CursorOk, TypeOK
      <3>5. pass[x].page \subseteq Stored BY DEF LedgerInv, PassOk
      <3>6. overtaken \subseteq overtaken' /\ \A f : Has(x, f)' = Has(x, f)
        BY <2>1, <2>2, <2>4 DEF Has
      <3>7. /\ cursor'[x] = 0 \/ \E f \in Stored' : serverSeq'[f] = cursor'[x]
            /\ \A f \in Stored' : serverSeq'[f] <= cursor'[x] => Has(x, f)' \/ f \in overtaken'
        BY <2>2, <3>2, <3>4, <3>6 DEF CursorInv, CursorOk
      <3>8. \A f \in pass[x].page : \A g \in Stored' :
              serverSeq'[g] <= serverSeq'[f]
              => g \in pass[x].page \cup overtaken' \/ serverSeq'[g] <= cursor[x]
        BY <3>2, <3>3, <3>5, <3>6 DEF CursorInv, CursorOk
      <3>9. \A f \in pass[x].page : f \in pass[x].left \/ Has(x, f)'
        BY <3>6 DEF CursorInv, CursorOk
      <3> QED BY <2>2, <3>7, <3>8, <3>9 DEF CursorOk
    <2> QED BY <2>3, <2>4
  <1>5. ASSUME NEW d \in Device, \/ Append(d) \/ StartPass(d) \/ Mark(d) \/ BatchDone(d)
                                 \/ PushDone(d) \/ (\E h \in Handler : Push(d, h))
                                 \/ Retry(d) \/ Abort(d)
        PROVE CursorOk(x)'
    <2>1. UNCHANGED <<serverSeq, overtaken, cursor>>
      BY <1>5 DEF Append, StartPass, Mark, BatchDone, PushDone, Push, Retry, Abort,
                  server, history, device
    <2>2. \/ pass'[x].page = {}
          \/ pass'[x].page = pass[x].page /\ pass'[x].left = pass[x].left
      <3>1. CASE Append(d) BY <3>1 DEF Append
      <3>2. CASE Mark(d) BY <3>2 DEF Mark, TypeOK, PassRecord
      <3>3. CASE StartPass(d) \/ Abort(d)
        <4>1. CASE x = d
          <5>1. \/ pass'[d] = NoPass
                \/ pass'[d] = [NoPass EXCEPT !.pc = "push", !.pending = Unsynced(d)]
            BY <3>3 DEF StartPass, Abort, TypeOK
          <5>2. NoPass.page = {} /\ [NoPass EXCEPT !.pc = "push", !.pending = Unsynced(d)].page = {}
            BY DEF NoPass
          <5> QED BY <4>1, <5>1, <5>2
        <4>2. CASE x # d
          <5>1. pass'[x] = pass[x] BY <3>3, <4>2 DEF StartPass, Abort, TypeOK
          <5> QED BY <5>1
        <4> QED BY <4>1, <4>2
      <3>4. CASE BatchDone(d) \/ PushDone(d) \/ (\E h \in Handler : Push(d, h)) \/ Retry(d)
        BY <3>4 DEF BatchDone, PushDone, Push, Retry, TypeOK, PassRecord
      <3> QED BY <1>5, <3>1, <3>2, <3>3, <3>4
    <2> QED BY <1>g, <2>1, <2>2, CursorFrame
  <1>6. ASSUME NEW h \in Handler, Judge(h) \/ TakeNumber(h) \/ Respond(h) \/ HandlerDies(h)
        PROVE CursorOk(x)'
    <2>1. UNCHANGED <<serverSeq, overtaken, cursor>>
      BY <1>6 DEF Judge, TakeNumber, Respond, HandlerDies, server, history, device
    <2>2. \/ pass'[x].page = {}
          \/ pass'[x].page = pass[x].page /\ pass'[x].left = pass[x].left
      <3>1. CASE Judge(h) \/ TakeNumber(h) BY <3>1 DEF Judge, TakeNumber
      <3>2. CASE Respond(h) BY <3>2 DEF Respond, TypeOK, PassRecord
      <3>3. CASE HandlerDies(h) BY <3>3 DEF HandlerDies, TypeOK, PassRecord, NoPass
      <3> QED BY <1>6, <3>1, <3>2, <3>3
    <2> QED BY <1>g, <2>1, <2>2, CursorFrame
  <1>7. ASSUME NEW e \in Event, Age(e) PROVE CursorOk(x)'
    BY <1>7, <1>g, CursorFrame DEF Age, device, history
  <1>8. CASE UNCHANGED vars
    BY <1>8, <1>g, CursorFrame DEF vars, device, server, history
  <1> QED
    BY <1>1, <1>2, <1>3, <1>4, <1>5, <1>6, <1>7, <1>8 DEF Next, PassStep, HandlerStep

\* A device's cursor never passes over a row it does not have, but for rows its
\* schemas refuse and rows that appear below a visible one.
THEOREM CursorsAreComplete == Spec => []CursorComplete
  <1>1. Init => NumberInv /\ CursorInv BY NumberInit, CursorInit
  <1>2. TypeOK /\ LedgerInv /\ NumberInv /\ CursorInv /\ [Next]_vars
        => (NumberInv /\ CursorInv)'
    BY NumberStep, CursorStep
  <1>3. CursorInv => CursorComplete
    BY DEF CursorInv, CursorOk, CursorComplete, Has
  <1> QED BY <1>1, <1>2, <1>3, LedgerInvariant, PTL DEF Spec

----------------------------------------------------------------------------
(* The order of a device's own rows.                                        *)

\* What the server has done with an event for good: stored it, or refused it.
Dealt == Stored \cup turnedAway

Earlier(e, f) == Author(e) = Author(f) /\ Before(e, f)

\* Events of S that the server still has to see leave no earlier one behind.
NothingSkipped(S) ==
    \A f \in S : \A e \in Event : Earlier(e, f) => e \in S \cup Dealt

\* A device numbers its events without gaps; a pass works through a snapshot
\* without skipping one, and moves on when the server has dealt with a batch.
PassInOrder(d) ==
    /\ \A f \in table[d] : \A e \in Event :
          Author(f) = d /\ Earlier(e, f) => e \in table[d]
    /\ NothingSkipped(pass[d].pending)
    /\ pass[d].pc = "mark" => Batch(pass[d].pending) \subseteq Dealt

\* A handler somebody waits for has that one's batch, less what is dealt with.
Awaited(h) ==
    call[h].caller # NoOne =>
        /\ pass[call[h].caller].pc = "wait"
        /\ Batch(pass[call[h].caller].pending) \subseteq call[h].todo \cup Dealt

\* A handler skips nothing, and the number it inserts with came after those of
\* the rows before.
CallInOrder(h) ==
    /\ NothingSkipped(call[h].todo)
    /\ call[h].stage = "commit" =>
          \A f \in call[h].todo : \A e \in Event \ call[h].todo :
             Earlier(e, f) => e \in turnedAway \/ serverSeq[e] < call[h].num

OrderInv ==
    /\ \A d \in Device : PassInOrder(d)
    /\ \A h \in Handler : Awaited(h) /\ CallInOrder(h)
    /\ \A h, k \in Handler : h # k /\ call[h].caller = call[k].caller => call[h].caller = NoOne
    /\ OwnOrderKept

LEMMA OrderInit == Init => OrderInv
  <1> SUFFICES ASSUME Init PROVE OrderInv
    OBVIOUS
  <1>1. /\ \A d \in Device : table[d] = {} /\ pass[d] = NoPass
        /\ \A h \in Handler : call[h] = NoCall
        /\ Stored = {}
    BY DEF Init, Stored
  <1>2. /\ NoPass.pc = "idle" /\ NoPass.pending = {}
        /\ NoCall.caller = NoOne /\ NoCall.stage = "free" /\ NoCall.todo = {}
    BY DEF NoPass, NoCall
  <1>3. ASSUME NEW d \in Device PROVE PassInOrder(d)
    BY <1>1, <1>2 DEF PassInOrder, NothingSkipped
  <1>4. ASSUME NEW h \in Handler PROVE Awaited(h) /\ CallInOrder(h) /\ call[h].caller = NoOne
    BY <1>1, <1>2 DEF Awaited, CallInOrder, NothingSkipped
  <1> QED BY <1>1, <1>3, <1>4 DEF OrderInv, OwnOrderKept

\* The next batch of a snapshot has its first events.
LEMMA BatchFirst ==
    ASSUME NEW P \in SUBSET Event, NEW f \in Batch(P), NEW e \in P, Before(e, f)
    PROVE  e \in Batch(P)
  <1> DEFINE Ahead(x) == {g \in P : Before(g, x)}
  <1>1. IsFiniteSet(Event)
    <2>1. IsFiniteSet(1..MaxEvents) BY FS_Interval, EventAssumption
    <2> QED BY <2>1, FS_Product, DeviceAssumption DEF Event
  <1>2. \A g \in Event : g[2] \in Int BY EventShape
  <1>3. Ahead(e) \subseteq Ahead(f) BY <1>2 DEF Before, Batch
  <1>4. IsFiniteSet(Ahead(f)) BY <1>1, FS_Subset
  <1>5. /\ Cardinality(Ahead(e)) \in Nat /\ Cardinality(Ahead(f)) \in Nat
        /\ Cardinality(Ahead(e)) <= Cardinality(Ahead(f))
    BY <1>3, <1>4, FS_Subset, FS_CardinalityType
  <1>6. Cardinality(Ahead(f)) < PushBatch BY DEF Batch
  <1>7. Cardinality(Ahead(e)) < PushBatch BY <1>5, <1>6, SizesAssumption
  <1> QED BY <1>7 DEF Batch

\* What the server has refused it has refused for good.
LEMMA RefusalsStay ==
    ASSUME [Next]_vars
    PROVE  turnedAway \subseteq turnedAway'
  <1>1. ASSUME NEW h \in Handler, Judge(h) PROVE turnedAway \subseteq turnedAway'
    BY <1>1 DEF Judge
  <1>2. ASSUME NEW h \in Handler, TakeNumber(h) \/ Commit(h) \/ Respond(h) \/ HandlerDies(h)
        PROVE  turnedAway \subseteq turnedAway'
    BY <1>2 DEF TakeNumber, Commit, Respond, HandlerDies, history
  <1>3. ASSUME NEW d \in Device, \/ Append(d) \/ PassStep(d) \/ Retry(d) \/ Abort(d)
        PROVE  turnedAway \subseteq turnedAway'
    BY <1>3 DEF Append, PassStep, StartPass, Push, Mark, BatchDone, PushDone, Pull, MergeOne,
                SetCursor, Retry, Abort, history
  <1>4. ASSUME NEW e \in Event, Age(e) PROVE turnedAway \subseteq turnedAway'
    BY <1>4 DEF Age, history
  <1>5. CASE UNCHANGED vars BY <1>5 DEF vars, history
  <1> QED BY <1>1, <1>2, <1>3, <1>4, <1>5 DEF Next, HandlerStep

\* The order in what a step does not touch is kept as the server deals with more.
LEMMA OrderFrame ==
    ASSUME TypeOK, OrderInv, Grows, turnedAway \subseteq turnedAway',
           \A d \in Device : \/ PassInOrder(d)'
                             \/ /\ table'[d] = table[d]
                                /\ pass'[d].pending = pass[d].pending
                                /\ pass'[d].pc = pass[d].pc \/ pass'[d].pc # "mark",
           \A h \in Handler : \/ CallInOrder(h)'
                              \/ /\ call'[h].todo = call[h].todo
                                 /\ call'[h].stage = call[h].stage /\ call'[h].num = call[h].num,
           \A h \in Handler : \/ Awaited(h)'
                              \/ /\ call'[h].caller = call[h].caller
                                 /\ call'[h].todo = call[h].todo
                                 /\ LET d == call[h].caller
                                    IN  /\ pass'[d].pending = pass[d].pending
                                        /\ pass'[d].pc = pass[d].pc,
           \A h, k \in Handler : h # k /\ call'[h].caller = call'[k].caller
                                 => call'[h].caller = NoOne,
           UNCHANGED serverSeq \/ OwnOrderKept'
    PROVE  OrderInv'
  <1>1. Dealt \subseteq Dealt' BY DEF Grows, Dealt
  <1>2. ASSUME NEW d \in Device PROVE PassInOrder(d)'
    <2>1. PassInOrder(d) BY DEF OrderInv
    <2> QED BY <1>1, <2>1 DEF PassInOrder, NothingSkipped
  <1>3. ASSUME NEW h \in Handler PROVE CallInOrder(h)'
    <2>1. CASE CallInOrder(h)' BY <2>1
    <2>2. CASE /\ call'[h].todo = call[h].todo
               /\ call'[h].stage = call[h].stage /\ call'[h].num = call[h].num
      <3>1. CallInOrder(h) BY DEF OrderInv
      <3>2. NothingSkipped(call[h].todo)' BY <1>1, <2>2, <3>1 DEF CallInOrder, NothingSkipped
      <3>3. ASSUME call[h].stage = "commit", NEW f \in call[h].todo,
                   NEW e \in Event \ call[h].todo, Earlier(e, f)
            PROVE  e \in turnedAway' \/ serverSeq'[e] < call[h].num
        <4>1. e \in Dealt BY <3>1, <3>3 DEF CallInOrder, NothingSkipped
        <4>2. e \in turnedAway \/ serverSeq[e] < call[h].num BY <3>1, <3>3 DEF CallInOrder
        <4> QED BY <4>1, <4>2 DEF Dealt, Grows
      <3> QED BY <2>2, <3>2, <3>3 DEF CallInOrder
    <2> QED BY <2>1, <2>2
  <1>4. ASSUME NEW h \in Handler PROVE Awaited(h)'
    <2>1. Awaited(h) BY DEF OrderInv
    <2> QED BY <1>1, <2>1 DEF Awaited
  <1>5. OwnOrderKept'
    <2>1. CASE UNCHANGED serverSeq
      <3>1. Stored' = Stored BY <2>1 DEF Stored
      <3> QED BY <2>1, <3>1 DEF OwnOrderKept, OrderInv
    <2> QED BY <2>1
  <1> QED BY <1>2, <1>3, <1>4, <1>5 DEF OrderInv

LEMMA OrderStep == TypeOK /\ LedgerInv /\ NumberInv /\ OrderInv /\ [Next]_vars => OrderInv'
  <1> SUFFICES ASSUME TypeOK, LedgerInv, NumberInv, OrderInv, [Next]_vars PROVE OrderInv'
    OBVIOUS
  <1>g. Grows BY StepGrows
  <1>r. turnedAway \subseteq turnedAway' BY RefusalsStay
  <1>d. Dealt \subseteq Dealt' BY <1>g, <1>r DEF Grows, Dealt
  <1>u. \A h, k \in Handler : h # k /\ call[h].caller = call[k].caller => call[h].caller = NoOne
    BY DEF OrderInv
  <1>1. ASSUME NEW d \in Device, Append(d) PROVE OrderInv'
    <2>1. PICK n \in 1..MaxEvents : /\ \A m \in 1..(n - 1) : <<d, m>> \in table[d]
                                    /\ table' = [table EXCEPT ![d] = @ \cup {<<d, n>>}]
      BY <1>1 DEF Append
    <2>2. UNCHANGED <<pass, call, serverSeq>> BY <1>1 DEF Append, server
    <2>3. PassInOrder(d)'
      <3>1. \A f \in table'[d] : \A e \in Event :
               Author(f) = d /\ Earlier(e, f) => e \in table'[d]
        <4> SUFFICES ASSUME NEW f \in table'[d], NEW e \in Event, Author(f) = d, Earlier(e, f)
                     PROVE  e \in table'[d]
          OBVIOUS
        <4>1. table'[d] = table[d] \cup {<<d, n>>} BY <2>1 DEF TypeOK
        <4>2. CASE f \in table[d] BY <4>1, <4>2 DEF OrderInv, PassInOrder
        <4>3. CASE f = <<d, n>>
          <5>1. e = <<d, e[2]>> /\ e[2] \in 1..MaxEvents /\ e[2] < n
            BY <4>3, EventShape DEF Earlier, Author, Before
          <5>2. e[2] \in 1..(n - 1) BY <5>1
          <5> QED BY <2>1, <4>1, <5>1, <5>2
        <4> QED BY <4>1, <4>2, <4>3
      <3> QED BY <1>d, <2>2, <3>1 DEF OrderInv, PassInOrder, NothingSkipped
    <2>4. \A x \in Device \ {d} : table'[x] = table[x] BY <2>1 DEF TypeOK
    <2> QED BY <1>g, <1>r, <1>u, <2>2, <2>3, <2>4, OrderFrame
  <1>2. ASSUME NEW d \in Device, StartPass(d) PROVE OrderInv'
    <2>1. /\ pass'[d] = [NoPass EXCEPT !.pc = "push", !.pending = Unsynced(d)]
          /\ pass[d] = NoPass
          /\ \A x \in Device \ {d} : pass'[x] = pass[x]
      BY <1>2 DEF StartPass, TypeOK
    <2>2. pass'[d].pc = "push" /\ pass'[d].pending = Unsynced(d) /\ pass[d].pc = "idle"
      BY <2>1 DEF NoPass
    <2>3. UNCHANGED <<table, marked, call, serverSeq>> BY <1>2 DEF StartPass, device, server
    <2>4. NothingSkipped(Unsynced(d))'
      <3>1. \A f \in Unsynced(d) : \A e \in Event : Earlier(e, f) => e \in Unsynced(d) \cup Stored
        BY DEF Unsynced, Earlier, OrderInv, PassInOrder, LedgerInv, DeviceOk
      <3>2. Unsynced(d)' = Unsynced(d) BY <2>3 DEF Unsynced
      <3> QED BY <1>d, <3>1, <3>2 DEF NothingSkipped, Dealt
    <2>5. Unsynced(d)' = Unsynced(d) BY <2>3 DEF Unsynced
    <2>6. PassInOrder(d)'
      BY <2>2, <2>3, <2>4, <2>5 DEF PassInOrder, OrderInv, NothingSkipped
    <2>7. \A h \in Handler : call[h].caller # d
      BY <2>2, DeviceAssumption DEF OrderInv, Awaited
    <2>8. \A h \in Handler : call[h].caller \in Device \ {d} \/ call[h].caller = NoOne
      BY <2>7 DEF TypeOK, CallRecord
    <2>9. \A h \in Handler : Awaited(h)' \/ pass'[call[h].caller] = pass[call[h].caller]
      BY <2>1, <2>3, <2>8 DEF Awaited
    <2> QED BY <1>g, <1>r, <1>u, <2>1, <2>3, <2>6, <2>9, OrderFrame
  <1>3. ASSUME NEW d \in Device, NEW h \in Handler, Push(d, h) PROVE OrderInv'
    <2> DEFINE P == pass[d].pending
    <2>1. /\ call'[h] = [NoCall EXCEPT !.caller = d, !.stage = "judge", !.todo = Batch(P)]
          /\ \A k \in Handler \ {h} : call'[k] = call[k]
      BY <1>3 DEF Push, TypeOK
    <2>2. /\ pass'[d].pc = "wait" /\ pass'[d].pending = P
          /\ \A x \in Device \ {d} : pass'[x] = pass[x]
          /\ pass[d].pc = "push"
      BY <1>3 DEF Push, TypeOK, PassRecord
    <2> HIDE DEF P
    <2>3. call'[h].caller = d /\ call'[h].stage = "judge" /\ call'[h].todo = Batch(P)
      BY <2>1 DEF NoCall
    <2>4. UNCHANGED <<table, serverSeq>> BY <1>3 DEF Push, device, server
    <2>5. P \subseteq Event /\ Batch(P) \subseteq P BY DEF P, Batch, TypeOK, PassRecord
    <2>6. NothingSkipped(Batch(P))
      <3> SUFFICES ASSUME NEW f \in Batch(P), NEW e \in Event, Earlier(e, f)
                   PROVE  e \in Batch(P) \cup Dealt
        BY DEF NothingSkipped
      <3>1. e \in P \cup Dealt BY <2>5 DEF P, OrderInv, PassInOrder, NothingSkipped
      <3> QED BY <2>5, <3>1, BatchFirst DEF Earlier
    <2>7. CallInOrder(h)' BY <1>d, <2>3, <2>6 DEF CallInOrder, NothingSkipped
    <2>8. Awaited(h)' BY <2>2, <2>3 DEF Awaited
    <2>9. \A k \in Handler \ {h} : call[k].caller \in Device \ {d} \/ call[k].caller = NoOne
      <3>1. \A k \in Handler : call[k].caller # d
        BY <2>2, DeviceAssumption DEF OrderInv, Awaited
      <3> QED BY <3>1 DEF TypeOK, CallRecord
    <2>10. \A k \in Handler \ {h} : Awaited(k)' \/ pass'[call[k].caller] = pass[call[k].caller]
      BY <2>1, <2>2, <2>9 DEF Awaited
    <2>11. \A k, l \in Handler : k # l /\ call'[k].caller = call'[l].caller
                                 => call'[k].caller = NoOne
      <3>1. \A k \in Handler \ {h} : call'[k].caller = call[k].caller /\ call'[k].caller # d
        BY <2>1, <2>9, DeviceAssumption
      <3> QED BY <1>u, <2>3, <3>1
    <2> QED BY <1>g, <1>r, <2>1, <2>2, <2>4, <2>7, <2>8, <2>10, <2>11, OrderFrame DEF P
  <1>4. ASSUME NEW d \in Device, Mark(d) \/ MergeOne(d) PROVE OrderInv'
    <2>1. \A x \in Device : pass'[x].pending = pass[x].pending /\ pass'[x].pc = pass[x].pc
      <3>1. CASE Mark(d) BY <3>1 DEF Mark, TypeOK, PassRecord
      <3>2. CASE MergeOne(d) BY <3>2 DEF MergeOne, TypeOK, PassRecord
      <3> QED BY <1>4, <3>1, <3>2
    <2>2. UNCHANGED <<call, serverSeq>> BY <1>4 DEF Mark, MergeOne, server
    <2>3. ASSUME NEW x \in Device PROVE PassInOrder(x)'
      <3>1. \A f \in table'[x] : Author(f) = x => f \in table[x]
        <4>1. CASE Mark(d) BY <4>1 DEF Mark
        <4>2. CASE MergeOne(d)
          <5>1. PICK e \in pass[d].left :
                   table' = table \/ table' = [table EXCEPT ![d] = @ \cup {e}]
            BY <4>2 DEF MergeOne
          <5>2. e \in table[Author(e)] /\ e \in Event BY DEF LedgerInv, PassOk, Stored
          <5> QED BY <5>1, <5>2 DEF TypeOK
        <4> QED BY <1>4, <4>1, <4>2
      <3>2. \A f \in table'[x] : \A e \in Event :
               Author(f) = x /\ Earlier(e, f) => e \in table'[x]
        BY <1>g, <3>1 DEF OrderInv, PassInOrder, Grows
      <3> QED BY <1>d, <2>1, <3>2 DEF OrderInv, PassInOrder, NothingSkipped
    <2>4. \A h \in Handler : Awaited(h)'
      BY <1>d, <2>1, <2>2 DEF OrderInv, Awaited, TypeOK, CallRecord
    <2> QED BY <1>g, <1>r, <1>u, <2>1, <2>2, <2>3, <2>4, OrderFrame
  <1>5. ASSUME NEW d \in Device, BatchDone(d) PROVE OrderInv'
    <2> DEFINE P == pass[d].pending
    <2>1. /\ pass'[d].pc = "push" /\ pass'[d].pending = P \ Batch(P)
          /\ pass[d].pc = "mark"
          /\ \A x \in Device \ {d} : pass'[x] = pass[x]
      BY <1>5 DEF BatchDone, TypeOK, PassRecord
    <2>2. UNCHANGED <<table, call, serverSeq>> BY <1>5 DEF BatchDone, device, server
    <2>3. Batch(P) \subseteq Dealt /\ NothingSkipped(P)
      BY <2>1 DEF OrderInv, PassInOrder
    <2> HIDE DEF P
    <2>4. \A f \in P \ Batch(P) : \A e \in Event :
             Earlier(e, f) => e \in (P \ Batch(P)) \cup Dealt'
      BY <1>d, <2>3 DEF NothingSkipped
    <2>5. PassInOrder(d)'
      BY <2>1, <2>2, <2>4 DEF PassInOrder, OrderInv, NothingSkipped
    <2>6. \A h \in Handler : call[h].caller \in Device \ {d} \/ call[h].caller = NoOne
      <3>1. \A h \in Handler : call[h].caller # d
        BY <2>1, DeviceAssumption DEF OrderInv, Awaited
      <3> QED BY <3>1 DEF TypeOK, CallRecord
    <2>7. \A h \in Handler : Awaited(h)' \/ pass'[call[h].caller] = pass[call[h].caller]
      BY <2>1, <2>2, <2>6 DEF Awaited
    <2> QED BY <1>g, <1>r, <1>u, <2>1, <2>2, <2>5, <2>7, OrderFrame
  <1>6. ASSUME NEW d \in Device, PushDone(d) \/ Pull(d) \/ SetCursor(d) PROVE OrderInv'
    <2>1. /\ pass'[d].pending = {} \/ pass'[d].pending = pass[d].pending
          /\ pass'[d].pc # "mark" /\ pass[d].pc # "wait"
          /\ \A x \in Device \ {d} : pass'[x] = pass[x]
      <3>1. CASE PushDone(d) BY <3>1 DEF PushDone, TypeOK, PassRecord
      <3>2. CASE Pull(d)
        <4> DEFINE Q == PageAfter(cursor[d])
        <4>1. pass'[d] = NoPass \/ pass'[d] = [NoPass EXCEPT !.pc = "merge", !.page = Q, !.left = Q]
          BY <3>2 DEF Pull, TypeOK
        <4> HIDE DEF Q
        <4>2. pass'[d].pending = {} /\ pass'[d].pc \in {"idle", "merge"}
          <5>1. CASE pass'[d] = NoPass BY <5>1 DEF NoPass
          <5>2. CASE pass'[d] = [NoPass EXCEPT !.pc = "merge", !.page = Q, !.left = Q]
            <6>1. pass'[d] = [pc |-> "merge", pending |-> {}, toMark |-> {}, page |-> Q, left |-> Q]
              BY <5>2 DEF NoPass
            <6> QED BY <6>1
          <5> QED BY <4>1, <5>1, <5>2
        <4> QED BY <3>2, <4>2 DEF Pull, TypeOK
      <3>3. CASE SetCursor(d)
        <4>1. pass'[d] = NoPass \/ pass'[d] = [NoPass EXCEPT !.pc = "pull"]
          BY <3>3 DEF SetCursor, TypeOK
        <4>2. pass'[d].pending = {} /\ pass'[d].pc \in {"idle", "pull"} BY <4>1 DEF NoPass
        <4> QED BY <3>3, <4>2 DEF SetCursor, TypeOK
      <3> QED BY <1>6, <3>1, <3>2, <3>3
    <2>2. UNCHANGED <<table, call, serverSeq>>
      BY <1>6 DEF PushDone, Pull, SetCursor, device, server
    <2>3. PassInOrder(d)'
      BY <1>d, <2>1, <2>2 DEF PassInOrder, OrderInv, NothingSkipped
    <2>4. \A h \in Handler : call[h].caller \in Device \ {d} \/ call[h].caller = NoOne
      <3>1. \A h \in Handler : call[h].caller # d
        BY <2>1, DeviceAssumption DEF OrderInv, Awaited
      <3> QED BY <3>1 DEF TypeOK, CallRecord
    <2>5. \A h \in Handler : Awaited(h)' \/ pass'[call[h].caller] = pass[call[h].caller]
      BY <2>1, <2>2, <2>4 DEF Awaited
    <2> QED BY <1>g, <1>r, <1>u, <2>1, <2>2, <2>3, <2>5, OrderFrame
  <1>7. ASSUME NEW h \in Handler, Judge(h) PROVE OrderInv'
    <2>1. PICK e \in call[h].todo :
             /\ AtHead(h, e)
             /\ \/ call' = [call EXCEPT ![h] = Reject(@, e)] /\ turnedAway' = turnedAway \cup {e}
                \/ \E n : call' = [call EXCEPT ![h].stage = "insert", ![h].seen[TypeOf[e]] = n]
      BY <1>7 DEF Judge
    <2>2. UNCHANGED <<table, pass, serverSeq>> /\ call[h].stage = "judge"
      BY <1>7 DEF Judge, device, server
    <2>3. /\ call'[h].todo = call[h].todo \/ (/\ call'[h].todo = call[h].todo \ {e}
                                              /\ e \in turnedAway')
          /\ call'[h].stage # "commit" /\ call'[h].caller = call[h].caller
          /\ \A k \in Handler \ {h} : call'[k] = call[k]
      <3>1. call[h] \in CallRecord BY DEF TypeOK
      <3>2. CASE call' = [call EXCEPT ![h] = Reject(@, e)] /\ turnedAway' = turnedAway \cup {e}
        BY <2>2, <3>1, <3>2 DEF Reject, TypeOK, CallRecord
      <3>3. CASE \E n : call' = [call EXCEPT ![h].stage = "insert", ![h].seen[TypeOf[e]] = n]
        BY <3>1, <3>3 DEF TypeOK, CallRecord
      <3> QED BY <2>1, <3>2, <3>3
    <2>4. call[h].todo \subseteq call'[h].todo \cup Dealt' BY <2>3 DEF Dealt
    <2>5. CallInOrder(h)'
      BY <1>d, <2>3, <2>4 DEF CallInOrder, OrderInv, NothingSkipped
    <2>6. Awaited(h)' BY <1>d, <2>2, <2>3, <2>4 DEF Awaited, OrderInv
    <2>7. \A k, l \in Handler : k # l /\ call'[k].caller = call'[l].caller
                                => call'[k].caller = NoOne
      BY <1>u, <2>3
    <2> QED BY <1>g, <1>r, <2>2, <2>3, <2>5, <2>6, <2>7, OrderFrame
  <1>8. ASSUME NEW h \in Handler, TakeNumber(h) PROVE OrderInv'
    <2>1. UNCHANGED <<table, pass, serverSeq, turnedAway>>
      BY <1>8 DEF TakeNumber, device, history
    <2>2. /\ call'[h].todo = call[h].todo /\ call'[h].caller = call[h].caller
          /\ call'[h].num = lastVal + 1
          /\ \A k \in Handler \ {h} : call'[k] = call[k]
      BY <1>8 DEF TakeNumber, TypeOK, CallRecord
    <2>3. \A e \in Event : serverSeq[e] < lastVal + 1
      BY DEF NumberInv, TypeOK
    <2>4. CallInOrder(h)'
      BY <1>d, <2>1, <2>2, <2>3 DEF CallInOrder, OrderInv, NothingSkipped
    <2>5. Awaited(h)' BY <1>d, <2>1, <2>2 DEF Awaited, OrderInv
    <2>6. \A k, l \in Handler : k # l /\ call'[k].caller = call'[l].caller
                                => call'[k].caller = NoOne
      BY <1>u, <2>2
    <2> QED BY <1>g, <1>r, <2>1, <2>2, <2>4, <2>5, <2>6, OrderFrame
  <1>9. ASSUME NEW h \in Handler, Commit(h) PROVE OrderInv'
    <2>1. PICK e \in call[h].todo :
             /\ AtHead(h, e)
             /\ call' = [call EXCEPT ![h].stage = "judge", ![h].num = 0,
                                     ![h].todo = @ \ {e}, ![h].settled = @ \cup {e}]
             /\ IF e \in Stored THEN UNCHANGED serverSeq
                ELSE serverSeq' = [serverSeq EXCEPT ![e] = call[h].num]
      BY <1>9 DEF Commit
    <2>2. UNCHANGED <<table, pass, turnedAway>> /\ call[h].stage = "commit"
      BY <1>9 DEF Commit, device
    <2>3. /\ call'[h].todo = call[h].todo \ {e} /\ call'[h].stage = "judge"
          /\ call'[h].caller = call[h].caller
          /\ \A k \in Handler \ {h} : call'[k] = call[k]
      BY <2>1 DEF TypeOK, CallRecord
    <2>4. e \in Event /\ call[h].num # 0 /\ call[h].num \in Nat
      BY <2>2 DEF TypeOK, CallRecord, LedgerInv, CallOk
    <2>5. e \in Stored' BY <2>1, <2>4 DEF Stored, TypeOK
    <2>6. call[h].todo \subseteq call'[h].todo \cup Dealt' BY <2>3, <2>5 DEF Dealt
    <2>7. CallInOrder(h)'
      BY <1>d, <2>3, <2>6 DEF CallInOrder, OrderInv, NothingSkipped
    <2>8. Awaited(h)' BY <1>d, <2>2, <2>3, <2>6 DEF Awaited, OrderInv
    <2>9. UNCHANGED serverSeq \/ OwnOrderKept'
      <3> SUFFICES ASSUME e \notin Stored, serverSeq' = [serverSeq EXCEPT ![e] = call[h].num],
                          NEW x \in Event, NEW y \in Event, Earlier(x, y),
                          y \in Stored', x \notin turnedAway
                   PROVE  x \in Stored' /\ serverSeq'[x] < serverSeq'[y]
        BY <2>1, <2>2 DEF OwnOrderKept, Earlier
      <3>1. /\ Stored' = Stored \cup {e} /\ serverSeq'[e] = call[h].num
            /\ \A z \in Event \ {e} : serverSeq'[z] = serverSeq[z]
        BY <2>4 DEF Stored, TypeOK
      <3>2. CASE y \in Stored
        BY <3>1, <3>2 DEF OrderInv, OwnOrderKept, Earlier
      <3>3. CASE y = e
        <4>1. x \in Event /\ e \in Event /\ x[2] \in Int /\ e[2] \in Int /\ x[2] < e[2]
          BY <2>4, <3>3, EventShape DEF Earlier, Before
        <4>2. x \notin call[h].todo BY <2>1, <4>1 DEF AtHead, Before
        <4>3. x \in Stored
          BY <2>1, <3>3, <4>2 DEF OrderInv, CallInOrder, NothingSkipped, Dealt
        <4>4. serverSeq[x] < call[h].num
          BY <2>1, <2>2, <3>3, <4>2 DEF OrderInv, CallInOrder
        <4> QED BY <3>1, <3>3, <4>1, <4>3, <4>4
      <3> QED BY <3>1, <3>2, <3>3
    <2>10. \A k, l \in Handler : k # l /\ call'[k].caller = call'[l].caller
                                 => call'[k].caller = NoOne
      BY <1>u, <2>3
    <2> QED BY <1>g, <1>r, <2>2, <2>3, <2>7, <2>8, <2>9, <2>10, OrderFrame
  <1>10. ASSUME NEW h \in Handler, Respond(h) \/ HandlerDies(h) PROVE OrderInv'
    <2>1. call'[h] = NoCall /\ \A k \in Handler \ {h} : call'[k] = call[k]
      BY <1>10 DEF Respond, HandlerDies, TypeOK
    <2>2. NoCall.caller = NoOne /\ NoCall.todo = {} /\ NoCall.stage = "free" BY DEF NoCall
    <2>3. UNCHANGED <<table, serverSeq>> BY <1>10 DEF Respond, HandlerDies, device, server
    <2>4. CallInOrder(h)' /\ Awaited(h)'
      BY <2>1, <2>2 DEF CallInOrder, Awaited, NothingSkipped
    <2>5. \A k, l \in Handler : k # l /\ call'[k].caller = call'[l].caller
                                => call'[k].caller = NoOne
      BY <1>u, <2>1, <2>2
    <2>6. \A x \in Device : x # call[h].caller => pass'[x] = pass[x]
      BY <1>10 DEF Respond, HandlerDies
    <2>7. \A k \in Handler \ {h} : \/ call[k].caller = NoOne
                                   \/ pass'[call[k].caller] = pass[call[k].caller]
      BY <1>u, <2>6 DEF TypeOK, CallRecord
    <2>8. \A k \in Handler \ {h} : Awaited(k)' \/ pass'[call[k].caller] = pass[call[k].caller]
      BY <2>1, <2>7 DEF Awaited
    <2>9. ASSUME NEW x \in Device, x = call[h].caller PROVE PassInOrder(x)'
      <3>1. /\ pass'[x].pending = pass[x].pending \/ pass'[x].pending = {}
            /\ pass'[x].pc = "mark" => Respond(h) /\ pass'[x].pending = pass[x].pending
        <4>1. CASE Respond(h) BY <2>9, <4>1 DEF Respond, TypeOK, PassRecord
        <4>2. CASE HandlerDies(h)
          <5>1. pass'[x] = [pass[x] EXCEPT !.pc = "push"] \/ pass'[x] = NoPass
            BY <2>9, <4>2 DEF HandlerDies
          <5>2. NoPass.pending = {} /\ NoPass.pc = "idle" BY DEF NoPass
          <5> QED BY <5>1, <5>2 DEF TypeOK, PassRecord
        <4> QED BY <1>10, <4>1, <4>2
      <3>2. Respond(h) => Batch(pass[x].pending) \subseteq Dealt
        BY <2>9, DeviceAssumption DEF Respond, OrderInv, Awaited
      <3> QED BY <1>d, <2>3, <3>1, <3>2 DEF PassInOrder, OrderInv, NothingSkipped
    <2> QED BY <1>g, <1>r, <2>1, <2>3, <2>4, <2>5, <2>6, <2>8, <2>9, OrderFrame
  <1>11. ASSUME NEW d \in Device, Retry(d) \/ Abort(d) PROVE OrderInv'
    <2>1. /\ pass'[d].pending = pass[d].pending \/ pass'[d].pending = {}
          /\ pass'[d].pc # "mark"
          /\ \A x \in Device \ {d} : pass'[x] = pass[x]
      <3>1. CASE Retry(d) BY <3>1 DEF Retry, TypeOK, PassRecord
      <3>2. CASE Abort(d)
        <4>1. NoPass.pending = {} /\ NoPass.pc = "idle" BY DEF NoPass
        <4> QED BY <3>2, <4>1 DEF Abort, TypeOK
      <3> QED BY <1>11, <3>1, <3>2
    <2>2. UNCHANGED <<table, serverSeq>> /\ call' = Abandoned(d)
      BY <1>11 DEF Retry, Abort, device, server
    <2>3. ASSUME NEW h \in Handler
          PROVE  /\ call'[h].todo = call[h].todo /\ call'[h].stage = call[h].stage
                 /\ call'[h].num = call[h].num
                 /\ call'[h].caller = IF call[h].caller = d THEN NoOne ELSE call[h].caller
      BY <2>2 DEF Abandoned, TypeOK, CallRecord
    <2>4. PassInOrder(d)'
      BY <1>d, <2>1, <2>2 DEF PassInOrder, OrderInv, NothingSkipped
    <2>5. \A h \in Handler : \/ call'[h].caller = NoOne
                             \/ /\ call'[h].caller = call[h].caller
                                /\ call[h].caller \in Device \ {d}
      BY <2>3 DEF TypeOK, CallRecord
    <2>6. \A h \in Handler : \/ Awaited(h)'
                             \/ /\ call'[h].caller = call[h].caller
                                /\ pass'[call[h].caller] = pass[call[h].caller]
      BY <2>1, <2>5 DEF Awaited
    <2>7. \A k, l \in Handler : k # l /\ call'[k].caller = call'[l].caller
                                => call'[k].caller = NoOne
      BY <1>u, <2>5
    <2> QED BY <1>g, <1>r, <2>1, <2>2, <2>3, <2>4, <2>6, <2>7, OrderFrame
  <1>12. ASSUME NEW e \in Event, Age(e) PROVE OrderInv'
    BY <1>12, <1>g, <1>r, <1>u, OrderFrame DEF Age, device
  <1>13. CASE UNCHANGED vars
    BY <1>13, <1>g, <1>r, <1>u, OrderFrame DEF vars, device, server
  <1> QED
    BY <1>1, <1>2, <1>3, <1>4, <1>5, <1>6, <1>7, <1>8, <1>9, <1>10, <1>11, <1>12, <1>13
    DEF Next, PassStep, HandlerStep

\* The server's rows of one device are in the order it wrote them in, whatever
\* was retried, abandoned or lost, but for events a push was told are refused.
THEOREM OwnOrderIsKept == Spec => []OwnOrderKept
  <1>1. Init => NumberInv /\ OrderInv BY NumberInit, OrderInit
  <1>2. TypeOK /\ LedgerInv /\ NumberInv /\ OrderInv /\ [Next]_vars => (NumberInv /\ OrderInv)'
    BY NumberStep, OrderStep
  <1>3. OrderInv => OwnOrderKept BY DEF OrderInv
  <1> QED BY <1>1, <1>2, <1>3, LedgerInvariant, PTL DEF Spec
=============================================================================
