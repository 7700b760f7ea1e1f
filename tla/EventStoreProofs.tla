-------------------------- MODULE EventStoreProofs --------------------------
(* Proofs about module EventStore, for any number of calls in progress, any *)
(* readings of the wall clock, any drafts, any pages and any bounds: the    *)
(* order a device numbers its events in is the order of their stamps; the   *)
(* projections are the fold of the table wherever no call still owes it,    *)
(* none was cut short and no two raced; a rebuild that ends mends them.     *)
EXTENDS EventStore, LedgerProofs

----------------------------------------------------------------------------
(* The inductive invariant.                                                 *)

IsList(s) == \E S : s \in Seq(S)
IsEvent(e) == {"id", "hlc"} \subseteq DOMAIN e

Pcs == {"idle", "insert", "check", "select", "mark", "resolve", "refold", "writeCustomer",
        "writeBalance", "dropCustomers", "dropBalances", "scan"}

\* A frame is a record of its kind; what it has folded and scanned is not
\* looked at.  Only an append and a merge have events to deal with.
Shape(f) ==
    /\ f \in [kind : {"none", "append", "merge", "rebuild"}, pc : Pcs, todo : {f.todo},
              page : {f.page}, touched : {f.touched}, cur : {f.cur}, row : {f.row},
              scan : {f.scan}]
    /\ IsList(f.todo)
    /\ f.kind \in {"none", "rebuild"} => f.todo = <<>>

\* A statement about an event has one; an append has one event, and is at its
\* INSERT or past it.
InPlace(f) ==
    /\ f.pc \in {"select", "mark", "insert", "resolve"} => f.todo # <<>>
    /\ f.kind = "append" /\ f.todo # <<>>
       => f.pc \in {"insert", "resolve"} /\ Tail(f.todo) = <<>>

\* What a merge has to do was stamped by a clock, elsewhere or long ago: an
\* event of this device comes back only after it was inserted, and the SELECT
\* keeps it from being inserted again.
Foreign(s, ids) ==
    \A i \in DOMAIN s : /\ IsEvent(s[i]) /\ ClockOf(s[i].hlc) \in HlcState
                        /\ s[i].id[1] = Me => s[i].id \in ids

MergeOk(f, ids) ==
    f.kind = "merge" =>
        /\ Foreign(f.todo, ids)
        /\ f.pc = "insert" => Head(f.todo).id[1] # Me

\* The events this device has numbered and stamped: those in the table and
\* those on their way into it.
Inserting(f) == f.kind = "append" /\ f.pc = "insert"
Issued == Own \cup {Head(op[o].todo) : o \in {p \in Op : Inserting(op[p])}}

\* No event is ahead of the sequence or of the clock.
IssuedOk(e) ==
    /\ IsEvent(e)
    /\ e.id = <<Me, e.id[2]>> /\ e.id[2] \in 1..lastSeq
    /\ e.hlc \in [l : Nat, c : Nat, dev : {Me}]
    /\ ~StateLess(clock, ClockOf(e.hlc))

FramesOk ==
    /\ op = [o \in Op |-> op[o]]
    /\ \A o \in Op : Shape(op[o]) /\ InPlace(op[o]) /\ MergeOk(op[o], Ids)

\* No number is used twice, not even by calls in progress.
NumbersApart ==
    /\ \A e, f \in Own : e.id = f.id => e = f
    /\ \A o \in Op : Inserting(op[o]) => Head(op[o].todo).id \notin Ids
    /\ \A o, p \in Op : o # p /\ Inserting(op[o]) /\ Inserting(op[p])
                        => Head(op[o].todo).id # Head(op[p].todo).id

\* A device that wrote has a last event, for the next clock to be seeded from.
HasLast == Own # {} => \E e \in Own : \A f \in Own : f.id[2] <= e.id[2]

StoreInv ==
    /\ lastSeq \in Nat /\ clock \in HlcState
    /\ FramesOk
    /\ \A e \in Issued : IssuedOk(e)
    /\ \A e, f \in Issued : e.id[2] < f.id[2] => Before(e, f)
    /\ NumbersApart
    /\ HasLast

----------------------------------------------------------------------------
(* Lists and frames.                                                        *)

\* Where Head and Tail of a list come from.
LEMMA ListMoves ==
    ASSUME NEW s, IsList(s), s # <<>>
    PROVE  /\ IsList(Tail(s))
           /\ 1 \in DOMAIN s /\ Head(s) = s[1]
           /\ \A i \in DOMAIN Tail(s) : \E j \in DOMAIN s : Tail(s)[i] = s[j]
  <1>1. PICK S : s \in Seq(S) BY DEF IsList
  <1>2. /\ Tail(s) \in Seq(S) /\ Len(s) \in Nat \ {0} /\ Head(s) = s[1]
        /\ DOMAIN s = 1..Len(s) /\ DOMAIN Tail(s) = 1..(Len(s) - 1)
        /\ \A i \in 1..(Len(s) - 1) : Tail(s)[i] = s[i + 1]
    BY <1>1
  <1>3. \A i \in DOMAIN Tail(s) : i + 1 \in DOMAIN s /\ Tail(s)[i] = s[i + 1]
    BY <1>2
  <1> QED BY <1>2, <1>3 DEF IsList

LEMMA ListOfOne ==
    ASSUME NEW e
    PROVE  /\ IsList(<<e>>) /\ <<e>> # <<>>
           /\ Head(<<e>>) = e /\ Tail(<<e>>) = <<>> /\ DOMAIN <<e>> = {1} /\ <<e>>[1] = e
  <1>1. <<e>> \in Seq({e}) OBVIOUS
  <1>2. IsList(<<e>>) BY <1>1 DEF IsList
  <1>3. Head(<<e>>) = e /\ Tail(<<e>>) = <<>> /\ <<e>> # <<>> OBVIOUS
  <1>4. DOMAIN <<e>> = {1} /\ <<e>>[1] = e OBVIOUS
  <1> QED BY <1>2, <1>3, <1>4

LEMMA NoList == IsList(<<>>) /\ DOMAIN <<>> = {}
  <1>1. <<>> \in Seq({}) OBVIOUS
  <1> QED BY <1>1 DEF IsList

\* The frame of a call that starts is in order: what is not said of it is as in Idle.
LEMMA AppendStarts ==
    ASSUME NEW e, NEW f, f = [Frame("append", "insert") EXCEPT !.todo = <<e>>]
    PROVE  Shape(f) /\ f.kind = "append" /\ f.pc = "insert" /\ f.todo = <<e>>
  <1>1. f.kind = "append" /\ f.pc = "insert" /\ f.todo = <<e>> BY DEF Frame, Idle
  <1>2. PICK g : g = Frame("append", "insert") OBVIOUS
  <1>3. g \in [kind : {"append"}, pc : {"insert"}, todo : {g.todo}, page : {g.page},
               touched : {g.touched}, cur : {g.cur}, row : {g.row}, scan : {g.scan}]
    BY <1>2 DEF Frame, Idle
  <1>4. f \in [kind : {"append"}, pc : {"insert"}, todo : {f.todo}, page : {f.page},
               touched : {f.touched}, cur : {f.cur}, row : {f.row}, scan : {f.scan}]
    BY <1>2, <1>3
  <1> QED BY <1>1, <1>4, ListOfOne DEF Shape, Pcs

LEMMA ArchiveStarts ==
    ASSUME NEW c, NEW f, f = [Frame("append", "check") EXCEPT !.cur = {c}]
    PROVE  Shape(f) /\ f.kind = "append" /\ f.pc = "check" /\ f.todo = <<>>
  <1>1. f.kind = "append" /\ f.pc = "check" /\ f.todo = <<>> BY DEF Frame, Idle
  <1>2. PICK g : g = Frame("append", "check") OBVIOUS
  <1>3. g \in [kind : {"append"}, pc : {"check"}, todo : {g.todo}, page : {g.page},
               touched : {g.touched}, cur : {g.cur}, row : {g.row}, scan : {g.scan}]
    BY <1>2 DEF Frame, Idle
  <1>4. f \in [kind : {"append"}, pc : {"check"}, todo : {f.todo}, page : {f.page},
               touched : {f.touched}, cur : {f.cur}, row : {f.row}, scan : {f.scan}]
    BY <1>2, <1>3
  <1> QED BY <1>1, <1>4, NoList DEF Shape, Pcs

LEMMA MergeStarts ==
    ASSUME NEW page, IsList(page), NEW f, f = [Frame("merge", "select") EXCEPT !.todo = page, !.page = page]
    PROVE  Shape(f) /\ f.kind = "merge" /\ f.pc = "select" /\ f.todo = page
  <1>1. f.kind = "merge" /\ f.pc = "select" /\ f.todo = page BY DEF Frame, Idle
  <1>2. PICK g : g = Frame("merge", "select") OBVIOUS
  <1>3. g \in [kind : {"merge"}, pc : {"select"}, todo : {g.todo}, page : {g.page},
               touched : {g.touched}, cur : {g.cur}, row : {g.row}, scan : {g.scan}]
    BY <1>2 DEF Frame, Idle
  <1>4. f \in [kind : {"merge"}, pc : {"select"}, todo : {f.todo}, page : {f.page},
               touched : {f.touched}, cur : {f.cur}, row : {f.row}, scan : {f.scan}]
    BY <1>2, <1>3
  <1> QED BY <1>1, <1>4 DEF Shape, Pcs

LEMMA RebuildStarts ==
    ASSUME NEW f, f = Frame("rebuild", "dropCustomers")
    PROVE  Shape(f) /\ f.kind = "rebuild" /\ f.pc = "dropCustomers" /\ f.todo = <<>>
  <1>1. f.kind = "rebuild" /\ f.pc = "dropCustomers" /\ f.todo = <<>> BY DEF Frame, Idle
  <1>2. PICK g : g = Frame("rebuild", "dropCustomers") OBVIOUS
  <1>3. g \in [kind : {"rebuild"}, pc : {"dropCustomers"}, todo : {g.todo}, page : {g.page},
               touched : {g.touched}, cur : {g.cur}, row : {g.row}, scan : {g.scan}]
    BY <1>2 DEF Frame, Idle
  <1>4. f \in [kind : {"rebuild"}, pc : {"dropCustomers"}, todo : {f.todo}, page : {f.page},
               touched : {f.touched}, cur : {f.cur}, row : {f.row}, scan : {f.scan}]
    BY <1>2, <1>3
  <1> QED BY <1>1, <1>4, NoList DEF Shape, Pcs

LEMMA IdleFrame ==
    /\ Shape(Idle) /\ InPlace(Idle) /\ \A ids : MergeOk(Idle, ids)
    /\ Idle.kind = "none" /\ Idle.pc = "idle" /\ Idle.todo = <<>>
  <1>1. Idle.kind = "none" /\ Idle.pc = "idle" /\ Idle.todo = <<>> BY DEF Idle
  <1>2. Shape(Idle) BY <1>1, NoList DEF Shape, Idle, Pcs
  <1> QED BY <1>1, <1>2 DEF InPlace, MergeOk

\* A frame that has gone on to another statement, with the events it had.
LEMMA FrameGoesOn ==
    ASSUME NEW f, Shape(f), NEW pc \in Pcs
    PROVE  LET g == [f EXCEPT !.pc = pc]
           IN  Shape(g) /\ g.kind = f.kind /\ g.pc = pc /\ g.todo = f.todo
  <1> DEFINE g == [f EXCEPT !.pc = pc]
  <1>1. g.kind = f.kind /\ g.pc = pc /\ g.todo = f.todo BY DEF Shape
  <1>2. g \in [kind : {"none", "append", "merge", "rebuild"}, pc : Pcs, todo : {g.todo},
               page : {g.page}, touched : {g.touched}, cur : {g.cur}, row : {g.row},
               scan : {g.scan}]
    BY DEF Shape
  <1> QED BY <1>1, <1>2 DEF Shape

LEMMA FrameDrops ==
    ASSUME NEW f, Shape(f), f.todo # <<>>
    PROVE  LET g == Dropped(f)
           IN  Shape(g) /\ g.kind = f.kind /\ g.pc = f.pc /\ g.todo = Tail(f.todo)
  <1> DEFINE g == Dropped(f)
  <1>1. g.kind = f.kind /\ g.pc = f.pc /\ g.todo = Tail(f.todo) BY DEF Shape, Dropped
  <1>2. g \in [kind : {"none", "append", "merge", "rebuild"}, pc : Pcs, todo : {g.todo},
               page : {g.page}, touched : {g.touched}, cur : {g.cur}, row : {g.row},
               scan : {g.scan}]
    BY DEF Shape, Dropped
  <1>3. IsList(Tail(f.todo)) BY ListMoves DEF Shape
  <1> QED BY <1>1, <1>2, <1>3 DEF Shape

LEMMA FrameTouches ==
    ASSUME NEW f, Shape(f), NEW touched, NEW cur, NEW row, NEW scan
    PROVE  LET g == [f EXCEPT !.touched = touched, !.cur = cur, !.row = row, !.scan = scan]
           IN  Shape(g) /\ g.kind = f.kind /\ g.pc = f.pc /\ g.todo = f.todo
  <1> DEFINE g == [f EXCEPT !.touched = touched, !.cur = cur, !.row = row, !.scan = scan]
  <1>1. g.kind = f.kind /\ g.pc = f.pc /\ g.todo = f.todo BY DEF Shape
  <1>2. g \in [kind : {"none", "append", "merge", "rebuild"}, pc : Pcs, todo : {g.todo},
               page : {g.page}, touched : {g.touched}, cur : {g.cur}, row : {g.row},
               scan : {g.scan}]
    BY DEF Shape
  <1> QED BY <1>1, <1>2 DEF Shape

\* What is left to do of a list of events is as foreign as the list.
LEMMA ForeignTail ==
    ASSUME NEW s, NEW ids, Foreign(s, ids), IsList(s), s # <<>>
    PROVE  Foreign(Tail(s), ids)
  BY ListMoves DEF Foreign

\* A call that has dealt with an event goes to its next statement, or ends.
LEMMA OnwardMoves ==
    ASSUME NEW f, Shape(f), f.kind = "append" => f.todo = <<>>
    PROVE  LET g == Onward(f)
           IN  /\ Shape(g) /\ InPlace(g) /\ g.pc # "insert"
               /\ g.kind \in {f.kind, "none"} /\ g.todo \in {f.todo, <<>>}
  <1>1. CASE f.todo # <<>>
    <2> DEFINE g == [f EXCEPT !.pc = "select"]
    <2>1. Shape(g) /\ g.kind = f.kind /\ g.pc = "select" /\ g.todo = f.todo
      BY FrameGoesOn DEF Pcs
    <2>2. Onward(f) = g BY <1>1 DEF Onward
    <2> HIDE DEF g
    <2> QED BY <1>1, <2>1, <2>2 DEF InPlace
  <1>2. CASE f.todo = <<>> /\ f.touched # {}
    <2> DEFINE g == [f EXCEPT !.pc = "refold"]
    <2>1. Shape(g) /\ g.kind = f.kind /\ g.pc = "refold" /\ g.todo = f.todo
      BY FrameGoesOn DEF Pcs
    <2>2. Onward(f) = g BY <1>2 DEF Onward
    <2> HIDE DEF g
    <2> QED BY <1>2, <2>1, <2>2 DEF InPlace
  <1>3. CASE f.todo = <<>> /\ f.touched = {}
    <2>1. Onward(f) = Idle BY <1>3 DEF Onward
    <2> QED BY <2>1, IdleFrame
  <1> QED BY <1>1, <1>2, <1>3

----------------------------------------------------------------------------
(* The invariant is kept.                                                   *)

\* An event that was not ahead is not ahead of a later clock and sequence.
LEMMA IssuedStays ==
    ASSUME NEW e, IssuedOk(e), lastSeq \in Nat, lastSeq' \in Nat, lastSeq' >= lastSeq,
           clock \in HlcState, clock' \in HlcState, ~StateLess(clock', clock)
    PROVE  IssuedOk(e)'
  <1>1. ClockOf(e.hlc) \in HlcState BY DEF IssuedOk, ClockOf, HlcState
  <1>2. ~StateLess(clock', ClockOf(e.hlc)) BY <1>1 DEF IssuedOk, StateLess, HlcState
  <1> QED BY <1>2 DEF IssuedOk

LEMMA StoreInit == Init => StoreInv
  <1> SUFFICES ASSUME Init PROVE StoreInv
    OBVIOUS
  <1>1. /\ op = [o \in Op |-> op[o]] /\ \A o \in Op : op[o] = Idle
        /\ Own = {}
    BY DEF Init, Own
  <1>2. FramesOk BY <1>1, IdleFrame DEF FramesOk
  <1>3. \A o \in Op : ~Inserting(op[o]) BY <1>1, IdleFrame DEF Inserting
  <1>4. Issued = {} BY <1>1, <1>3 DEF Issued
  <1>5. lastSeq \in Nat /\ clock \in HlcState BY DEF Init, ZeroHlc, HlcState
  <1>6. NumbersApart /\ HasLast BY <1>1, <1>3 DEF NumbersApart, HasLast
  <1> QED BY <1>2, <1>4, <1>5, <1>6 DEF StoreInv

\* A step that inserts nothing and starts no insert.
LEMMA StoreFrame ==
    ASSUME StoreInv, UNCHANGED events,
           lastSeq' \in Nat, lastSeq' >= lastSeq,
           clock' \in HlcState, ~StateLess(clock', clock),
           op' = [o \in Op |-> op'[o]],
           \A o \in Op : \/ op'[o] = op[o]
                         \/ /\ Shape(op'[o]) /\ InPlace(op'[o]) /\ MergeOk(op'[o], Ids)
                            /\ ~Inserting(op'[o])
    PROVE  StoreInv'
  <1>1. Own' = Own /\ Ids' = Ids BY DEF Own, Ids
  <1>2. FramesOk' BY <1>1 DEF StoreInv, FramesOk
  <1>3. \A o \in Op : Inserting(op'[o]) => op'[o] = op[o] OBVIOUS
  <1>4. Issued' \subseteq Issued BY <1>1, <1>3 DEF Issued
  <1>5. \A e \in Issued' : IssuedOk(e)' BY <1>4, IssuedStays DEF StoreInv
  <1>6. \A e, f \in Issued' : e.id[2] < f.id[2] => Before(e, f) BY <1>4 DEF StoreInv
  <1>7. NumbersApart' BY <1>1, <1>3 DEF StoreInv, NumbersApart
  <1>8. HasLast' BY <1>1 DEF StoreInv, HasLast
  <1> QED BY <1>2, <1>5, <1>6, <1>7, <1>8 DEF StoreInv

\* The same, for the step of one call.
LEMMA CallFrame ==
    ASSUME StoreInv, UNCHANGED <<events, lastSeq>>, NEW o \in Op,
           clock' = clock \/ (clock' \in HlcState /\ StateLess(clock, clock')),
           NEW f, op' = [op EXCEPT ![o] = f],
           Shape(f), InPlace(f), MergeOk(f, Ids), ~Inserting(f)
    PROVE  StoreInv'
  <1>1. clock' \in HlcState /\ ~StateLess(clock', clock)
    BY DEF StoreInv, HlcState, StateLess
  <1>2. /\ op' = [p \in Op |-> op'[p]]
        /\ op'[o] = f /\ \A p \in Op \ {o} : op'[p] = op[p]
    BY DEF StoreInv, FramesOk
  <1>3. lastSeq' \in Nat /\ lastSeq' >= lastSeq BY DEF StoreInv
  <1> QED BY <1>1, <1>2, <1>3, StoreFrame

\* The fields of an event are those of its envelope.
LEMMA JoinedFields ==
    ASSUME NEW envelope, NEW payload, NEW x \in DOMAIN envelope
    PROVE  x \in DOMAIN Joined(envelope, payload) /\ Joined(envelope, payload)[x] = envelope[x]
  BY DEF Joined

LEMMA JoinedRest ==
    ASSUME NEW envelope, NEW payload, NEW x \in DOMAIN payload, x \notin DOMAIN envelope
    PROVE  x \in DOMAIN Joined(envelope, payload) /\ Joined(envelope, payload)[x] = payload[x]
  BY DEF Joined

\* append() takes a number nobody has, and a stamp after all others.
LEMMA StampKeeps ==
    ASSUME StoreInv, NEW o \in Op, NEW payload, StampAndInsert(o, payload),
           UNCHANGED events, ~Inserting(op[o])
    PROVE  StoreInv'
  <1>1. PICK e, f :
           /\ e = Joined([id |-> <<Me, lastSeq + 1>>, hlc |-> Stamp(clock', Me)], payload)
           /\ f = [Frame("append", "insert") EXCEPT !.todo = <<e>>]
           /\ op' = [op EXCEPT ![o] = f]
    BY DEF StampAndInsert
  <1>2. /\ clock \in HlcState /\ clock' \in HlcState /\ StateLess(clock, clock')
        /\ lastSeq \in Nat /\ lastSeq' = lastSeq + 1
    <2>1. \E now \in Readings : clock' = Tick(clock, now) /\ lastSeq' = lastSeq + 1
      BY DEF StampAndInsert
    <2> QED BY <2>1, TickAdvances, ReadingsAssumption DEF StoreInv
  <1>3. op' = [op EXCEPT ![o] = f] BY <1>1
  <1>4. e.id = <<Me, lastSeq + 1>> /\ e.hlc = Stamp(clock', Me) /\ IsEvent(e)
    <2> DEFINE envelope == [id |-> <<Me, lastSeq + 1>>, hlc |-> Stamp(clock', Me)]
    <2>1. /\ "id" \in DOMAIN envelope /\ "hlc" \in DOMAIN envelope
          /\ envelope["id"] = <<Me, lastSeq + 1>> /\ envelope["hlc"] = Stamp(clock', Me)
      OBVIOUS
    <2> HIDE DEF envelope
    <2>2. e = Joined(envelope, payload) BY <1>1 DEF envelope
    <2> QED BY <2>1, <2>2, JoinedFields DEF IsEvent
  <1>5. f.todo = <<e>> BY <1>1, AppendStarts, Zenon
  <1>6. f.kind = "append" /\ f.pc = "insert" /\ Shape(f) BY <1>1, AppendStarts, Zenon
  <1>7. InPlace(f) /\ MergeOk(f, Ids) /\ Inserting(f) /\ Head(f.todo) = e
    BY <1>5, <1>6, ListOfOne DEF InPlace, MergeOk, Inserting
  <1>8. /\ op' = [p \in Op |-> op'[p]]
        /\ op'[o] = f /\ \A p \in Op \ {o} : op'[p] = op[p]
    BY <1>3 DEF StoreInv, FramesOk
  <1>9. Own' = Own /\ Ids' = Ids BY DEF Own, Ids
  <1>10. FramesOk' BY <1>6, <1>7, <1>8, <1>9 DEF StoreInv, FramesOk
  <1>11. Issued' \subseteq Issued \cup {e}
    BY <1>7, <1>8, <1>9 DEF Issued
  <1>12. IssuedOk(e)'
    <2>1. e.hlc \in [l : Nat, c : Nat, dev : {Me}] /\ ClockOf(e.hlc) = clock'
      BY <1>2, <1>4 DEF Stamp, ClockOf, HlcState
    <2>2. ~StateLess(clock', clock') BY <1>2 DEF StateLess, HlcState
    <2>3. e.id = <<Me, e.id[2]>> /\ e.id[2] \in 1..lastSeq' BY <1>2, <1>4
    <2> QED BY <1>4, <2>1, <2>2, <2>3 DEF IssuedOk
  <1>13. \A g \in Issued : IssuedOk(g)'
    <2>1. ~StateLess(clock', clock) BY <1>2 DEF StateLess, HlcState
    <2>2. lastSeq' \in Nat /\ lastSeq' >= lastSeq BY <1>2
    <2> QED BY <1>2, <2>1, <2>2, IssuedStays DEF StoreInv
  <1>14. ASSUME NEW g \in Issued PROVE g.id[2] \in Nat /\ g.id[2] < e.id[2] /\ Before(g, e)
    <2>1. IssuedOk(g) BY DEF StoreInv
    <2>2. g.id[2] \in Nat /\ g.id[2] < e.id[2] BY <1>2, <1>4, <2>1 DEF IssuedOk
    <2>3. Before(g, e)
      BY <1>2, <1>4, <2>1
      DEF IssuedOk, Before, StampLess, StateLess, Stamp, ClockOf, HlcState
    <2> QED BY <2>2, <2>3
  <1>15. \A g, k \in Issued' : g.id[2] < k.id[2] => Before(g, k)
    <2>1. e.id[2] \in Nat BY <1>2, <1>4
    <2> QED BY <1>11, <1>14, <2>1 DEF StoreInv
  <1>16. e.id \notin Ids
    <2> SUFFICES ASSUME NEW g \in events, g.id = e.id PROVE FALSE
      BY DEF Ids
    <2>1. g \in Issued BY <1>4 DEF Own, Issued
    <2>2. g.id[2] < g.id[2] /\ g.id[2] \in Nat BY <1>14, <2>1
    <2> QED BY <2>2
  <1>17. \A p \in Op \ {o} : Inserting(op[p]) => Head(op[p].todo).id # e.id
    <2> SUFFICES ASSUME NEW p \in Op \ {o}, Inserting(op[p]), Head(op[p].todo).id = e.id
                 PROVE  FALSE
      OBVIOUS
    <2>1. Head(op[p].todo) \in Issued BY DEF Issued
    <2>2. e.id[2] < e.id[2] /\ e.id[2] \in Nat BY <1>14, <2>1
    <2> QED BY <2>2
  <1>18. NumbersApart'
    BY <1>7, <1>8, <1>9, <1>16, <1>17 DEF StoreInv, NumbersApart
  <1>19. HasLast' BY <1>9 DEF StoreInv, HasLast
  <1> QED BY <1>2, <1>10, <1>11, <1>12, <1>13, <1>15, <1>18, <1>19 DEF StoreInv

\* INSERT moves an event of an append into the table as it is; a merge inserts
\* no event of this device.
LEMMA InsertKeeps ==
    ASSUME StoreInv, NEW o \in Op, Insert(o)
    PROVE  StoreInv'
  <1> DEFINE h == Head(op[o].todo)
  <1>1. PICK e : /\ e = Joined([received |-> op[o].kind = "merge"], h)
                 /\ events' = events \cup {e}
    BY DEF Insert
  <1>2. /\ op[o].pc = "insert" /\ op' = [op EXCEPT ![o].pc = "resolve"]
        /\ UNCHANGED <<lastSeq, clock>>
    BY DEF Insert
  <1>3. Shape(op[o]) /\ InPlace(op[o]) /\ MergeOk(op[o], Ids) BY DEF StoreInv, FramesOk
  <1>4. op[o].todo # <<>> /\ op[o].kind \in {"append", "merge"}
    BY <1>2, <1>3 DEF InPlace, Shape
  <1>5. IsEvent(h) /\ (op[o].kind = "merge" => h.id[1] # Me)
    <2>1. CASE op[o].kind = "merge"
      BY <1>2, <1>3, <1>4, <2>1, ListMoves DEF MergeOk, Foreign, Shape
    <2>2. CASE op[o].kind = "append"
      <3>1. h \in Issued BY <1>2, <2>2 DEF Issued, Inserting
      <3> QED BY <2>2, <3>1 DEF StoreInv, IssuedOk
    <2> QED BY <1>4, <2>1, <2>2
  <1>6. e.id = h.id /\ e.hlc = h.hlc /\ IsEvent(e)
    <2> DEFINE column == [received |-> op[o].kind = "merge"]
    <2>1. "id" \notin DOMAIN column /\ "hlc" \notin DOMAIN column OBVIOUS
    <2>2. e = Joined(column, h) BY <1>1
    <2> HIDE DEF column, h
    <2> QED BY <1>5, <2>1, <2>2, JoinedRest DEF IsEvent
  <1>7. Ids' = Ids \cup {e.id} BY <1>1 DEF Ids
  <1>8. PICK f : f = [op[o] EXCEPT !.pc = "resolve"] OBVIOUS
  <1>9. /\ op' = [p \in Op |-> op'[p]]
        /\ op'[o] = f /\ \A p \in Op \ {o} : op'[p] = op[p]
    BY <1>2, <1>8 DEF StoreInv, FramesOk
  <1>10. Shape(f) /\ f.kind = op[o].kind /\ f.pc = "resolve" /\ f.todo = op[o].todo
    BY <1>3, <1>8, FrameGoesOn, Zenon DEF Pcs
  <1>11. FramesOk'
    <2>1. InPlace(f) BY <1>2, <1>3, <1>10 DEF InPlace
    <2>2. \A g : MergeOk(g, Ids) => MergeOk(g, Ids') BY <1>7 DEF MergeOk, Foreign
    <2>3. MergeOk(f, Ids) BY <1>3, <1>10 DEF MergeOk
    <2> QED BY <1>9, <1>10, <2>1, <2>2, <2>3 DEF StoreInv, FramesOk
  <1>12. \A p \in Op : Inserting(op'[p]) => p # o /\ op'[p] = op[p] /\ Inserting(op[p])
    BY <1>9, <1>10 DEF Inserting
  <1>13. ASSUME NEW p \in Op, Inserting(op[p])
         PROVE  Head(op[p].todo) \in Issued /\ Head(op[p].todo).id[1] = Me
    <2>1. Head(op[p].todo) \in Issued BY <1>13 DEF Issued
    <2>2. Head(op[p].todo).id = <<Me, Head(op[p].todo).id[2]>> BY <2>1 DEF StoreInv, IssuedOk
    <2> QED BY <2>1, <2>2
  <1>14. CASE op[o].kind = "merge"
    <2>1. Own' = Own BY <1>1, <1>5, <1>6, <1>14 DEF Own
    <2>2. Issued' \subseteq Issued BY <1>12, <2>1 DEF Issued
    <2>3. \A g \in Issued' : IssuedOk(g)' BY <1>2, <2>2 DEF StoreInv, IssuedOk
    <2>4. \A g, k \in Issued' : g.id[2] < k.id[2] => Before(g, k) BY <2>2 DEF StoreInv
    <2>5. \A p \in Op : Inserting(op[p]) => Head(op[p].todo).id # e.id
      BY <1>5, <1>6, <1>13, <1>14
    <2>6. NumbersApart' BY <1>7, <1>12, <2>1, <2>5 DEF StoreInv, NumbersApart
    <2>7. HasLast' BY <2>1 DEF StoreInv, HasLast
    <2> QED BY <1>2, <1>11, <2>3, <2>4, <2>6, <2>7 DEF StoreInv
  <1>15. CASE op[o].kind = "append"
    <2>1. Inserting(op[o]) BY <1>2, <1>15 DEF Inserting
    <2>2. h \in Issued /\ h.id[1] = Me BY <1>13, <2>1
    <2>3. Own' = Own \cup {e} BY <1>1, <1>6, <2>2 DEF Own
    <2>4. Issued' \subseteq Issued \cup {e} BY <1>12, <2>3 DEF Issued
    <2>5. \A g \in Issued' : \E k \in Issued : g.id = k.id /\ g.hlc = k.hlc
      BY <1>6, <2>2, <2>4
    <2>6. \A g \in Issued' : IssuedOk(g)'
      BY <1>2, <1>6, <2>2, <2>4 DEF StoreInv, IssuedOk
    <2>7. \A g, k \in Issued' : g.id[2] < k.id[2] => Before(g, k)
      BY <2>5 DEF StoreInv, Before
    <2>8. \A g \in Own : g.id # e.id BY <1>6, <2>1 DEF StoreInv, NumbersApart, Own, Ids
    <2>9. \A p \in Op \ {o} : Inserting(op[p]) => Head(op[p].todo).id # e.id
      BY <1>6, <2>1 DEF StoreInv, NumbersApart
    <2>10. NumbersApart'
      <3>1. \A g, k \in Own' : g.id = k.id => g = k
        BY <2>3, <2>8 DEF StoreInv, NumbersApart
      <3>2. \A p \in Op : Inserting(op'[p]) => Head(op'[p].todo).id \notin Ids'
        BY <1>7, <1>12, <2>9 DEF StoreInv, NumbersApart
      <3>3. \A p, q \in Op : p # q /\ Inserting(op'[p]) /\ Inserting(op'[q])
                             => Head(op'[p].todo).id # Head(op'[q].todo).id
        BY <1>12 DEF StoreInv, NumbersApart
      <3> QED BY <3>1, <3>2, <3>3 DEF NumbersApart
    <2>11. HasLast'
      <3>1. \A g \in Own : g.id[2] \in Nat BY DEF StoreInv, IssuedOk, Issued
      <3>2. e.id[2] \in Nat BY <1>6, <2>2 DEF StoreInv, IssuedOk
      <3>3. CASE Own = {} BY <2>3, <3>2, <3>3 DEF HasLast
      <3>4. CASE Own # {}
        <4>1. PICK k \in Own : \A g \in Own : g.id[2] <= k.id[2]
          BY <3>4 DEF StoreInv, HasLast
        <4>2. CASE e.id[2] <= k.id[2] BY <2>3, <4>1, <4>2 DEF HasLast
        <4>3. CASE ~(e.id[2] <= k.id[2])
          <5>1. \A g \in Own' : g.id[2] <= e.id[2] BY <2>3, <3>1, <3>2, <4>1, <4>3
          <5> QED BY <2>3, <5>1 DEF HasLast
        <4> QED BY <4>2, <4>3
      <3> QED BY <3>3, <3>4
    <2> QED BY <1>2, <1>11, <2>6, <2>7, <2>10, <2>11 DEF StoreInv
  <1> QED BY <1>4, <1>14, <1>15

\* The seeds of a new clock and a new sequence are not behind the table.
LEMMA SeedsNotBehind ==
    ASSUME StoreInv
    PROVE  /\ DeviceSeed(Own) \in HlcState /\ SeqSeed(Own) \in Nat
           /\ \A e \in Own : /\ e.id[2] <= SeqSeed(Own)
                             /\ ~StateLess(DeviceSeed(Own), ClockOf(e.hlc))
  <1>1. \A e \in Own : IssuedOk(e) BY DEF StoreInv, Issued
  <1>2. CASE Own = {} BY <1>2 DEF DeviceSeed, SeqSeed, ZeroHlc, HlcState
  <1>3. CASE Own # {}
    <2>1. PICK k \in Own : \A f \in Own : f.id[2] <= k.id[2]
      BY <1>3 DEF StoreInv, HasLast
    <2>2. ASSUME NEW f \in Own PROVE f = k \/ Before(f, k)
      <3>1. f.id[2] \in Nat /\ k.id[2] \in Nat /\ f.id = <<Me, f.id[2]>> /\ k.id = <<Me, k.id[2]>>
        BY <1>1 DEF IssuedOk
      <3>2. CASE f.id[2] < k.id[2] BY <3>2 DEF StoreInv, Issued
      <3>3. CASE f.id[2] = k.id[2] BY <3>1, <3>3 DEF StoreInv, NumbersApart
      <3> QED BY <2>1, <3>1, <3>2, <3>3
    <2> DEFINE last == CHOOSE e \in Own : \A f \in Own : f = e \/ Before(f, e)
    <2>3. last \in Own /\ \A f \in Own : f = last \/ Before(f, last) BY <2>2
    <2>4. DeviceSeed(Own) = ClockOf(last.hlc) BY <1>3 DEF DeviceSeed
    <2> HIDE DEF last
    <2>5. \A f \in Own : ~StateLess(ClockOf(last.hlc), ClockOf(f.hlc))
      <3> SUFFICES ASSUME NEW f \in Own PROVE ~StateLess(ClockOf(last.hlc), ClockOf(f.hlc))
        OBVIOUS
      <3>1. /\ f.hlc \in [l : Nat, c : Nat, dev : {Me}]
            /\ last.hlc \in [l : Nat, c : Nat, dev : {Me}]
        BY <1>1, <2>3 DEF IssuedOk
      <3>2. f.hlc = last.hlc \/ StampLess(f.hlc, last.hlc) BY <2>3 DEF Before
      <3>3. f.hlc = last.hlc \/ StateLess(f.hlc, last.hlc)
        BY <3>1, <3>2, MeAssumption DEF StampLess
      <3> QED BY <3>1, <3>3 DEF StateLess, ClockOf
    <2>6. ClockOf(last.hlc) \in HlcState
      BY <1>1, <2>3 DEF IssuedOk, ClockOf, HlcState
    <2> DEFINE S == {e.id[2] : e \in Own}
    <2>7. SeqSeed(Own) = Max(S) BY <1>3 DEF SeqSeed
    <2>8. /\ \A n \in S : n \in Nat
          /\ k.id[2] \in S /\ \A n \in S : k.id[2] >= n
      BY <1>1, <2>1 DEF IssuedOk
    <2> HIDE DEF S
    <2>9. Max(S) \in S /\ \A n \in S : Max(S) >= n BY <2>8 DEF Max
    <2>10. SeqSeed(Own) \in Nat /\ \A e \in Own : e.id[2] <= SeqSeed(Own)
      BY <2>7, <2>8, <2>9 DEF S
    <2> QED BY <2>4, <2>5, <2>6, <2>10
  <1> QED BY <1>2, <1>3

LEMMA KillKeeps ==
    ASSUME StoreInv, Kill
    PROVE  StoreInv'
  <1>1. /\ events' = events /\ clock' = DeviceSeed(Own) /\ lastSeq' = SeqSeed(Own)
        /\ op' = [o \in Op |-> op'[o]] /\ \A o \in Op : op'[o] = Idle
    BY DEF Kill, tables
  <1>2. Own' = Own /\ Ids' = Ids BY <1>1 DEF Own, Ids
  <1>3. FramesOk' BY <1>1, IdleFrame DEF FramesOk
  <1>4. \A o \in Op : ~Inserting(op'[o]) BY <1>1, IdleFrame DEF Inserting
  <1>5. Issued' = Own BY <1>2, <1>4 DEF Issued
  <1>6. \A e \in Own : IssuedOk(e) /\ e \in Issued BY DEF StoreInv, Issued
  <1>7. \A e \in Own : IssuedOk(e)' BY <1>1, <1>6, SeedsNotBehind DEF IssuedOk
  <1>8. \A e, f \in Issued' : e.id[2] < f.id[2] => Before(e, f)
    BY <1>5, <1>6 DEF StoreInv
  <1>9. NumbersApart' BY <1>2, <1>4 DEF StoreInv, NumbersApart
  <1>10. HasLast' BY <1>2 DEF StoreInv, HasLast
  <1> QED BY <1>1, <1>3, <1>5, <1>7, <1>8, <1>9, <1>10, SeedsNotBehind DEF StoreInv

\* The pages a pull may bring are lists of foreign events.
LEMMA PagesAreForeign ==
    ASSUME StoreInv, NEW page \in Pages
    PROVE  IsList(page) /\ page # <<>> /\ Foreign(page, Ids)
  <1>1. CASE page \in RemotePages
    <2>1. page \in Seq(UNION {ToSet(p) : p \in RemotePages}) /\ page # <<>>
      BY <1>1, PagesAssumption
    <2>2. \A i \in DOMAIN page : page[i] \in ToSet(page) BY DEF ToSet
    <2> QED BY <1>1, <2>1, <2>2, PagesAssumption DEF IsList, Foreign, IsEvent
  <1>2. CASE \E e \in Own : page = <<e>>
    <2>1. PICK e \in Own : page = <<e>> BY <1>2
    <2>2. IssuedOk(e) /\ e.id \in Ids BY DEF StoreInv, Issued, Own, Ids
    <2>3. ClockOf(e.hlc) \in HlcState BY <2>2 DEF IssuedOk, ClockOf, HlcState
    <2> QED BY <2>1, <2>2, <2>3, ListOfOne DEF Foreign, IssuedOk
  <1> QED BY <1>1, <1>2 DEF Pages

\* A merge that has dealt with the head of its events.
LEMMA MergeGoesOn ==
    ASSUME StoreInv, NEW o \in Op, op[o].kind = "merge", op[o].todo # <<>>
    PROVE  LET f == Onward(Dropped(op[o]))
           IN  Shape(f) /\ InPlace(f) /\ MergeOk(f, Ids) /\ ~Inserting(f)
  <1> DEFINE g == Dropped(op[o])
             f == Onward(g)
  <1>1. Shape(op[o]) /\ Foreign(op[o].todo, Ids) BY DEF StoreInv, FramesOk, MergeOk
  <1>2. Shape(g) /\ g.kind = "merge" /\ g.todo = Tail(op[o].todo) BY <1>1, FrameDrops
  <1>3. Foreign(g.todo, Ids) BY <1>1, <1>2, ForeignTail DEF Shape
  <1> HIDE DEF g
  <1>4. /\ Shape(f) /\ InPlace(f) /\ f.pc # "insert" /\ f.todo \in {g.todo, <<>>}
    BY <1>2, OnwardMoves
  <1> HIDE DEF f
  <1>5. Foreign(f.todo, Ids) BY <1>3, <1>4, NoList DEF Foreign
  <1>6. MergeOk(f, Ids) /\ ~Inserting(f) BY <1>4, <1>5 DEF MergeOk, Inserting
  <1> QED BY <1>4, <1>6 DEF f, g

\* A call goes on with the events it has, which are none if it is an append.
LEMMA PlainMove ==
    ASSUME StoreInv, NEW o \in Op, NEW g, Shape(g), g.kind = op[o].kind, g.todo = op[o].todo,
           op[o].pc \notin {"select", "mark", "insert", "resolve"},
           g.pc \notin {"select", "mark", "insert", "resolve"},
           NEW f, f = g \/ f = Onward(g)
    PROVE  Shape(f) /\ InPlace(f) /\ MergeOk(f, Ids) /\ ~Inserting(f)
  <1>1. InPlace(op[o]) /\ MergeOk(op[o], Ids) BY DEF StoreInv, FramesOk
  <1>2. g.kind = "append" => g.todo = <<>> BY <1>1 DEF InPlace
  <1>3. CASE f = g
    BY <1>1, <1>2, <1>3 DEF InPlace, MergeOk, Inserting
  <1>4. CASE f = Onward(g)
    <2>1. /\ Shape(f) /\ InPlace(f) /\ f.pc # "insert"
          /\ f.kind \in {g.kind, "none"} /\ f.todo \in {g.todo, <<>>}
      BY <1>2, <1>4, OnwardMoves
    <2>2. f.kind = "merge" => Foreign(f.todo, Ids)
      BY <1>1, <2>1, NoList DEF MergeOk, Foreign
    <2> QED BY <2>1, <2>2 DEF MergeOk, Inserting
  <1> QED BY <1>3, <1>4

LEMMA StoreStep == StoreInv /\ [Next]_vars => StoreInv'
  <1> SUFFICES ASSUME StoreInv, [Next]_vars PROVE StoreInv'
    OBVIOUS
  <1>f. \A o \in Op : Shape(op[o]) /\ InPlace(op[o]) /\ MergeOk(op[o], Ids)
    BY DEF StoreInv, FramesOk
  <1>i. \A o \in Op : ~Busy(o) => ~Inserting(op[o]) BY IdleFrame DEF Busy, Inserting
  <1>1. ASSUME NEW o \in Op, NEW d, AppendEvent(o, d) PROVE StoreInv'
    BY <1>1, <1>i, StampKeeps DEF AppendEvent, tables
  <1>2. ASSUME NEW o \in Op, AppendRefused(o) PROVE StoreInv'
    <2>1. /\ clock \in HlcState /\ clock' \in HlcState /\ StateLess(clock, clock')
      BY <1>2, TickAdvances, ReadingsAssumption DEF AppendRefused, StoreInv
    <2>2. ~StateLess(clock', clock) BY <2>1 DEF StateLess, HlcState
    <2>3. lastSeq' \in Nat /\ lastSeq' >= lastSeq BY <1>2 DEF AppendRefused, StoreInv
    <2>4. op' = op /\ op' = [p \in Op |-> op'[p]] BY <1>2 DEF AppendRefused, StoreInv, FramesOk
    <2> QED BY <1>2, <2>1, <2>2, <2>3, <2>4, StoreFrame DEF AppendRefused, tables
  <1>3. ASSUME NEW o \in Op, NEW c, Archive(o, c) PROVE StoreInv'
    <2>1. PICK f : /\ f = [Frame("append", "check") EXCEPT !.cur = {c}]
                   /\ op' = [op EXCEPT ![o] = f]
      BY <1>3 DEF Archive
    <2>2. Shape(f) /\ f.kind = "append" /\ f.pc = "check" /\ f.todo = <<>>
      BY <2>1, ArchiveStarts, Zenon
    <2>3. InPlace(f) /\ MergeOk(f, Ids) /\ ~Inserting(f) BY <2>2 DEF InPlace, MergeOk, Inserting
    <2> QED BY <1>3, <2>1, <2>2, <2>3, CallFrame DEF Archive, tables
  <1>4. ASSUME NEW o \in Op, NEW c, CheckArchive(o, c) PROVE StoreInv'
    <2>1. ~Inserting(op[o]) /\ UNCHANGED events BY <1>4 DEF CheckArchive, Inserting, tables
    <2>2. CASE StampAndInsert(o, [type |-> "CUSTOMER_ARCHIVED", customer |-> c])
      BY <2>1, <2>2, StampKeeps
    <2>3. CASE op' = [op EXCEPT ![o] = Idle] /\ UNCHANGED <<lastSeq, clock>>
      BY <2>1, <2>3, IdleFrame, CallFrame DEF Inserting
    <2> QED BY <1>4, <2>2, <2>3 DEF CheckArchive
  <1>5. ASSUME NEW o \in Op, NEW page \in Pages, Merge(o, page) PROVE StoreInv'
    <2>1. PICK f : /\ f = [Frame("merge", "select") EXCEPT !.todo = page, !.page = page]
                   /\ op' = [op EXCEPT ![o] = f]
      BY <1>5 DEF Merge
    <2>2. IsList(page) /\ page # <<>> /\ Foreign(page, Ids) BY PagesAreForeign
    <2>3. Shape(f) /\ f.kind = "merge" /\ f.pc = "select" /\ f.todo = page
      BY <2>1, <2>2, MergeStarts, Zenon
    <2>4. InPlace(f) /\ MergeOk(f, Ids) /\ ~Inserting(f)
      BY <2>2, <2>3 DEF InPlace, MergeOk, Inserting
    <2> QED BY <1>5, <2>1, <2>3, <2>4, CallFrame DEF Merge, tables
  <1>6. ASSUME NEW o \in Op, Rebuild(o) PROVE StoreInv'
    <2>1. PICK f : f = Frame("rebuild", "dropCustomers") /\ op' = [op EXCEPT ![o] = f]
      BY <1>6 DEF Rebuild
    <2>2. Shape(f) /\ f.kind = "rebuild" /\ f.pc = "dropCustomers" /\ f.todo = <<>>
      BY <2>1, RebuildStarts, Zenon
    <2>3. InPlace(f) /\ MergeOk(f, Ids) /\ ~Inserting(f) BY <2>2 DEF InPlace, MergeOk, Inserting
    <2> QED BY <1>6, <2>1, <2>2, <2>3, CallFrame DEF Rebuild, tables
  <1>7. ASSUME NEW o \in Op, Select(o) PROVE StoreInv'
    <2>1. op[o].pc = "select" /\ UNCHANGED <<events, lastSeq, clock>> BY <1>7 DEF Select, tables
    <2>2. op[o].kind = "merge" /\ op[o].todo # <<>> BY <1>f, <2>1 DEF InPlace, Shape
    <2>3. CASE op' = [op EXCEPT ![o] = Onward(Dropped(op[o]))]
      BY <2>1, <2>2, <2>3, MergeGoesOn, CallFrame
    <2>4. ASSUME NEW pc \in {"mark", "insert"}, pc = "insert" => Head(op[o].todo).id \notin Ids,
                 op' = [op EXCEPT ![o] = [op[o] EXCEPT !.pc = pc]]
          PROVE  StoreInv'
      <3>1. PICK f : f = [op[o] EXCEPT !.pc = pc] /\ op' = [op EXCEPT ![o] = f] BY <2>4
      <3>2. pc \in Pcs BY DEF Pcs
      <3>3. Shape(f) /\ f.kind = "merge" /\ f.pc = pc /\ f.todo = op[o].todo
        BY <1>f, <2>2, <3>1, <3>2, FrameGoesOn, Zenon
      <3>4. Foreign(op[o].todo, Ids) BY <1>f, <2>2 DEF MergeOk
      <3>5. pc = "insert" => Head(f.todo).id[1] # Me
        BY <1>f, <2>2, <2>4, <3>3, <3>4, ListMoves DEF Foreign, Shape
      <3>6. InPlace(f) /\ MergeOk(f, Ids) /\ ~Inserting(f)
        BY <2>2, <3>3, <3>4, <3>5 DEF InPlace, MergeOk, Inserting
      <3> QED BY <2>1, <3>1, <3>3, <3>6, CallFrame
    <2> QED BY <1>7, <2>3, <2>4 DEF Select
  <1>8. ASSUME NEW o \in Op, Mark(o) PROVE StoreInv'
    <2>1. /\ op[o].pc = "mark" /\ UNCHANGED <<events, lastSeq, clock>>
          /\ op' = [op EXCEPT ![o] = Onward(Dropped(op[o]))]
      BY <1>8 DEF Mark
    <2>2. op[o].kind = "merge" /\ op[o].todo # <<>> BY <1>f, <2>1 DEF InPlace, Shape
    <2> QED BY <2>1, <2>2, MergeGoesOn, CallFrame
  <1>9. ASSUME NEW o \in Op, Insert(o) PROVE StoreInv'
    BY <1>9, InsertKeeps
  <1>10. ASSUME NEW o \in Op, Resolve(o) PROVE StoreInv'
    <2>1. op[o].pc = "resolve" /\ UNCHANGED <<events, lastSeq>> BY <1>10 DEF Resolve, tables
    <2>2. op[o].todo # <<>> /\ op[o].kind \in {"append", "merge"}
      BY <1>f, <2>1 DEF InPlace, Shape
    <2> DEFINE g == Dropped(op[o])
    <2>3. PICK k, f : /\ k = [g EXCEPT !.touched = @ \cup Owners(events, Head(op[o].todo))]
                      /\ f = Onward(k) /\ op' = [op EXCEPT ![o] = f]
      BY <1>10 DEF Resolve
    <2>4. Shape(g) /\ g.kind = op[o].kind /\ g.todo = Tail(op[o].todo)
      BY <1>f, <2>2, FrameDrops
    <2> HIDE DEF g
    <2>5. /\ k.kind = g.kind /\ k.todo = g.todo
          /\ k \in [kind : {"none", "append", "merge", "rebuild"}, pc : Pcs, todo : {k.todo},
                    page : {k.page}, touched : {k.touched}, cur : {k.cur}, row : {k.row},
                    scan : {k.scan}]
      BY <2>3, <2>4 DEF Shape
    <2>6. Shape(k) BY <2>4, <2>5 DEF Shape
    <2>7. k.kind = "append" => k.todo = <<>> BY <1>f, <2>2, <2>4, <2>5 DEF InPlace
    <2>8. /\ Shape(f) /\ InPlace(f) /\ f.pc # "insert"
          /\ f.kind \in {k.kind, "none"} /\ f.todo \in {k.todo, <<>>}
      BY <2>3, <2>6, <2>7, OnwardMoves
    <2>9. f.kind = "merge" => Foreign(f.todo, Ids)
      <3>1. op[o].kind = "merge" => Foreign(g.todo, Ids)
        BY <1>f, <2>2, <2>4, ForeignTail DEF MergeOk, Shape
      <3> QED BY <2>4, <2>5, <2>8, <3>1, NoList DEF Foreign
    <2>10. MergeOk(f, Ids) /\ ~Inserting(f) BY <2>8, <2>9 DEF MergeOk, Inserting
    <2>11. clock' = clock \/ (clock' \in HlcState /\ StateLess(clock, clock'))
      <3>1. CASE op[o].kind = "merge"
        <4>1. ClockOf(Head(op[o].todo).hlc) \in HlcState
          BY <1>f, <2>2, <3>1, ListMoves DEF MergeOk, Foreign, Shape
        <4>2. \E now \in Readings :
                 clock' = TickReceive(clock, ClockOf(Head(op[o].todo).hlc), now)
          BY <1>10, <3>1 DEF Resolve
        <4> QED BY <4>1, <4>2, ReceiveAdvances, ReadingsAssumption DEF StoreInv
      <3>2. CASE op[o].kind # "merge" BY <1>10, <3>2 DEF Resolve
      <3> QED BY <3>1, <3>2
    <2> QED BY <2>1, <2>3, <2>8, <2>10, <2>11, CallFrame
  <1>11. ASSUME NEW o \in Op, NEW c, Refold(o, c) \/ WriteCustomer(o, c) \/ WriteBalance(o, c)
         PROVE  StoreInv'
    <2>1. /\ op[o].pc \in {"refold", "writeCustomer", "writeBalance"}
          /\ UNCHANGED <<events, lastSeq, clock>>
      BY <1>11 DEF Refold, WriteCustomer, WriteBalance, tables
    <2>2. PICK g, f : /\ op' = [op EXCEPT ![o] = f] /\ (f = g \/ f = Onward(g))
                      /\ \/ \E row : g = [op[o] EXCEPT !.pc = "writeCustomer", !.cur = {c},
                                                       !.row = row]
                         \/ g = [op[o] EXCEPT !.pc = "writeBalance"]
                         \/ g = [op[o] EXCEPT !.touched = @ \ {c}, !.cur = {}, !.row = <<>>]
      <3>1. CASE Refold(o, c) BY <3>1 DEF Refold
      <3>2. CASE WriteCustomer(o, c) BY <3>2 DEF WriteCustomer
      <3>3. CASE WriteBalance(o, c) BY <3>3 DEF WriteBalance
      <3> QED BY <1>11, <3>1, <3>2, <3>3
    <2>3. /\ g.kind = op[o].kind /\ g.todo = op[o].todo
          /\ g.pc \in {"refold", "writeCustomer", "writeBalance"}
          /\ g \in [kind : {"none", "append", "merge", "rebuild"}, pc : Pcs, todo : {g.todo},
                    page : {g.page}, touched : {g.touched}, cur : {g.cur}, row : {g.row},
                    scan : {g.scan}]
      BY <1>f, <2>1, <2>2 DEF Shape, Pcs
    <2>4. Shape(g) BY <1>f, <2>3 DEF Shape
    <2>5. Shape(f) /\ InPlace(f) /\ MergeOk(f, Ids) /\ ~Inserting(f)
      BY <2>1, <2>2, <2>3, <2>4, PlainMove
    <2> QED BY <2>1, <2>2, <2>5, CallFrame
  <1>12. ASSUME NEW o \in Op, DropCustomers(o) \/ DropBalances(o) \/ Scan(o)
         PROVE  StoreInv'
    <2>1. /\ op[o].pc \in {"dropCustomers", "dropBalances", "scan"}
          /\ UNCHANGED <<events, lastSeq, clock>>
      BY <1>12 DEF DropCustomers, DropBalances, Scan, tables
    <2>2. PICK g, f : /\ op' = [op EXCEPT ![o] = f] /\ (f = g \/ f = Onward(g))
                      /\ \/ g = [op[o] EXCEPT !.pc = "dropBalances"]
                         \/ g = [op[o] EXCEPT !.pc = "scan"]
                         \/ \E found : g = [op[o] EXCEPT !.touched = found, !.scan = events]
      <3>1. CASE DropCustomers(o) BY <3>1 DEF DropCustomers
      <3>2. CASE DropBalances(o) BY <3>2 DEF DropBalances
      <3>3. CASE Scan(o) BY <3>3 DEF Scan
      <3> QED BY <1>12, <3>1, <3>2, <3>3
    <2>3. /\ g.kind = op[o].kind /\ g.todo = op[o].todo
          /\ g.pc \in {"dropCustomers", "dropBalances", "scan"}
          /\ g \in [kind : {"none", "append", "merge", "rebuild"}, pc : Pcs, todo : {g.todo},
                    page : {g.page}, touched : {g.touched}, cur : {g.cur}, row : {g.row},
                    scan : {g.scan}]
      BY <1>f, <2>1, <2>2 DEF Shape, Pcs
    <2>4. Shape(g) BY <1>f, <2>3 DEF Shape
    <2>5. Shape(f) /\ InPlace(f) /\ MergeOk(f, Ids) /\ ~Inserting(f)
      BY <2>1, <2>2, <2>3, <2>4, PlainMove
    <2> QED BY <2>1, <2>2, <2>5, CallFrame
  <1>13. ASSUME NEW o \in Op, Throw(o) PROVE StoreInv'
    <2>1. op' = [op EXCEPT ![o] = Idle] /\ UNCHANGED <<events, lastSeq, clock>>
      BY <1>13 DEF Throw, tables
    <2> QED BY <2>1, IdleFrame, CallFrame DEF Inserting
  <1>14. CASE Kill BY <1>14, KillKeeps
  <1>15. CASE UNCHANGED vars
    <2>1. UNCHANGED <<events, lastSeq, clock, op>> BY <1>15 DEF vars, tables
    <2>2. ~StateLess(clock, clock) BY DEF StoreInv, HlcState, StateLess
    <2>3. op = [o \in Op |-> op[o]] BY DEF StoreInv, FramesOk
    <2>4. lastSeq' \in Nat /\ lastSeq' >= lastSeq /\ clock' \in HlcState BY <2>1 DEF StoreInv
    <2> QED BY <2>1, <2>2, <2>3, <2>4, StoreFrame
  <1> QED
    BY <1>1, <1>2, <1>3, <1>4, <1>5, <1>6, <1>7, <1>8, <1>9, <1>10, <1>11, <1>12, <1>13,
       <1>14, <1>15 DEF Next

\* The numbers of a device's events are in the order of their stamps, whatever
\* calls overlap, fail or are killed: the new clock and the new sequence start
\* from rows that agree on what came last.
THEOREM NumbersFollowStamps == Spec => []SeqFollowsStamp
  <1>1. StoreInv => SeqFollowsStamp
    <2> SUFFICES ASSUME StoreInv, NEW e \in Own, NEW f \in Own
                 PROVE  e.id[2] < f.id[2] <=> Before(e, f)
      BY DEF SeqFollowsStamp
    <2>1. IssuedOk(e) /\ IssuedOk(f) /\ e \in Issued /\ f \in Issued BY DEF StoreInv, Issued
    <2>2. e.id[2] < f.id[2] => Before(e, f) BY <2>1 DEF StoreInv
    <2>3. f.id[2] < e.id[2] => Before(f, e) BY <2>1 DEF StoreInv
    <2>4. e.id[2] = f.id[2] => e = f BY <2>1 DEF IssuedOk, StoreInv, NumbersApart
    <2>5. ~(Before(e, f) /\ Before(f, e)) /\ ~Before(e, e)
      BY <2>1, MeAssumption DEF IssuedOk, Before, StampLess, StateLess
    <2>6. e.id[2] \in Nat /\ f.id[2] \in Nat BY <2>1 DEF IssuedOk
    <2> QED BY <2>2, <2>3, <2>4, <2>5, <2>6
  <1> QED BY <1>1, StoreInit, StoreStep, PTL DEF Spec

----------------------------------------------------------------------------
(* The table and what is on its way into it.                                *)

\* What is in the table was written here or sent by a peer; no two rows carry
\* the same stamp.
TableOk ==
    /\ IsFiniteSet(events)
    /\ \A e \in events : PayloadOk(e)
    /\ \A e \in events \ Own : \E s \in Sendable : e.id = s.id /\ e.hlc = s.hlc
    /\ \A e, f \in events : e.hlc = f.hlc => e = f

\* What a merge has to do is what a peer sent or this device wrote, and the
\* event it is about to insert is not in the table: no other call inserts it.
Queued(f) ==
    /\ \A i \in DOMAIN f.todo :
          IF f.kind = "merge" THEN f.todo[i] \in Sendable \cup Own ELSE PayloadOk(f.todo[i])
    /\ f.kind = "merge" /\ f.pc = "insert" => Head(f.todo).id \notin Ids

QueuesOk ==
    /\ \A o \in Op : Queued(op[o])
    /\ \A o, p \in Op : op[o].kind = "merge" /\ op[p].kind = "merge" => o = p

TableInv == TableOk /\ QueuesOk

\* The table is a log the fold is defined on.
LEMMA TableIsLog ==
    StoreInv /\ TableOk => Stamped(events) /\ Typed(events)
  <1> SUFFICES ASSUME StoreInv, TableOk PROVE Stamped(events) /\ Typed(events)
    OBVIOUS
  <1>1. ASSUME NEW e \in events PROVE e.hlc \in [l : Nat, c : Nat, dev : Nat]
    <2>1. CASE e \in Own
      <3>1. IssuedOk(e) BY <2>1 DEF StoreInv, Issued
      <3> QED BY <3>1, MeAssumption DEF IssuedOk
    <2>2. CASE e \notin Own
      <3>1. PICK s \in Sendable : e.hlc = s.hlc BY <2>2 DEF TableOk
      <3>2. s.hlc \in [l : Nat, c : Nat, dev : Nat \ {Me}] BY StampsAssumption
      <3> QED BY <3>1, <3>2
    <2> QED BY <2>1, <2>2
  <1>2. Stamped(events) BY <1>1 DEF TableOk, Stamped
  <1>3. Typed(events) BY DEF TableOk, PayloadOk, Typed
  <1> QED BY <1>2, <1>3

LEMMA TableInit == Init => TableInv
  <1> SUFFICES ASSUME Init PROVE TableInv
    OBVIOUS
  <1>1. events = {} /\ Own = {} /\ \A o \in Op : op[o] = Idle
    BY DEF Init, Own
  <1>2. TableOk BY <1>1, FS_EmptySet DEF TableOk
  <1>3. QueuesOk BY <1>1, IdleFrame, NoList DEF QueuesOk, Queued
  <1> QED BY <1>2, <1>3 DEF TableInv

\* What one call changes.
LEMMA CallMoves ==
    ASSUME StoreInv, NEW o \in Op, NEW f, op' = [op EXCEPT ![o] = f]
    PROVE  /\ op' = [p \in Op |-> op'[p]]
           /\ op'[o] = f /\ \A p \in Op \ {o} : op'[p] = op[p]
  BY DEF StoreInv, FramesOk

\* A step that inserts nothing.
LEMMA TableFrame ==
    ASSUME StoreInv, TableInv, UNCHANGED events, NEW o \in Op, NEW f, op' = [op EXCEPT ![o] = f],
           f.kind = "merge" => op[o].kind = "merge" \/ \A p \in Op : op[p].kind # "merge",
           Queued(f)
    PROVE  TableInv'
  <1>1. op'[o] = f /\ \A p \in Op \ {o} : op'[p] = op[p] BY CallMoves
  <1>2. Own' = Own /\ Ids' = Ids BY DEF Own, Ids
  <1>3. TableOk' BY <1>2 DEF TableInv, TableOk
  <1>4. ASSUME NEW p \in Op PROVE Queued(op[p])'
    <2>1. Queued(op'[p]) BY <1>1 DEF TableInv, QueuesOk
    <2> QED BY <1>2, <2>1 DEF Queued
  <1>5. \A p, q \in Op : op'[p].kind = "merge" /\ op'[q].kind = "merge" => p = q
    BY <1>1 DEF TableInv, QueuesOk
  <1>6. QueuesOk' BY <1>4, <1>5 DEF QueuesOk
  <1> QED BY <1>3, <1>6 DEF TableInv

\* What is left of a queue.
LEMMA QueuedTail ==
    ASSUME NEW f, NEW g, Queued(f), IsList(f.todo), f.todo # <<>>,
           g.kind \in {f.kind, "none"}, g.todo \in {Tail(f.todo), <<>>},
           g.kind = "none" => g.todo = <<>>, g.pc # "insert"
    PROVE  Queued(g)
  BY ListMoves, NoList DEF Queued

\* A payload becomes an event.
LEMMA JoinedPayload ==
    ASSUME NEW envelope, DOMAIN envelope \subseteq {"id", "hlc", "received"}, NEW p, PayloadOk(p)
    PROVE  /\ PayloadOk(Joined(envelope, p))
           /\ Joined(envelope, p).type = p.type
           /\ HasCustomer(Joined(envelope, p)) <=> HasCustomer(p)
           /\ HasCustomer(p) => Joined(envelope, p).customer = p.customer
           /\ "target" \in DOMAIN p => Joined(envelope, p).target = p.target
  <1> DEFINE e == Joined(envelope, p)
  <1>1. /\ DOMAIN e = DOMAIN envelope \cup DOMAIN p
        /\ \A x \in DOMAIN p : x \notin DOMAIN envelope => e[x] = p[x]
    BY DEF Joined
  <1>2. /\ "type" \in DOMAIN p
        /\ "type" \notin DOMAIN envelope /\ "customer" \notin DOMAIN envelope
        /\ "target" \notin DOMAIN envelope
    BY DEF PayloadOk
  <1> HIDE DEF e
  <1>3. /\ "type" \in DOMAIN e /\ e.type = p.type
        /\ HasCustomer(e) <=> HasCustomer(p)
        /\ HasCustomer(p) => e.customer = p.customer
        /\ "target" \in DOMAIN p => "target" \in DOMAIN e /\ e.target = p.target
    BY <1>1, <1>2 DEF HasCustomer
  <1>4. PayloadOk(e) BY <1>3 DEF PayloadOk
  <1> QED BY <1>3, <1>4 DEF e

\* A call that keeps its queue, or ends.
LEMMA QueuedSame ==
    ASSUME NEW f, NEW g, Queued(f), g.kind \in {f.kind, "none"}, g.todo \in {f.todo, <<>>},
           g.kind = "none" => g.todo = <<>>, g.pc # "insert"
    PROVE  Queued(g)
  BY NoList DEF Queued

\* append() puts an event of this device in its queue.
LEMMA StampQueues ==
    ASSUME StoreInv, TableInv, NEW o \in Op, NEW payload, PayloadOk(payload),
           StampAndInsert(o, payload), UNCHANGED events
    PROVE  TableInv'
  <1>1. PICK e, f :
           /\ e = Joined([id |-> <<Me, lastSeq + 1>>, hlc |-> Stamp(clock', Me)], payload)
           /\ f = [Frame("append", "insert") EXCEPT !.todo = <<e>>]
           /\ op' = [op EXCEPT ![o] = f]
    BY DEF StampAndInsert
  <1>2. PayloadOk(e)
    <2> DEFINE envelope == [id |-> <<Me, lastSeq + 1>>, hlc |-> Stamp(clock', Me)]
    <2>1. DOMAIN envelope \subseteq {"id", "hlc", "received"} OBVIOUS
    <2> HIDE DEF envelope
    <2>2. e = Joined(envelope, payload) BY <1>1 DEF envelope
    <2> QED BY <2>1, <2>2, JoinedPayload
  <1>3. f.kind = "append" /\ f.todo = <<e>> BY <1>1, AppendStarts, Zenon
  <1>4. Queued(f) BY <1>2, <1>3, ListOfOne DEF Queued
  <1> QED BY <1>1, <1>3, <1>4, TableFrame

LEMMA TableStays ==
    ASSUME TableInv, UNCHANGED <<events, op>>
    PROVE  TableInv'
  <1>1. Own' = Own /\ Ids' = Ids BY DEF Own, Ids
  <1> QED BY <1>1 DEF TableInv, TableOk, QueuesOk, Queued

\* A call goes on with the queue it has, or ends.
LEMMA MoveQueues ==
    ASSUME StoreInv, TableInv, UNCHANGED events, NEW o \in Op, NEW f, op' = [op EXCEPT ![o] = f],
           f.kind \in {op[o].kind, "none"}, f.todo \in {op[o].todo, <<>>},
           f.kind = "none" => f.todo = <<>>, f.pc # "insert"
    PROVE  TableInv'
  <1>1. Queued(op[o]) BY DEF TableInv, QueuesOk
  <1>2. Queued(f) BY <1>1, QueuedSame
  <1> QED BY <1>2, TableFrame

\* A call is done with the head of its queue.
LEMMA TailQueues ==
    ASSUME StoreInv, TableInv, UNCHANGED events, NEW o \in Op, op[o].todo # <<>>,
           NEW f, op' = [op EXCEPT ![o] = f],
           f.kind \in {op[o].kind, "none"}, f.todo \in {Tail(op[o].todo), <<>>},
           f.kind = "none" => f.todo = <<>>, f.pc # "insert"
    PROVE  TableInv'
  <1>1. Queued(op[o]) BY DEF TableInv, QueuesOk
  <1>2. IsList(op[o].todo) BY DEF StoreInv, FramesOk, Shape
  <1>3. Queued(f) BY <1>1, <1>2, QueuedTail
  <1> QED BY <1>3, TableFrame

\* Where Onward takes a call.
LEMMA OnwardFields ==
    ASSUME NEW g, Shape(g), NEW f, f = Onward(g)
    PROVE  \/ f = Idle /\ g.todo = <<>> /\ g.touched = {}
           \/ /\ f.kind = g.kind /\ f.todo = g.todo /\ f.touched = g.touched
              /\ f.cur = g.cur /\ f.row = g.row /\ f.scan = g.scan
              /\ f.pc = IF g.todo # <<>> THEN "select" ELSE "refold"
              /\ g.todo = <<>> => g.touched # {}
  <1>1. CASE g.todo # <<>>
    BY <1>1 DEF Onward, Shape
  <1>2. CASE g.todo = <<>> /\ g.touched # {}
    BY <1>2 DEF Onward, Shape
  <1>3. CASE g.todo = <<>> /\ g.touched = {}
    BY <1>3 DEF Onward
  <1> QED BY <1>1, <1>2, <1>3

\* The event an INSERT is for, and the row it becomes.
LEMMA InsertedRow ==
    ASSUME StoreInv, TableInv, NEW o \in Op, op[o].pc = "insert"
    PROVE  LET h == Head(op[o].todo)
               e == Joined([received |-> op[o].kind = "merge"], h)
           IN  /\ op[o].todo # <<>> /\ op[o].kind \in {"append", "merge"}
               /\ PayloadOk(h) /\ PayloadOk(e)
               /\ e.id = h.id /\ e.hlc = h.hlc /\ e.id \notin Ids
               /\ op[o].kind = "merge" => h \in Sendable
               /\ op[o].kind = "append" => h \in Issued /\ h.id[1] = Me
  <1> DEFINE h == Head(op[o].todo)
             column == [received |-> op[o].kind = "merge"]
             e == Joined(column, h)
  <1>1. Shape(op[o]) /\ InPlace(op[o]) /\ MergeOk(op[o], Ids) /\ Queued(op[o])
    BY DEF StoreInv, FramesOk, TableInv, QueuesOk
  <1>2. op[o].todo # <<>> /\ op[o].kind \in {"append", "merge"} BY <1>1 DEF InPlace, Shape
  <1>3. 1 \in DOMAIN op[o].todo /\ h = op[o].todo[1] BY <1>1, <1>2, ListMoves DEF Shape
  <1>4. ASSUME op[o].kind = "merge"
        PROVE  PayloadOk(h) /\ IsEvent(h) /\ h.id \notin Ids /\ h \in Sendable
    <2>1. h \in Sendable
      <3>1. h \in Sendable \cup Own BY <1>1, <1>3, <1>4 DEF Queued
      <3>2. h.id[1] # Me BY <1>1, <1>4 DEF MergeOk
      <3> QED BY <3>1, <3>2 DEF Own
    <2>2. PayloadOk(h) BY <2>1, PayloadsAssumption
    <2>3. h.id \notin Ids BY <1>1, <1>4 DEF Queued
    <2>4. IsEvent(h) BY <1>1, <1>3, <1>4 DEF MergeOk, Foreign
    <2> QED BY <2>1, <2>2, <2>3, <2>4
  <1>5. ASSUME op[o].kind = "append"
        PROVE  PayloadOk(h) /\ IsEvent(h) /\ h.id \notin Ids /\ h \in Issued /\ h.id[1] = Me
    <2>1. Inserting(op[o]) BY <1>5 DEF Inserting
    <2>2. h \in Issued BY <2>1 DEF Issued
    <2>3. IssuedOk(h) BY <2>2 DEF StoreInv
    <2>4. h.id[1] = Me BY <2>3 DEF IssuedOk
    <2>5. IsEvent(h) BY <2>3 DEF IssuedOk
    <2>6. PayloadOk(h) BY <1>1, <1>3, <1>5 DEF Queued
    <2>7. h.id \notin Ids BY <2>1 DEF StoreInv, NumbersApart
    <2> QED BY <2>2, <2>4, <2>5, <2>6, <2>7
  <1>6. /\ PayloadOk(h) /\ IsEvent(h) /\ h.id \notin Ids
        /\ op[o].kind = "merge" => h \in Sendable
        /\ op[o].kind = "append" => h \in Issued /\ h.id[1] = Me
    BY <1>2, <1>4, <1>5
  <1>7. "id" \notin DOMAIN column /\ "hlc" \notin DOMAIN column
        /\ DOMAIN column \subseteq {"id", "hlc", "received"}
    OBVIOUS
  <1> HIDE DEF column, h
  <1>8. PayloadOk(e) BY <1>6, <1>7, JoinedPayload
  <1>9. e.id = h.id /\ e.hlc = h.hlc BY <1>6, <1>7, JoinedRest DEF IsEvent
  <1> QED BY <1>2, <1>6, <1>8, <1>9 DEF h, column

\* A call that has looked up whom the head of its queue affects.
LEMMA ResolvedFrame ==
    ASSUME StoreInv, NEW o \in Op, Resolve(o)
    PROVE  \E k : /\ op' = [op EXCEPT ![o] = Onward(k)]
                  /\ Shape(k) /\ k.kind = op[o].kind /\ k.todo = Tail(op[o].todo)
                  /\ k.touched = op[o].touched \cup Owners(events, Head(op[o].todo))
                  /\ k.cur = op[o].cur /\ k.row = op[o].row /\ k.scan = op[o].scan
  <1>1. Shape(op[o]) /\ InPlace(op[o]) BY DEF StoreInv, FramesOk
  <1>2. op[o].todo # <<>> BY <1>1 DEF InPlace, Resolve
  <1>3. PICK found, g, k : /\ g = Dropped(op[o]) /\ k = [g EXCEPT !.touched = @ \cup found]
                           /\ found = Owners(events, Head(op[o].todo))
                           /\ op' = [op EXCEPT ![o] = Onward(k)]
    BY DEF Resolve
  <1>4. Shape(g) /\ g.kind = op[o].kind /\ g.todo = Tail(op[o].todo)
    BY <1>1, <1>2, <1>3, FrameDrops
  <1>5. /\ g.touched = op[o].touched /\ g.cur = op[o].cur /\ g.row = op[o].row
        /\ g.scan = op[o].scan
    BY <1>1, <1>3 DEF Dropped, Shape
  <1>6. /\ k.kind = g.kind /\ k.todo = g.todo /\ k.touched = g.touched \cup found
        /\ k.cur = g.cur /\ k.row = g.row /\ k.scan = g.scan
        /\ k \in [kind : {"none", "append", "merge", "rebuild"}, pc : Pcs, todo : {k.todo},
                  page : {k.page}, touched : {k.touched}, cur : {k.cur}, row : {k.row},
                  scan : {k.scan}]
    BY <1>3, <1>4 DEF Shape
  <1>7. Shape(k) BY <1>4, <1>6 DEF Shape
  <1> QED BY <1>3, <1>4, <1>5, <1>6, <1>7

\* A call that goes on with the queue it has.
LEMMA PlainQueues ==
    ASSUME StoreInv, TableInv, UNCHANGED events, NEW o \in Op, NEW g, Shape(g),
           g.kind = op[o].kind, g.todo = op[o].todo,
           op[o].pc \notin {"select", "mark", "insert", "resolve"},
           g.pc \notin {"select", "mark", "insert", "resolve"},
           NEW f, f = g \/ f = Onward(g), op' = [op EXCEPT ![o] = f]
    PROVE  TableInv'
  <1>1. g.kind = "append" => g.todo = <<>> BY DEF StoreInv, FramesOk, InPlace
  <1>2. /\ Shape(f) /\ f.pc # "insert" /\ f.kind \in {g.kind, "none"}
        /\ f.todo \in {g.todo, <<>>}
    BY <1>1, OnwardMoves
  <1>3. f.kind = "none" => f.todo = <<>> BY <1>2 DEF Shape
  <1> QED BY <1>2, <1>3, MoveQueues

\* The stamp of a row about to be inserted is new.
LEMMA StampIsNew ==
    ASSUME StoreInv, TableInv, NEW o \in Op, op[o].pc = "insert", NEW f \in events
    PROVE  f.hlc # Head(op[o].todo).hlc
  <1> DEFINE h == Head(op[o].todo)
  <1>1. /\ h.id \notin Ids /\ op[o].kind \in {"append", "merge"}
        /\ op[o].kind = "merge" => h \in Sendable
        /\ op[o].kind = "append" => h \in Issued /\ h.id[1] = Me
    BY InsertedRow
  <1> HIDE DEF h
  <1> SUFFICES ASSUME f.hlc = h.hlc PROVE FALSE BY DEF h
  <1>2. f.id \in Ids /\ f.id # h.id BY <1>1 DEF Ids
  <1>3. f \in Own => f \in Issued /\ IssuedOk(f) BY DEF StoreInv, Issued
  <1>4. f \notin Own => \E s \in Sendable : f.id = s.id /\ f.hlc = s.hlc
    BY DEF TableInv, TableOk
  <1>5. \A s \in Sendable : s.hlc.dev # Me BY StampsAssumption
  <1>6. CASE op[o].kind = "append"
    <2>1. h \in Issued /\ IssuedOk(h) BY <1>1, <1>6 DEF StoreInv
    <2>2. f \in Own
      <3>1. h.hlc.dev = Me BY <2>1 DEF IssuedOk
      <3> QED BY <3>1, <1>4, <1>5
    <2>3. f.id[2] # h.id[2] /\ f.id[2] \in Nat /\ h.id[2] \in Nat
      BY <1>2, <1>3, <2>1, <2>2 DEF IssuedOk
    <2>4. Before(f, h) \/ Before(h, f)
      BY <1>3, <2>1, <2>2, <2>3 DEF StoreInv
    <2>5. f.hlc \in [l : Nat, c : Nat, dev : {Me}] BY <1>3, <2>2 DEF IssuedOk
    <2> QED BY <2>4, <2>5, MeAssumption DEF Before, StampLess, StateLess
  <1>7. CASE op[o].kind = "merge"
    <2>1. h \in Sendable BY <1>1, <1>7
    <2>2. f \notin Own
      <3>1. f \in Own => f.hlc.dev = Me BY <1>3 DEF IssuedOk
      <3> QED BY <3>1, <2>1, <1>5
    <2>3. PICK s \in Sendable : f.id = s.id /\ f.hlc = s.hlc BY <1>4, <2>2
    <2>4. s.id = h.id BY <2>1, <2>3, StampsAssumption
    <2> QED BY <1>2, <2>3, <2>4
  <1> QED BY <1>1, <1>6, <1>7

LEMMA InsertTable ==
    ASSUME StoreInv, TableInv, NEW o \in Op, Insert(o)
    PROVE  TableInv'
  <1>1. PICK h, e : /\ h = Head(op[o].todo)
                    /\ e = Joined([received |-> op[o].kind = "merge"], h)
                    /\ events' = events \cup {e}
    BY DEF Insert
  <1>2. op[o].pc = "insert" /\ op' = [op EXCEPT ![o].pc = "resolve"] BY DEF Insert
  <1>3. PICK f : f = [op[o] EXCEPT !.pc = "resolve"] OBVIOUS
  <1>4. op'[o] = f /\ \A p \in Op \ {o} : op'[p] = op[p]
    BY <1>2, <1>3 DEF StoreInv, FramesOk
  <1>5. f.kind = op[o].kind /\ f.pc = "resolve" /\ f.todo = op[o].todo
    <2>1. Shape(op[o]) BY DEF StoreInv, FramesOk
    <2> QED BY <1>3, <2>1, FrameGoesOn, Zenon DEF Pcs
  <1>6. /\ op[o].kind \in {"append", "merge"} /\ PayloadOk(e)
        /\ e.id = h.id /\ e.hlc = h.hlc
        /\ op[o].kind = "merge" => h \in Sendable
        /\ op[o].kind = "append" => h.id[1] = Me
    BY <1>1, <1>2, InsertedRow
  <1>7. \A g \in events : g.hlc # e.hlc BY <1>1, <1>2, <1>6, StampIsNew
  <1>8. Own \subseteq Own' /\ Ids' = Ids \cup {e.id} BY <1>1 DEF Own, Ids
  <1>9. TableOk'
    <2>1. IsFiniteSet(events') BY <1>1, FS_AddElement DEF TableInv, TableOk
    <2>2. \A g \in events' : PayloadOk(g) BY <1>1, <1>6 DEF TableInv, TableOk
    <2>3. \A g \in (events \ Own)' : \E s \in Sendable : g.id = s.id /\ g.hlc = s.hlc
      <3>1. CASE op[o].kind = "append"
        <4>1. e \in Own' BY <1>1, <1>6, <3>1 DEF Own
        <4>2. (events \ Own)' \subseteq events \ Own BY <1>1, <1>8, <4>1
        <4> QED BY <4>2 DEF TableInv, TableOk
      <3>2. CASE op[o].kind = "merge"
        <4>1. (events \ Own)' \subseteq (events \ Own) \cup {e} BY <1>1, <1>8
        <4> QED BY <1>6, <3>2, <4>1 DEF TableInv, TableOk
      <3> QED BY <1>6, <3>1, <3>2
    <2>4. \A g, k \in events' : g.hlc = k.hlc => g = k
      BY <1>1, <1>7 DEF TableInv, TableOk
    <2> QED BY <2>1, <2>2, <2>3, <2>4 DEF TableOk
  <1>10. QueuesOk'
    <2>1. ASSUME NEW p \in Op PROVE Queued(op[p])'
      <3>1. Queued(op[p]) BY DEF TableInv, QueuesOk
      <3>2. CASE p = o BY <1>4, <1>5, <1>8, <3>1, <3>2 DEF Queued
      <3>3. CASE p # o
        <4>1. op'[p] = op[p] BY <1>4, <3>3
        <4>2. op[p].kind = "merge" /\ op[p].pc = "insert" => Head(op[p].todo).id # e.id
          <5>1. SUFFICES ASSUME op[p].kind = "merge", op[p].pc = "insert"
                         PROVE  Head(op[p].todo).id # e.id
            OBVIOUS
          <5>2. op[o].kind = "append" BY <1>6, <3>3, <5>1 DEF TableInv, QueuesOk
          <5>3. Head(op[p].todo).id[1] # Me
            BY <5>1 DEF StoreInv, FramesOk, MergeOk
          <5> QED BY <1>6, <5>2, <5>3
        <4> QED BY <1>8, <3>1, <4>1, <4>2 DEF Queued
      <3> QED BY <3>2, <3>3
    <2>2. \A p, q \in Op : op'[p].kind = "merge" /\ op'[q].kind = "merge" => p = q
      BY <1>4, <1>5 DEF TableInv, QueuesOk
    <2> QED BY <2>1, <2>2 DEF QueuesOk
  <1> QED BY <1>9, <1>10 DEF TableInv

LEMMA TableStep == StoreInv /\ TableInv /\ [Next]_vars => TableInv'
  <1> SUFFICES ASSUME StoreInv, TableInv, [Next]_vars PROVE TableInv'
    OBVIOUS
  <1>f. \A o \in Op : Shape(op[o]) /\ InPlace(op[o]) BY DEF StoreInv, FramesOk
  <1>1. ASSUME NEW o \in Op, NEW d \in Drafts, AppendEvent(o, d) PROVE TableInv'
    BY <1>1, PayloadsAssumption, StampQueues DEF AppendEvent, tables
  <1>2. ASSUME NEW o \in Op, NEW e, AppendEvent(o, [type |-> "ENTRY_VOIDED", target |-> e.id])
        PROVE  TableInv'
    <2>1. PayloadOk([type |-> "ENTRY_VOIDED", target |-> e.id])
      BY DEF PayloadOk, HasCustomer, OfCustomer, Entries
    <2> QED BY <1>2, <2>1, StampQueues DEF AppendEvent, tables
  <1>3. ASSUME NEW o \in Op, AppendRefused(o) PROVE TableInv'
    BY <1>3, TableStays DEF AppendRefused, tables
  <1>4. ASSUME NEW o \in Op, NEW c, Archive(o, c) PROVE TableInv'
    <2>1. PICK f : /\ f = [Frame("append", "check") EXCEPT !.cur = {c}]
                   /\ op' = [op EXCEPT ![o] = f]
      BY <1>4 DEF Archive
    <2>2. f.kind = "append" /\ f.pc = "check" /\ f.todo = <<>>
      BY <2>1, ArchiveStarts, Zenon
    <2>3. Queued(f) BY <2>2, NoList DEF Queued
    <2> QED BY <1>4, <2>1, <2>2, <2>3, TableFrame DEF Archive, tables
  <1>5. ASSUME NEW o \in Op, NEW c \in Customers, CheckArchive(o, c) PROVE TableInv'
    <2>1. CASE StampAndInsert(o, [type |-> "CUSTOMER_ARCHIVED", customer |-> c])
      <3>1. PayloadOk([type |-> "CUSTOMER_ARCHIVED", customer |-> c])
        BY DEF PayloadOk, HasCustomer
      <3> QED BY <1>5, <2>1, <3>1, StampQueues DEF CheckArchive, tables
    <2>2. CASE op' = [op EXCEPT ![o] = Idle]
      BY <1>5, <2>2, IdleFrame, MoveQueues DEF CheckArchive, tables
    <2> QED BY <1>5, <2>1, <2>2 DEF CheckArchive
  <1>6. ASSUME NEW o \in Op, NEW page \in Pages, Merge(o, page) PROVE TableInv'
    <2>1. PICK f : /\ f = [Frame("merge", "select") EXCEPT !.todo = page, !.page = page]
                   /\ op' = [op EXCEPT ![o] = f]
      BY <1>6 DEF Merge
    <2>2. IsList(page) BY PagesAreForeign
    <2>3. f.kind = "merge" /\ f.pc = "select" /\ f.todo = page
      BY <2>1, <2>2, MergeStarts, Zenon
    <2>4. \A i \in DOMAIN page : page[i] \in Sendable \cup Own
      <3>1. CASE page \in RemotePages BY <3>1 DEF Sendable, ToSet
      <3>2. CASE \E e \in Own : page = <<e>> BY <3>2, ListOfOne
      <3> QED BY <3>1, <3>2 DEF Pages
    <2>5. Queued(f) BY <2>3, <2>4 DEF Queued
    <2> QED BY <1>6, <2>1, <2>3, <2>5, TableFrame DEF Merge, tables
  <1>7. ASSUME NEW o \in Op, Rebuild(o) PROVE TableInv'
    <2>1. PICK f : f = Frame("rebuild", "dropCustomers") /\ op' = [op EXCEPT ![o] = f]
      BY <1>7 DEF Rebuild
    <2>2. f.kind = "rebuild" /\ f.pc = "dropCustomers" /\ f.todo = <<>>
      BY <2>1, RebuildStarts, Zenon
    <2>3. Queued(f) BY <2>2, NoList DEF Queued
    <2> QED BY <1>7, <2>1, <2>2, <2>3, TableFrame DEF Rebuild, tables
  <1>8. ASSUME NEW o \in Op, Select(o) \/ Mark(o) PROVE TableInv'
    <2>1. op[o].pc \in {"select", "mark"} /\ UNCHANGED events BY <1>8 DEF Select, Mark, tables
    <2>2. op[o].kind = "merge" /\ op[o].todo # <<>> BY <1>f, <2>1 DEF InPlace, Shape
    <2>3. CASE op' = [op EXCEPT ![o] = Onward(Dropped(op[o]))]
      <3> DEFINE f == Onward(Dropped(op[o]))
      <3>1. /\ Shape(Dropped(op[o])) /\ Dropped(op[o]).kind = op[o].kind
            /\ Dropped(op[o]).todo = Tail(op[o].todo)
        BY <1>f, <2>2, FrameDrops
      <3>2. /\ Shape(f) /\ f.pc # "insert" /\ f.kind \in {op[o].kind, "none"}
            /\ f.todo \in {Tail(op[o].todo), <<>>}
        BY <2>2, <3>1, OnwardMoves
      <3>3. f.kind = "none" => f.todo = <<>> BY <3>2 DEF Shape
      <3> HIDE DEF f
      <3> QED BY <2>1, <2>2, <2>3, <3>2, <3>3, TailQueues DEF f
    <2>4. ASSUME NEW pc \in {"mark", "insert"}, pc = "insert" => Head(op[o].todo).id \notin Ids,
                 op' = [op EXCEPT ![o] = [op[o] EXCEPT !.pc = pc]]
          PROVE  TableInv'
      <3>1. PICK f : f = [op[o] EXCEPT !.pc = pc] /\ op' = [op EXCEPT ![o] = f] BY <2>4
      <3>p. pc \in Pcs BY DEF Pcs
      <3>2. f.kind = "merge" /\ f.pc = pc /\ f.todo = op[o].todo
        BY <1>f, <2>2, <3>1, <3>p, FrameGoesOn, Zenon
      <3>3. Queued(op[o]) BY DEF TableInv, QueuesOk
      <3>4. Queued(f) BY <2>2, <2>4, <3>2, <3>3 DEF Queued
      <3> QED BY <2>1, <2>2, <3>1, <3>2, <3>4, TableFrame
    <2> QED BY <1>8, <2>3, <2>4 DEF Select, Mark
  <1>9. ASSUME NEW o \in Op, Insert(o) PROVE TableInv'
    BY <1>9, InsertTable
  <1>10. ASSUME NEW o \in Op, Resolve(o) PROVE TableInv'
    <2>1. op[o].pc = "resolve" /\ UNCHANGED events BY <1>10 DEF Resolve, tables
    <2>2. op[o].todo # <<>> /\ op[o].kind \in {"append", "merge"}
      BY <1>f, <2>1 DEF InPlace, Shape
    <2>3. PICK k : /\ op' = [op EXCEPT ![o] = Onward(k)]
                   /\ Shape(k) /\ k.kind = op[o].kind /\ k.todo = Tail(op[o].todo)
      BY <1>10, ResolvedFrame
    <2>4. PICK f : f = Onward(k) /\ op' = [op EXCEPT ![o] = f] BY <2>3
    <2>5. k.kind = "append" => k.todo = <<>> BY <1>f, <2>2, <2>3 DEF InPlace
    <2>6. /\ Shape(f) /\ f.pc # "insert" /\ f.kind \in {k.kind, "none"}
          /\ f.todo \in {k.todo, <<>>}
      BY <2>3, <2>4, <2>5, OnwardMoves
    <2>7. f.kind = "none" => f.todo = <<>> BY <2>6 DEF Shape
    <2> QED BY <2>1, <2>2, <2>3, <2>4, <2>6, <2>7, TailQueues
  <1>11. ASSUME NEW o \in Op, NEW c, Refold(o, c) \/ WriteCustomer(o, c) \/ WriteBalance(o, c)
         PROVE  TableInv'
    <2>1. /\ op[o].pc \in {"refold", "writeCustomer", "writeBalance"} /\ UNCHANGED events
      BY <1>11 DEF Refold, WriteCustomer, WriteBalance, tables
    <2>2. PICK g, f : /\ op' = [op EXCEPT ![o] = f] /\ (f = g \/ f = Onward(g))
                      /\ \/ \E row : g = [op[o] EXCEPT !.pc = "writeCustomer", !.cur = {c},
                                                       !.row = row]
                         \/ g = [op[o] EXCEPT !.pc = "writeBalance"]
                         \/ g = [op[o] EXCEPT !.touched = @ \ {c}, !.cur = {}, !.row = <<>>]
      <3>1. CASE Refold(o, c) BY <3>1 DEF Refold
      <3>2. CASE WriteCustomer(o, c) BY <3>2 DEF WriteCustomer
      <3>3. CASE WriteBalance(o, c) BY <3>3 DEF WriteBalance
      <3> QED BY <1>11, <3>1, <3>2, <3>3
    <2>3. /\ g.kind = op[o].kind /\ g.todo = op[o].todo
          /\ g.pc \in {"refold", "writeCustomer", "writeBalance"}
          /\ g \in [kind : {"none", "append", "merge", "rebuild"}, pc : Pcs, todo : {g.todo},
                    page : {g.page}, touched : {g.touched}, cur : {g.cur}, row : {g.row},
                    scan : {g.scan}]
      BY <1>f, <2>1, <2>2 DEF Shape, Pcs
    <2>4. Shape(g) BY <1>f, <2>3 DEF Shape
    <2> QED BY <2>1, <2>2, <2>3, <2>4, PlainQueues
  <1>12. ASSUME NEW o \in Op, DropCustomers(o) \/ DropBalances(o) \/ Scan(o)
         PROVE  TableInv'
    <2>1. /\ op[o].pc \in {"dropCustomers", "dropBalances", "scan"} /\ UNCHANGED events
      BY <1>12 DEF DropCustomers, DropBalances, Scan, tables
    <2>2. PICK g, f : /\ op' = [op EXCEPT ![o] = f] /\ (f = g \/ f = Onward(g))
                      /\ \/ g = [op[o] EXCEPT !.pc = "dropBalances"]
                         \/ g = [op[o] EXCEPT !.pc = "scan"]
                         \/ \E found : g = [op[o] EXCEPT !.touched = found, !.scan = events]
      <3>1. CASE DropCustomers(o) BY <3>1 DEF DropCustomers
      <3>2. CASE DropBalances(o) BY <3>2 DEF DropBalances
      <3>3. CASE Scan(o) BY <3>3 DEF Scan
      <3> QED BY <1>12, <3>1, <3>2, <3>3
    <2>3. /\ g.kind = op[o].kind /\ g.todo = op[o].todo
          /\ g.pc \in {"dropCustomers", "dropBalances", "scan"}
          /\ g \in [kind : {"none", "append", "merge", "rebuild"}, pc : Pcs, todo : {g.todo},
                    page : {g.page}, touched : {g.touched}, cur : {g.cur}, row : {g.row},
                    scan : {g.scan}]
      BY <1>f, <2>1, <2>2 DEF Shape, Pcs
    <2>4. Shape(g) BY <1>f, <2>3 DEF Shape
    <2> QED BY <2>1, <2>2, <2>3, <2>4, PlainQueues
  <1>13. ASSUME NEW o \in Op, Throw(o) PROVE TableInv'
    BY <1>13, IdleFrame, MoveQueues DEF Throw, tables
  <1>14. CASE Kill
    <2>1. UNCHANGED events /\ \A o \in Op : op'[o] = Idle BY <1>14 DEF Kill, tables
    <2>2. Own' = Own /\ Ids' = Ids BY <2>1 DEF Own, Ids
    <2>3. QueuesOk' BY <2>1, IdleFrame, NoList DEF QueuesOk, Queued
    <2> QED BY <2>2, <2>3, <2>1 DEF TableInv, TableOk
  <1>15. CASE UNCHANGED vars BY <1>15, TableStays DEF vars, tables
  <1> QED
    BY <1>1, <1>2, <1>3, <1>4, <1>5, <1>6, <1>7, <1>8, <1>9, <1>10, <1>11, <1>12, <1>13,
       <1>14, <1>15 DEF Next

----------------------------------------------------------------------------
(* The invariant of the projections.                                        *)

Writing(f) == f.pc \in {"writeCustomer", "writeBalance"}
Dropping(f) == f.pc \in {"dropBalances", "scan"}
Scanned(f) == f.kind = "rebuild" /\ f.pc \in {"refold", "writeCustomer", "writeBalance"}

\* Where a call of each kind can be.
KindOk(f) ==
    /\ f.kind = "none" => f = Idle
    /\ f.kind \in {"append", "merge"} =>
          f.pc \notin {"idle", "dropCustomers", "dropBalances", "scan"}
    /\ f.kind = "rebuild" =>
          f.pc \in {"dropCustomers", "dropBalances", "scan", "refold", "writeCustomer",
                    "writeBalance"}
    /\ f.pc \in {"check", "dropCustomers", "dropBalances", "scan"} => f.touched = {}
    /\ Writing(f) => \E c \in f.touched : f.cur = {c}

\* A call owes the customers it has touched, from the INSERT on; a rebuild owes
\* all of them, from its first statement until it has read the table.
DebtOk(o) ==
    /\ op[o].touched \subseteq owed[o]
    /\ Dropping(op[o]) => owed[o] = Customers
    /\ ~Dropping(op[o]) =>
          owed[o] \subseteq op[o].touched
                            \cup IF op[o].pc = "resolve" THEN Owners(events, Head(op[o].todo))
                                 ELSE {}

\* Two calls that owe one customer both know it.
SharedOk == \A o, p \in Op : o # p => owed[o] \cap owed[p] \subseteq shared[o]

\* The rows of c when the whole table is folded, and whether they are its rows.
RowsOf(c) == <<CustomerRow(Fold(events), c), BalanceRow(Fold(events), c)>>
Right(c) == <<customers[c], balances[c]>> = RowsOf(c)

\* The rows a call is writing are the right ones, unless it is not alone.
WritesOk(o) ==
    Writing(op[o]) => \A c \in Customers \ shared[o] :
        op[o].cur = {c} => /\ op[o].row = RowsOf(c)
                           /\ op[o].pc = "writeBalance" => customers[c] = op[o].row[1]

\* What a rebuild dropped stays dropped, and what it read stays true, for the
\* customers nobody else owes.
DropsOk(o) ==
    Dropping(op[o]) => \A c \in Customers \ shared[o] :
        /\ customers[c] = {}
        /\ op[o].pc = "scan" => balances[c] = {}

ScansOk(o) ==
    Scanned(op[o]) =>
        /\ op[o].scan \subseteq events
        /\ \A c \in owed[o] \ shared[o] :
              EventsForCustomer(op[o].scan, c) = EventsForCustomer(events, c)

\* The rows of c are right, and so is whatever will be written there; or a
\* rebuild has still to see to it, or could not.
Restored(c) ==
    /\ Right(c)
    /\ \A q \in Op : Writing(op[q]) /\ op[q].cur = {c} => op[q].row = RowsOf(c)
Mended(c) ==
    \/ c \in contested \cup dropped
    \/ \E p \in Op : op[p].kind = "rebuild" /\ c \in owed[p]
    \/ Restored(c)

\* As long as nothing is inserted, a rebuild leaves behind it right rows only.
RestoresOk(o) ==
    Scanned(op[o]) /\ op[o].scan = events => \A c \in Customers : Mended(c)

CallOk(o) ==
    KindOk(op[o]) /\ DebtOk(o) /\ WritesOk(o) /\ DropsOk(o) /\ ScansOk(o) /\ RestoresOk(o)

\* The rows of c are right, or it is known why not.
Accounted(c) == Right(c) \/ c \in lost \cup contested \/ \E o \in Op : c \in owed[o]

HistoryOk ==
    /\ customers = [c \in Customers |-> customers[c]]
    /\ balances = [c \in Customers |-> balances[c]]
    /\ owed = [o \in Op |-> owed[o]] /\ shared = [o \in Op |-> shared[o]]
    /\ used \in [local : Nat, merges : Nat, rebuilds : Nat, failures : Nat]

BookInv ==
    /\ HistoryOk
    /\ \A o \in Op : CallOk(o)
    /\ SharedOk
    /\ \A c \in Customers : Accounted(c)

----------------------------------------------------------------------------
(* The rows of a customer.                                                  *)

\* The rows of a customer are the fold of that customer's events.
LEMMA RowsOfPart ==
    ASSUME StoreInv, TableInv, NEW c
    PROVE  LET part == Fold(EventsForCustomer(events, c))
           IN  <<CustomerRow(part, c), BalanceRow(part, c)>> = RowsOf(c)
  <1>1. Stamped(events) /\ Typed(events) BY TableIsLog DEF TableInv
  <1> QED BY <1>1, PartIsWhole DEF RowsOf

\* Who is affected by an event of the table is a customer.
LEMMA OwnersAreCustomers ==
    ASSUME NEW log, \A g \in log : PayloadOk(g), NEW e, PayloadOk(e)
    PROVE  Owners(log, e) \subseteq Customers
  BY DEF Owners, PayloadOk

\* Whom an event affects does not depend on what it gets in the table.
LEMMA OwnersOfRow ==
    ASSUME NEW log, NEW h, PayloadOk(h), NEW b
    PROVE  Owners(log, Joined([received |-> b], h)) = Owners(log, h)
  <1> DEFINE column == [received |-> b]
             e == Joined(column, h)
  <1>1. DOMAIN column \subseteq {"id", "hlc", "received"} OBVIOUS
  <1> HIDE DEF column
  <1>2. /\ PayloadOk(e) /\ e.type = h.type /\ (HasCustomer(e) <=> HasCustomer(h))
        /\ HasCustomer(h) => e.customer = h.customer
        /\ "target" \in DOMAIN h => e.target = h.target
    BY <1>1, JoinedPayload
  <1> HIDE DEF e
  <1>3. Owners(log, e) = Owners(log, h)
    <2>1. CASE HasCustomer(h) BY <1>2, <2>1 DEF Owners
    <2>2. CASE ~HasCustomer(h) /\ h.type = "ENTRY_VOIDED"
      <3>1. e.target = h.target BY <1>2, <2>2 DEF PayloadOk
      <3> QED BY <1>2, <2>2, <3>1 DEF Owners
    <2>3. CASE ~HasCustomer(h) /\ h.type # "ENTRY_VOIDED" BY <1>2, <2>3 DEF Owners
    <2> QED BY <2>1, <2>2, <2>3
  <1> QED BY <1>3 DEF e, column

LEMMA OwnersGrow ==
    ASSUME NEW log, NEW more, log \subseteq more, NEW e
    PROVE  Owners(log, e) \subseteq Owners(more, e)
  BY DEF Owners

\* A customer no event affects has no events, and no rows.
LEMMA NoEventsNoRows ==
    ASSUME StoreInv, TableInv, NEW c, \A e \in events : c \notin Owners(events, e)
    PROVE  RowsOf(c) = <<{}, {}>>
  <1>1. EventsForCustomer(events, c) = {}
    <2>1. \A e \in events : ~(HasCustomer(e) /\ e.customer = c) BY DEF Owners
    <2> QED BY <2>1 DEF EventsForCustomer
  <1>2. Fold({}) = EmptyState
    <2>1. Fold({}) = FoldWith({}, VoidedIds({})) BY DEF Fold, FoldWith
    <2> QED BY <2>1, FoldOfNothing
  <1>3. CustomerRow(EmptyState, c) = {} /\ BalanceRow(EmptyState, c) = {}
    BY DEF EmptyState, CustomerRow, BalanceRow
  <1> QED BY <1>1, <1>2, <1>3, RowsOfPart

----------------------------------------------------------------------------
(* What the history variables say.                                          *)

LEMMA OwesShares ==
    ASSUME BookInv, NEW o \in Op, NEW C, Owes(o, C)
    PROVE  /\ owed' = [p \in Op |-> owed'[p]] /\ shared' = [p \in Op |-> shared'[p]]
           /\ owed'[o] = owed[o] \cup C /\ \A p \in Op \ {o} : owed'[p] = owed[p]
           /\ \A p \in Op : shared[p] \subseteq shared'[p]
           /\ \A p \in Op \ {o} : C \cap owed[p] \subseteq shared'[p]
           /\ UNCHANGED <<lost, dropped, contested>>
           /\ SharedOk'
  <1>1. /\ owed' = [p \in Op |-> owed'[p]] /\ shared' = [p \in Op |-> shared'[p]]
        /\ owed'[o] = owed[o] \cup C /\ \A p \in Op \ {o} : owed'[p] = owed[p]
        /\ UNCHANGED <<lost, dropped, contested>>
    BY DEF Owes, BookInv, HistoryOk
  <1>2. /\ shared'[o] = shared[o] \cup {c \in C : \E q \in Op \ {o} : c \in owed[q]}
        /\ \A p \in Op \ {o} : shared'[p] = shared[p] \cup (C \cap owed[p])
    BY DEF Owes
  <1>3. ASSUME NEW p \in Op, NEW q \in Op, p # q
        PROVE  owed'[p] \cap owed'[q] \subseteq shared'[p]
    <2>1. owed[p] \cap owed[q] \subseteq shared[p] BY <1>3 DEF BookInv, SharedOk
    <2>2. CASE p = o BY <1>1, <1>2, <1>3, <2>1, <2>2
    <2>3. CASE q = o BY <1>1, <1>2, <1>3, <2>1, <2>3
    <2>4. CASE p # o /\ q # o BY <1>1, <1>2, <1>3, <2>1, <2>4
    <2> QED BY <2>2, <2>3, <2>4
  <1> QED BY <1>1, <1>2, <1>3 DEF SharedOk

LEMMA SettlesShares ==
    ASSUME BookInv, NEW o \in Op, NEW C, Settles(o, C)
    PROVE  /\ owed' = [p \in Op |-> owed'[p]] /\ shared' = [p \in Op |-> shared'[p]]
           /\ owed'[o] = owed[o] \ C /\ \A p \in Op \ {o} : owed'[p] = owed[p]
           /\ shared'[o] = shared[o] \ C /\ \A p \in Op \ {o} : shared'[p] = shared[p]
           /\ lost' = lost \ C /\ dropped' = dropped \ C
           /\ contested' = (contested \ C) \cup (C \cap shared[o])
           /\ SharedOk'
  <1>1. /\ owed' = [p \in Op |-> owed'[p]] /\ shared' = [p \in Op |-> shared'[p]]
        /\ owed'[o] = owed[o] \ C /\ \A p \in Op \ {o} : owed'[p] = owed[p]
        /\ shared'[o] = shared[o] \ C /\ \A p \in Op \ {o} : shared'[p] = shared[p]
        /\ lost' = lost \ C /\ dropped' = dropped \ C
        /\ contested' = (contested \ C) \cup (C \cap shared[o])
    BY DEF Settles, BookInv, HistoryOk
  <1>2. ASSUME NEW p \in Op, NEW q \in Op, p # q
        PROVE  owed'[p] \cap owed'[q] \subseteq shared'[p]
    <2>1. owed[p] \cap owed[q] \subseteq shared[p] BY <1>2 DEF BookInv, SharedOk
    <2>2. CASE p = o BY <1>1, <1>2, <2>1, <2>2
    <2>3. CASE q = o BY <1>1, <1>2, <2>1, <2>3
    <2>4. CASE p # o /\ q # o BY <1>1, <1>2, <2>1, <2>4
    <2> QED BY <2>2, <2>3, <2>4
  <1> QED BY <1>1, <1>2 DEF SharedOk

LEMMA AbandonsShares ==
    ASSUME BookInv, NEW O \in SUBSET Op, Abandons(O)
    PROVE  /\ owed' = [p \in Op |-> owed'[p]] /\ shared' = [p \in Op |-> shared'[p]]
           /\ \A p \in O : owed'[p] = {} /\ shared'[p] = {} /\ owed[p] \subseteq lost'
           /\ \A p \in O : op[p].kind = "rebuild" => owed[p] \subseteq dropped'
           /\ \A p \in Op \ O : owed'[p] = owed[p] /\ shared'[p] = shared[p]
           /\ lost \subseteq lost' /\ dropped \subseteq dropped' /\ contested' = contested
           /\ SharedOk'
  <1>1. /\ owed' = [p \in Op |-> owed'[p]] /\ shared' = [p \in Op |-> shared'[p]]
        /\ \A p \in O : owed'[p] = {} /\ shared'[p] = {}
        /\ \A p \in Op \ O : owed'[p] = owed[p] /\ shared'[p] = shared[p]
        /\ lost \subseteq lost' /\ dropped \subseteq dropped' /\ contested' = contested
    BY DEF Abandons
  <1>2. \A p \in O : owed[p] \subseteq lost' BY DEF Abandons
  <1>3. \A p \in O : op[p].kind = "rebuild" => owed[p] \subseteq dropped'
    BY DEF Abandons
  <1>4. SharedOk' BY <1>1 DEF BookInv, SharedOk
  <1> QED BY <1>1, <1>2, <1>3, <1>4

\* A call that is writing a customer, or dropping rows, owes it.
LEMMA WritersOwe ==
    ASSUME BookInv, NEW o \in Op, NEW c
    PROVE  /\ Writing(op[o]) /\ op[o].cur = {c} => c \in op[o].touched /\ c \in owed[o]
           /\ Dropping(op[o]) /\ c \in Customers => c \in owed[o]
           /\ op[o] = Idle => owed[o] = {}
           /\ ~Dropping(op[o]) /\ op[o].pc # "resolve" => owed[o] = op[o].touched
  <1>1. KindOk(op[o]) /\ DebtOk(o) BY DEF BookInv, CallOk
  <1>2. Writing(op[o]) /\ op[o].cur = {c} => c \in op[o].touched
    BY <1>1 DEF KindOk
  <1>3. op[o] = Idle => ~Dropping(op[o]) /\ op[o].pc # "resolve" /\ op[o].touched = {}
    BY DEF Idle, Dropping
  <1> QED BY <1>1, <1>2, <1>3 DEF DebtOk

\* Nobody else writes what a call owes alone.
LEMMA WritesAlone ==
    ASSUME BookInv, NEW o \in Op, NEW c \in owed[o] \ shared[o], NEW q \in Op \ {o}
    PROVE  ~(Writing(op[q]) /\ op[q].cur = {c}) /\ c \notin owed[q]
  <1>1. c \notin owed[q] BY DEF BookInv, SharedOk
  <1> QED BY <1>1, WritersOwe

LEMMA CountKeeps ==
    ASSUME HistoryOk, NEW what \in {"local", "merges", "rebuilds", "failures"}, Count(what)
    PROVE  used' \in [local : Nat, merges : Nat, rebuilds : Nat, failures : Nat] /\ used' # used
  <1>1. used[what] \in Nat BY DEF HistoryOk
  <1>2. used'[what] = used[what] + 1 BY DEF HistoryOk, Count
  <1>3. used' \in [local : Nat, merges : Nat, rebuilds : Nat, failures : Nat]
    BY DEF HistoryOk, Count
  <1> QED BY <1>1, <1>2, <1>3

----------------------------------------------------------------------------
(* The invariant is kept.                                                   *)

LEMMA BookInit == Init => BookInv
  <1> SUFFICES ASSUME Init PROVE BookInv
    OBVIOUS
  <1>1. /\ events = {} /\ \A o \in Op : op[o] = Idle /\ owed[o] = {} /\ shared[o] = {}
        /\ \A c \in Customers : customers[c] = {} /\ balances[c] = {}
    BY DEF Init
  <1>2. HistoryOk BY DEF Init, HistoryOk
  <1>3. \A o \in Op : CallOk(o)
    <2>1. /\ Idle.kind = "none" /\ Idle.pc = "idle" /\ Idle.touched = {}
      BY DEF Idle
    <2>2. KindOk(Idle) /\ ~Writing(Idle) /\ ~Dropping(Idle) /\ ~Scanned(Idle)
      BY <2>1 DEF KindOk, Writing, Dropping, Scanned
    <2> QED BY <1>1, <2>1, <2>2 DEF CallOk, DebtOk, WritesOk, DropsOk, ScansOk, RestoresOk
  <1>4. SharedOk BY <1>1 DEF SharedOk
  <1>5. ASSUME NEW c \in Customers PROVE Accounted(c)
    <2>1. RowsOf(c) = <<{}, {}>> BY <1>1, StoreInit, TableInit, NoEventsNoRows
    <2> QED BY <1>1, <2>1 DEF Accounted, Right
  <1> QED BY <1>2, <1>3, <1>4, <1>5 DEF BookInv

LEMMA RowsStay ==
    ASSUME UNCHANGED events
    PROVE  \A c : RowsOf(c)' = RowsOf(c)
  BY DEF RowsOf

\* A step of a call that neither writes nor owes anything new.
LEMMA QuietKeeps ==
    ASSUME StoreInv, BookInv, NEW o \in Op, NEW f, op' = [op EXCEPT ![o] = f],
           UNCHANGED <<events, customers, balances, history>>, HistoryOk',
           op[o].kind # "rebuild", op[o].pc # "resolve", ~Dropping(op[o]),
           KindOk(f), f.pc # "resolve", ~Dropping(f), ~Writing(f), ~Scanned(f),
           f.touched = op[o].touched
    PROVE  BookInv'
  <1>1. op'[o] = f /\ \A p \in Op \ {o} : op'[p] = op[p] BY CallMoves
  <1>2. UNCHANGED <<owed, shared, lost, dropped, contested>> BY DEF history
  <1>3. \A c : RowsOf(c)' = RowsOf(c) BY RowsStay
  <1>4. ASSUME NEW c, Mended(c) PROVE Mended(c)'
    <2>1. CASE c \in contested \cup dropped BY <1>2, <2>1 DEF Mended
    <2>2. CASE \E p \in Op : op[p].kind = "rebuild" /\ c \in owed[p]
      BY <1>1, <1>2, <2>2 DEF Mended
    <2>3. CASE Restored(c)
      <3>1. Right(c)' BY <1>3, <2>3 DEF Restored, Right
      <3>2. ASSUME NEW q \in Op, Writing(op'[q]), op'[q].cur = {c} PROVE op'[q].row = RowsOf(c)'
        BY <1>1, <1>3, <2>3, <3>2 DEF Restored
      <3> QED BY <3>1, <3>2 DEF Mended, Restored, Writing
    <2> QED BY <1>4, <2>1, <2>2, <2>3 DEF Mended
  <1>5. ASSUME NEW p \in Op PROVE CallOk(p)'
    <2>0. CallOk(p) BY DEF BookInv
    <2>1. CASE p # o
      <3>1. op'[p] = op[p] BY <1>1, <2>1
      <3>2. KindOk(op[p])' BY <2>0, <3>1 DEF CallOk, KindOk, Writing
      <3>3. DebtOk(p)' BY <1>2, <2>0, <3>1 DEF CallOk, DebtOk, Dropping
      <3>4. WritesOk(p)' BY <1>2, <1>3, <2>0, <3>1 DEF CallOk, WritesOk, Writing
      <3>5. DropsOk(p)' BY <1>2, <2>0, <3>1 DEF CallOk, DropsOk, Dropping
      <3>6. ScansOk(p)' BY <1>2, <2>0, <3>1 DEF CallOk, ScansOk, Scanned
      <3>7. RestoresOk(p)' BY <1>4, <2>0, <3>1 DEF CallOk, RestoresOk, Scanned
      <3> QED BY <3>2, <3>3, <3>4, <3>5, <3>6, <3>7 DEF CallOk
    <2>2. CASE p = o
      <3>1. op'[p] = f BY <1>1, <2>2
      <3>2. KindOk(op[p])' BY <3>1 DEF KindOk, Writing
      <3>3. DebtOk(p)' BY <1>2, <2>0, <2>2, <3>1 DEF CallOk, DebtOk, Dropping
      <3>4. WritesOk(p)' /\ DropsOk(p)' BY <3>1 DEF WritesOk, Writing, DropsOk, Dropping
      <3>5. ScansOk(p)' /\ RestoresOk(p)' BY <3>1 DEF ScansOk, RestoresOk, Scanned
      <3> QED BY <3>2, <3>3, <3>4, <3>5 DEF CallOk
    <2> QED BY <2>1, <2>2
  <1>6. SharedOk' BY <1>2 DEF BookInv, SharedOk
  <1>7. \A c \in Customers : Accounted(c)'
    BY <1>2, <1>3 DEF BookInv, Accounted, Right
  <1> QED BY <1>5, <1>6, <1>7 DEF BookInv

\* A call that does not move: nobody changes the rows or the events of the
\* customers it owes alone.
LEMMA OthersKeep ==
    ASSUME BookInv, NEW p \in Op, op'[p] = op[p], owed'[p] = owed[p],
           shared[p] \subseteq shared'[p], events \subseteq events',
           \A c \in (Customers \cap owed[p]) \ shared'[p] :
              customers'[c] = customers[c] /\ balances'[c] = balances[c],
           \A c \in owed[p] \ shared'[p] :
              RowsOf(c)' = RowsOf(c) /\ EventsForCustomer(events', c) = EventsForCustomer(events, c),
           Scanned(op[p]) /\ op[p].scan = events' =>
              UNCHANGED events /\ \A c \in Customers : Mended(c) => Mended(c)'
    PROVE  CallOk(p)'
  <1>0. CallOk(p) BY DEF BookInv
  <1>1. KindOk(op[p])' BY <1>0 DEF CallOk, KindOk, Writing
  <1>2. DebtOk(p)'
    <2>1. Owners(events, Head(op[p].todo)) \subseteq Owners(events', Head(op[p].todo))
      BY OwnersGrow
    <2> QED BY <1>0, <2>1 DEF CallOk, DebtOk, Dropping
  <1>3. WritesOk(p)'
    <2> SUFFICES ASSUME Writing(op[p]), NEW c \in Customers \ shared'[p], op[p].cur = {c}
                 PROVE  /\ op[p].row = RowsOf(c)'
                        /\ op[p].pc = "writeBalance" => customers'[c] = op[p].row[1]
      BY DEF WritesOk, Writing
    <2>1. c \in owed[p] BY WritersOwe
    <2> QED BY <1>0, <2>1 DEF CallOk, WritesOk
  <1>4. DropsOk(p)'
    <2> SUFFICES ASSUME Dropping(op[p]), NEW c \in Customers \ shared'[p]
                 PROVE  customers'[c] = {} /\ (op[p].pc = "scan" => balances'[c] = {})
      BY DEF DropsOk, Dropping
    <2>1. c \in owed[p] BY WritersOwe
    <2> QED BY <1>0, <2>1 DEF CallOk, DropsOk
  <1>5. ScansOk(p)' BY <1>0 DEF CallOk, ScansOk, Scanned
  <1>6. RestoresOk(p)' BY <1>0 DEF CallOk, RestoresOk, Scanned
  <1> QED BY <1>1, <1>2, <1>3, <1>4, <1>5, <1>6 DEF CallOk

\* An INSERT changes the fold of the customers the event affects only, and o
\* owes them from here on.
LEMMA InsertBooks ==
    ASSUME StoreInv, TableInv, TableInv', StoreInv', BookInv, NEW o \in Op, Insert(o)
    PROVE  BookInv'
  <1>1. PICK h, e : /\ h = Head(op[o].todo)
                    /\ e = Joined([received |-> op[o].kind = "merge"], h)
                    /\ events' = events \cup {e} /\ Owes(o, Owners(events', e))
    BY DEF Insert
  <1>2. /\ op[o].pc = "insert" /\ op' = [op EXCEPT ![o].pc = "resolve"]
        /\ UNCHANGED <<customers, balances, used>>
    BY DEF Insert
  <1>3. PICK f : f = [op[o] EXCEPT !.pc = "resolve"] OBVIOUS
  <1>4. op'[o] = f /\ \A p \in Op \ {o} : op'[p] = op[p]
    BY <1>2, <1>3 DEF StoreInv, FramesOk
  <1>5. f.kind = op[o].kind /\ f.pc = "resolve" /\ f.todo = op[o].todo /\ f.touched = op[o].touched
    BY <1>3 DEF StoreInv, FramesOk, Shape
  <1>6. PayloadOk(h) /\ PayloadOk(e) /\ e \notin events /\ op[o].kind \in {"append", "merge"}
    BY <1>1, <1>2, InsertedRow DEF Ids
  <1> DEFINE C == Owners(events', e)
  <1>7. C = Owners(events', h) BY <1>1, <1>6, OwnersOfRow
  <1>8. Stamped(events) /\ Typed(events) /\ Stamped(events') /\ Typed(events')
    <2>1. (StoreInv /\ TableOk)' => (Stamped(events) /\ Typed(events))' BY TableIsLog, PTL
    <2> QED BY <2>1, TableIsLog DEF TableInv
  <1>9. /\ owed' = [p \in Op |-> owed'[p]] /\ shared' = [p \in Op |-> shared'[p]]
        /\ owed'[o] = owed[o] \cup C /\ \A p \in Op \ {o} : owed'[p] = owed[p]
        /\ \A p \in Op : shared[p] \subseteq shared'[p]
        /\ \A p \in Op \ {o} : C \cap owed[p] \subseteq shared'[p]
        /\ UNCHANGED <<lost, dropped, contested>> /\ SharedOk'
    BY <1>1, OwesShares
  <1>10. ASSUME NEW c, c \notin C
         PROVE  /\ EventsForCustomer(events', c) = EventsForCustomer(events, c)
                /\ RowsOf(c)' = RowsOf(c)
    <2>1. EventsForCustomer(events', c) = EventsForCustomer(events, c)
      BY <1>1, <1>6, <1>10, UnaffectedPart DEF PayloadOk
    <2>2. RowsOf(c) = LET part == Fold(EventsForCustomer(events, c))
                      IN  <<CustomerRow(part, c), BalanceRow(part, c)>>
      BY <1>8, PartIsWhole DEF RowsOf
    <2>3. RowsOf(c)' = LET part == Fold(EventsForCustomer(events', c))
                       IN  <<CustomerRow(part, c), BalanceRow(part, c)>>
      BY <1>8, PartIsWhole DEF RowsOf
    <2> QED BY <2>1, <2>2, <2>3
  <1> HIDE DEF C
  <1>11. ASSUME NEW p \in Op \ {o} PROVE CallOk(p)'
    <2>1. Scanned(op[p]) => op[p].scan # events'
      BY <1>1, <1>6 DEF BookInv, CallOk, ScansOk
    <2>2. \A c \in owed[p] \ shared'[p] : c \notin C BY <1>9
    <2> QED BY <1>1, <1>2, <1>4, <1>9, <1>10, <2>1, <2>2, OthersKeep
  <1>12. CallOk(o)'
    <2>1. KindOk(op[o])' BY <1>4, <1>5, <1>6 DEF KindOk, Writing, Idle
    <2>2. owed[o] = op[o].touched BY <1>2, WritersOwe DEF Dropping
    <2>3. DebtOk(o)' BY <1>1, <1>4, <1>5, <1>7, <1>9, <2>2 DEF DebtOk, Dropping
    <2>4. WritesOk(o)' /\ DropsOk(o)' BY <1>4, <1>5 DEF WritesOk, Writing, DropsOk, Dropping
    <2>5. ScansOk(o)' /\ RestoresOk(o)' BY <1>4, <1>5 DEF ScansOk, RestoresOk, Scanned
    <2> QED BY <2>1, <2>3, <2>4, <2>5 DEF CallOk
  <1>13. ASSUME NEW c \in Customers PROVE Accounted(c)'
    <2>1. CASE c \in C BY <1>9, <2>1 DEF Accounted
    <2>2. CASE c \notin C
      <3>1. Right(c)' <=> Right(c) BY <1>2, <1>10, <2>2 DEF Right
      <3> QED BY <1>9, <3>1 DEF BookInv, Accounted
    <2> QED BY <2>1, <2>2
  <1>14. HistoryOk' BY <1>2, <1>9 DEF BookInv, HistoryOk
  <1> QED BY <1>9, <1>11, <1>12, <1>13, <1>14 DEF BookInv

\* A customer that was mended stays so when no row changes, no call stops
\* owing it, and who writes it writes what he wrote, or what the fold gives.
LEMMA MendedStays ==
    ASSUME BookInv, UNCHANGED <<events, customers, balances>>,
           contested \subseteq contested', dropped \subseteq dropped',
           NEW c \in Customers, Mended(c),
           \A q \in Op : op[q].kind = "rebuild" /\ c \in owed[q] =>
              (op'[q].kind = "rebuild" /\ c \in owed'[q]) \/ c \in dropped',
           \A q \in Op : Writing(op'[q]) /\ op'[q].cur = {c} =>
              \/ Writing(op[q]) /\ op[q].cur = {c} /\ op'[q].row = op[q].row
              \/ op'[q].row = RowsOf(c)
    PROVE  Mended(c)'
  <1>1. RowsOf(c)' = RowsOf(c) BY RowsStay
  <1>2. CASE c \in contested \cup dropped BY <1>2 DEF Mended
  <1>3. CASE \E p \in Op : op[p].kind = "rebuild" /\ c \in owed[p] BY <1>3 DEF Mended
  <1>4. CASE Restored(c)
    <2>1. Right(c)' BY <1>1, <1>4 DEF Restored, Right
    <2>2. ASSUME NEW q \in Op, Writing(op'[q]), op'[q].cur = {c} PROVE op'[q].row = RowsOf(c)'
      BY <1>1, <1>4, <2>2 DEF Restored
    <2> QED BY <2>1, <2>2 DEF Mended, Restored, Writing
  <1> QED BY <1>2, <1>3, <1>4 DEF Mended

\* The statement a call is at when it has been through Onward.
LEMMA OnwardKind ==
    ASSUME NEW g, Shape(g), g.kind = "rebuild" => g.todo = <<>>,
           g.kind \in {"append", "merge", "rebuild"}, NEW f, f = Onward(g)
    PROVE  /\ KindOk(f) /\ ~Writing(f) /\ ~Dropping(f) /\ f.pc # "resolve"
           /\ f.touched = g.touched
           /\ Scanned(f) => g.kind = "rebuild" /\ f.scan = g.scan
           /\ g.touched # {} => f.kind = g.kind
           /\ f.kind \in {g.kind, "none"}
  <1>1. CASE f = Idle /\ g.todo = <<>> /\ g.touched = {}
    BY <1>1 DEF Idle, KindOk, Writing, Dropping, Scanned
  <1>2. CASE /\ f.kind = g.kind /\ f.todo = g.todo /\ f.touched = g.touched
             /\ f.cur = g.cur /\ f.row = g.row /\ f.scan = g.scan
             /\ f.pc = IF g.todo # <<>> THEN "select" ELSE "refold"
    BY <1>2 DEF KindOk, Writing, Dropping, Scanned
  <1> QED BY <1>1, <1>2, OnwardFields

\* A call learns whom its event affects, and owes them.
LEMMA ResolveBooks ==
    ASSUME StoreInv, BookInv, NEW o \in Op, Resolve(o)
    PROVE  BookInv'
  <1> DEFINE C == Owners(events, Head(op[o].todo))
  <1>1. /\ op[o].pc = "resolve" /\ UNCHANGED <<events, customers, balances, used>>
        /\ Owes(o, C)
    BY DEF Resolve, tables
  <1>2. op[o].kind \in {"append", "merge"} /\ op[o].todo # <<>>
    BY <1>1 DEF StoreInv, FramesOk, Shape, InPlace
  <1>3. PICK k : /\ op' = [op EXCEPT ![o] = Onward(k)] /\ Shape(k) /\ k.kind = op[o].kind
                 /\ k.touched = op[o].touched \cup C
    BY ResolvedFrame
  <1>4. PICK f : f = Onward(k) /\ op' = [op EXCEPT ![o] = f] BY <1>3
  <1>5. op'[o] = f /\ \A p \in Op \ {o} : op'[p] = op[p] BY <1>4, CallMoves
  <1>6. /\ KindOk(f) /\ ~Writing(f) /\ ~Dropping(f) /\ f.pc # "resolve"
        /\ f.touched = op[o].touched \cup C /\ ~Scanned(f)
    BY <1>2, <1>3, <1>4, OnwardKind
  <1>7. /\ owed' = [p \in Op |-> owed'[p]] /\ shared' = [p \in Op |-> shared'[p]]
        /\ owed'[o] = owed[o] \cup C /\ \A p \in Op \ {o} : owed'[p] = owed[p]
        /\ \A p \in Op : shared[p] \subseteq shared'[p]
        /\ UNCHANGED <<lost, dropped, contested>> /\ SharedOk'
    BY <1>1, OwesShares
  <1>8. op[o].touched \subseteq owed[o] /\ owed[o] \subseteq op[o].touched \cup C
    BY <1>1 DEF BookInv, CallOk, DebtOk, Dropping
  <1> HIDE DEF C
  <1>9. \A c : RowsOf(c)' = RowsOf(c) BY <1>1, RowsStay
  <1>10. ASSUME NEW c \in Customers, Mended(c) PROVE Mended(c)'
    <2>1. \A q \in Op : op[q].kind = "rebuild" /\ c \in owed[q] =>
             op'[q].kind = "rebuild" /\ c \in owed'[q]
      BY <1>2, <1>5, <1>7
    <2>2. \A q \in Op : Writing(op'[q]) /\ op'[q].cur = {c} => op'[q] = op[q]
      BY <1>5, <1>6
    <2> QED BY <1>1, <1>7, <1>10, <2>1, <2>2, MendedStays
  <1>11. ASSUME NEW p \in Op \ {o} PROVE CallOk(p)'
    BY <1>1, <1>5, <1>7, <1>9, <1>10, OthersKeep
  <1>12. CallOk(o)'
    <2>1. KindOk(op[o])' BY <1>5, <1>6 DEF KindOk, Writing
    <2>2. DebtOk(o)' BY <1>5, <1>6, <1>7, <1>8 DEF DebtOk, Dropping
    <2>3. WritesOk(o)' /\ DropsOk(o)' BY <1>5, <1>6 DEF WritesOk, Writing, DropsOk, Dropping
    <2>4. ScansOk(o)' /\ RestoresOk(o)' BY <1>5, <1>6 DEF ScansOk, RestoresOk, Scanned
    <2> QED BY <2>1, <2>2, <2>3, <2>4 DEF CallOk
  <1>13. \A c \in Customers : Accounted(c)'
    BY <1>1, <1>7, <1>9 DEF BookInv, Accounted, Right
  <1>14. HistoryOk' BY <1>1, <1>7 DEF BookInv, HistoryOk
  <1> QED BY <1>7, <1>11, <1>12, <1>13, <1>14 DEF BookInv

\* A call folds the rows of a customer it has touched.
LEMMA RefoldBooks ==
    ASSUME StoreInv, TableInv, BookInv, NEW o \in Op, NEW c \in Customers, Refold(o, c)
    PROVE  BookInv'
  <1> DEFINE log == IF op[o].kind = "rebuild" THEN op[o].scan ELSE events
             state == Fold(EventsForCustomer(log, c))
  <1>1. PICK row, f : /\ row = <<CustomerRow(state, c), BalanceRow(state, c)>>
                      /\ f = [op[o] EXCEPT !.pc = "writeCustomer", !.cur = {c}, !.row = row]
                      /\ op' = [op EXCEPT ![o] = f]
    BY DEF Refold
  <1>2. /\ op[o].pc = "refold" /\ c \in op[o].touched
        /\ UNCHANGED <<events, customers, balances, used, history>>
    BY DEF Refold, tables
  <1>3. op'[o] = f /\ \A p \in Op \ {o} : op'[p] = op[p] BY <1>1, CallMoves
  <1>4. /\ f.kind = op[o].kind /\ f.pc = "writeCustomer" /\ f.touched = op[o].touched
        /\ f.cur = {c} /\ f.row = row /\ f.scan = op[o].scan
    BY <1>1 DEF StoreInv, FramesOk, Shape
  <1>5. UNCHANGED <<owed, shared, lost, dropped, contested>> BY <1>2 DEF history
  <1>6. \A d : RowsOf(d)' = RowsOf(d) BY <1>2, RowsStay
  <1>7. KindOk(op[o]) /\ owed[o] = op[o].touched
    BY <1>2, WritersOwe DEF BookInv, CallOk, Dropping
  <1>8. op[o].kind \in {"append", "merge", "rebuild"}
    <2>1. op[o].kind \in {"none", "append", "merge", "rebuild"} BY DEF StoreInv, FramesOk, Shape
    <2> QED BY <1>2, <1>7, <2>1 DEF KindOk, Idle
  <1>9. op[o].kind # "rebuild" \/ c \notin shared[o] => row = RowsOf(c)
    <2> SUFFICES ASSUME op[o].kind # "rebuild" \/ c \notin shared[o] PROVE row = RowsOf(c)
      OBVIOUS
    <2>1. EventsForCustomer(log, c) = EventsForCustomer(events, c)
      <3>1. CASE op[o].kind # "rebuild" BY <3>1
      <3>2. CASE op[o].kind = "rebuild" /\ c \notin shared[o]
        <4>1. Scanned(op[o]) BY <1>2, <3>2 DEF Scanned
        <4>2. ScansOk(o) /\ c \in owed[o] \ shared[o] BY <1>2, <1>7, <3>2 DEF BookInv, CallOk
        <4>3. EventsForCustomer(op[o].scan, c) = EventsForCustomer(events, c)
          BY <4>1, <4>2 DEF ScansOk
        <4> QED BY <3>2, <4>3
      <3> QED BY <3>1, <3>2
    <2> HIDE DEF log
    <2> QED BY <1>1, <2>1, RowsOfPart
  <1> HIDE DEF log, state
  <1>10. ASSUME NEW d \in Customers, Mended(d) PROVE Mended(d)'
    <2>1. \A q \in Op : op[q].kind = "rebuild" /\ d \in owed[q] =>
             op'[q].kind = "rebuild" /\ d \in owed'[q]
      BY <1>3, <1>4, <1>5
    <2>2. CASE d = c /\ op[o].kind = "rebuild"
      <3>1. op'[o].kind = "rebuild" /\ d \in owed'[o] BY <1>2, <1>3, <1>4, <1>5, <1>7, <2>2
      <3> QED BY <3>1 DEF Mended
    <2>3. CASE d # c \/ op[o].kind # "rebuild"
      <3>1. ASSUME NEW q \in Op, Writing(op'[q]), op'[q].cur = {d}
            PROVE  op'[q] = op[q] \/ op'[q].row = RowsOf(d)
        BY <1>3, <1>4, <1>9, <2>3, <3>1
      <3> QED BY <1>2, <1>5, <1>10, <2>1, <3>1, MendedStays
    <2> QED BY <2>2, <2>3
  <1>11. ASSUME NEW p \in Op \ {o} PROVE CallOk(p)'
    BY <1>2, <1>3, <1>5, <1>6, <1>10, OthersKeep
  <1>12. CallOk(o)'
    <2>0. CallOk(o) BY DEF BookInv
    <2>1. KindOk(op[o])' BY <1>2, <1>3, <1>4, <1>7, <1>8 DEF KindOk, Writing
    <2>2. DebtOk(o)' BY <1>3, <1>4, <1>5, <1>7 DEF DebtOk, Dropping
    <2>3. WritesOk(o)' BY <1>3, <1>4, <1>5, <1>6, <1>9 DEF WritesOk, Writing
    <2>4. DropsOk(o)' BY <1>3, <1>4 DEF DropsOk, Dropping
    <2>5. Scanned(f) => Scanned(op[o]) BY <1>2, <1>4 DEF Scanned
    <2>6. ScansOk(o)' BY <1>2, <1>3, <1>4, <1>5, <2>0, <2>5 DEF CallOk, ScansOk, Scanned
    <2>7. RestoresOk(o)' BY <1>2, <1>3, <1>4, <1>10, <2>0, <2>5 DEF CallOk, RestoresOk, Scanned
    <2> QED BY <2>1, <2>2, <2>3, <2>4, <2>6, <2>7 DEF CallOk
  <1>13. \A d \in Customers : Accounted(d)'
    BY <1>2, <1>5, <1>6 DEF BookInv, Accounted, Right
  <1>14. HistoryOk' /\ SharedOk' BY <1>2, <1>5 DEF BookInv, HistoryOk, SharedOk
  <1> QED BY <1>11, <1>12, <1>13, <1>14 DEF BookInv

\* The first half of writeProjection.
LEMMA CustomerBooks ==
    ASSUME StoreInv, BookInv, NEW o \in Op, NEW c \in Customers, WriteCustomer(o, c)
    PROVE  BookInv'
  <1>1. /\ op[o].pc = "writeCustomer" /\ op[o].cur = {c}
        /\ customers' = [customers EXCEPT ![c] = op[o].row[1]]
        /\ UNCHANGED <<events, balances, used, history>>
    BY DEF WriteCustomer
  <1>2. PICK f : f = [op[o] EXCEPT !.pc = "writeBalance"] OBVIOUS
  <1>3. op'[o] = f /\ \A p \in Op \ {o} : op'[p] = op[p]
    BY <1>2 DEF WriteCustomer, StoreInv, FramesOk
  <1>4. /\ f.kind = op[o].kind /\ f.pc = "writeBalance" /\ f.touched = op[o].touched
        /\ f.cur = {c} /\ f.row = op[o].row /\ f.scan = op[o].scan
    BY <1>1, <1>2 DEF StoreInv, FramesOk, Shape
  <1>5. UNCHANGED <<owed, shared, lost, dropped, contested>> BY <1>1 DEF history
  <1>6. \A d : RowsOf(d)' = RowsOf(d) BY <1>1, RowsStay
  <1>7. /\ customers' = [d \in Customers |-> customers'[d]] /\ customers'[c] = op[o].row[1]
        /\ \A d \in Customers \ {c} : customers'[d] = customers[d]
    BY <1>1 DEF BookInv, HistoryOk
  <1>8. c \in owed[o] /\ c \in op[o].touched /\ owed[o] = op[o].touched
    BY <1>1, WritersOwe DEF Writing, Dropping
  <1>9. ASSUME NEW d \in Customers, Mended(d) PROVE Mended(d)'
    <2>1. CASE d \in contested \cup dropped BY <1>5, <2>1 DEF Mended
    <2>2. CASE \E p \in Op : op[p].kind = "rebuild" /\ d \in owed[p]
      BY <1>3, <1>4, <1>5, <2>2 DEF Mended
    <2>3. CASE Restored(d)
      <3>1. \A q \in Op : Writing(op'[q]) /\ op'[q].cur = {d} => op'[q].row = RowsOf(d)
        BY <1>1, <1>3, <1>4, <2>3 DEF Restored, Writing
      <3>2. d = c => op[o].row = RowsOf(c)
        BY <1>1, <2>3 DEF Restored, Writing
      <3>3. Right(d)'
        <4>1. CASE d # c BY <1>1, <1>6, <1>7, <2>3, <4>1 DEF Restored, Right
        <4>2. CASE d = c
          <5>1. customers'[c] = customers[c]
            BY <1>7, <2>3, <3>2, <4>2 DEF Restored, Right, RowsOf
          <5> QED BY <1>1, <1>6, <2>3, <4>2, <5>1 DEF Restored, Right
        <4> QED BY <4>1, <4>2
      <3> QED BY <1>6, <3>1, <3>3 DEF Mended, Restored, Writing
    <2> QED BY <1>9, <2>1, <2>2, <2>3 DEF Mended
  <1>10. ASSUME NEW p \in Op \ {o} PROVE CallOk(p)'
    <2>1. c \in owed[p] => c \in shared'[p] BY <1>5, <1>8 DEF BookInv, SharedOk
    <2>2. \A d \in (Customers \cap owed[p]) \ shared'[p] : customers'[d] = customers[d]
      BY <1>7, <2>1
    <2> QED BY <1>1, <1>3, <1>5, <1>6, <1>9, <2>2, OthersKeep
  <1>11. CallOk(o)'
    <2>0. CallOk(o) BY DEF BookInv
    <2>1. KindOk(op[o])' BY <1>1, <1>3, <1>4, <1>8, <2>0 DEF CallOk, KindOk, Writing, Idle
    <2>2. DebtOk(o)' BY <1>3, <1>4, <1>5, <1>8 DEF DebtOk, Dropping
    <2>3. WritesOk(o)'
      BY <1>1, <1>3, <1>4, <1>5, <1>6, <1>7, <2>0 DEF CallOk, WritesOk, Writing
    <2>4. DropsOk(o)' BY <1>3, <1>4 DEF DropsOk, Dropping
    <2>5. Scanned(f) => Scanned(op[o]) BY <1>1, <1>4 DEF Scanned
    <2>6. ScansOk(o)' BY <1>1, <1>3, <1>4, <1>5, <2>0, <2>5 DEF CallOk, ScansOk, Scanned
    <2>7. RestoresOk(o)' BY <1>1, <1>3, <1>4, <1>9, <2>0, <2>5 DEF CallOk, RestoresOk, Scanned
    <2> QED BY <2>1, <2>2, <2>3, <2>4, <2>6, <2>7 DEF CallOk
  <1>12. ASSUME NEW d \in Customers PROVE Accounted(d)'
    <2>1. CASE d = c BY <1>5, <1>8, <2>1 DEF Accounted
    <2>2. CASE d # c BY <1>1, <1>5, <1>6, <1>7, <2>2 DEF BookInv, Accounted, Right
    <2> QED BY <2>1, <2>2
  <1>13. HistoryOk' /\ SharedOk' BY <1>1, <1>5, <1>7 DEF BookInv, HistoryOk, SharedOk
  <1> QED BY <1>10, <1>11, <1>12, <1>13 DEF BookInv

\* The second half: the customer is settled, and mended.
LEMMA BalanceBooks ==
    ASSUME StoreInv, BookInv, NEW o \in Op, NEW c \in Customers, WriteBalance(o, c)
    PROVE  BookInv' /\ \A d \in Customers : Mended(d) => Mended(d)'
  <1>1. PICK g : /\ g = [op[o] EXCEPT !.touched = @ \ {c}, !.cur = {}, !.row = <<>>]
                 /\ op' = [op EXCEPT ![o] = Onward(g)]
    BY DEF WriteBalance
  <1>2. /\ op[o].pc = "writeBalance" /\ op[o].cur = {c}
        /\ balances' = [balances EXCEPT ![c] = op[o].row[2]]
        /\ Settles(o, {c}) /\ UNCHANGED <<events, customers, used>>
    BY DEF WriteBalance, BalanceAfter
  <1>3. Shape(op[o]) BY DEF StoreInv, FramesOk
  <1>4. /\ g.kind = op[o].kind /\ g.pc = op[o].pc /\ g.todo = op[o].todo
        /\ g.touched = op[o].touched \ {c} /\ g.scan = op[o].scan
        /\ g \in [kind : {"none", "append", "merge", "rebuild"}, pc : Pcs, todo : {g.todo},
                  page : {g.page}, touched : {g.touched}, cur : {g.cur}, row : {g.row},
                  scan : {g.scan}]
    BY <1>1, <1>3 DEF Shape
  <1>5. Shape(g) BY <1>3, <1>4 DEF Shape
  <1>6. op[o].kind \in {"append", "merge", "rebuild"}
    <2>1. KindOk(op[o]) BY DEF BookInv, CallOk
    <2> QED BY <1>2, <1>3, <2>1 DEF KindOk, Idle, Shape
  <1>7. PICK f : f = Onward(g) /\ op' = [op EXCEPT ![o] = f] BY <1>1
  <1>8. op'[o] = f /\ \A p \in Op \ {o} : op'[p] = op[p] BY <1>7, CallMoves
  <1>9. /\ KindOk(f) /\ ~Writing(f) /\ ~Dropping(f) /\ f.pc # "resolve"
        /\ f.touched = op[o].touched \ {c}
        /\ Scanned(f) => Scanned(op[o]) /\ f.scan = op[o].scan
        /\ f.touched # {} => f.kind = op[o].kind
    <2>1. g.kind = "rebuild" => g.todo = <<>> BY <1>3, <1>4 DEF Shape
    <2>2. Scanned(f) => op[o].kind = "rebuild" /\ f.scan = op[o].scan
      BY <1>4, <1>5, <1>6, <1>7, <2>1, OnwardKind
    <2> QED BY <1>2, <1>4, <1>5, <1>6, <1>7, <2>1, <2>2, OnwardKind DEF Scanned
  <1>10. /\ owed' = [p \in Op |-> owed'[p]] /\ shared' = [p \in Op |-> shared'[p]]
         /\ owed'[o] = owed[o] \ {c} /\ \A p \in Op \ {o} : owed'[p] = owed[p]
         /\ shared'[o] = shared[o] \ {c} /\ \A p \in Op \ {o} : shared'[p] = shared[p]
         /\ lost' = lost \ {c} /\ dropped' = dropped \ {c}
         /\ contested' = (contested \ {c}) \cup ({c} \cap shared[o])
         /\ SharedOk'
    BY <1>2, SettlesShares
  <1>11. c \in owed[o] /\ owed[o] = op[o].touched
    BY <1>2, WritersOwe DEF Writing, Dropping
  <1>12. \A d : RowsOf(d)' = RowsOf(d) BY <1>2, RowsStay
  <1>13. /\ balances' = [d \in Customers |-> balances'[d]] /\ balances'[c] = op[o].row[2]
         /\ \A d \in Customers \ {c} : balances'[d] = balances[d]
    BY <1>2 DEF BookInv, HistoryOk
  <1>14. c \notin shared[o] => Restored(c)'
    <2> SUFFICES ASSUME c \notin shared[o] PROVE Restored(c)'
      OBVIOUS
    <2>1. op[o].row = RowsOf(c) /\ customers[c] = op[o].row[1]
      BY <1>2 DEF BookInv, CallOk, WritesOk, Writing
    <2>2. Right(c)' BY <1>2, <1>12, <1>13, <2>1 DEF Right, RowsOf
    <2>3. \A q \in Op : ~(Writing(op'[q]) /\ op'[q].cur = {c})
      BY <1>8, <1>9, <1>11, WritesAlone
    <2> QED BY <2>2, <2>3 DEF Restored, Writing
  <1>15. ASSUME NEW d \in Customers, Mended(d) PROVE Mended(d)'
    <2>1. CASE d = c
      BY <1>10, <1>14, <2>1 DEF Mended
    <2>2. CASE d # c
      <3>1. CASE d \in contested \cup dropped BY <1>10, <2>2, <3>1 DEF Mended
      <3>2. CASE \E p \in Op : op[p].kind = "rebuild" /\ d \in owed[p]
        <4>1. PICK p \in Op : op[p].kind = "rebuild" /\ d \in owed[p] BY <3>2
        <4>2. d \in owed'[p] /\ op'[p].kind = "rebuild"
          <5>1. CASE p = o BY <1>8, <1>9, <1>10, <1>11, <2>2, <4>1, <5>1
          <5>2. CASE p # o BY <1>8, <1>10, <4>1, <5>2
          <5> QED BY <5>1, <5>2
        <4> QED BY <4>2 DEF Mended
      <3>3. CASE Restored(d)
        <4>1. Right(d)' BY <1>2, <1>12, <1>13, <2>2, <3>3 DEF Restored, Right
        <4>2. \A q \in Op : Writing(op'[q]) /\ op'[q].cur = {d} => op'[q].row = RowsOf(d)
          BY <1>8, <1>9, <3>3 DEF Restored
        <4> QED BY <1>12, <4>1, <4>2 DEF Mended, Restored, Writing
      <3> QED BY <1>15, <3>1, <3>2, <3>3 DEF Mended
    <2> QED BY <2>1, <2>2
  <1>16. ASSUME NEW p \in Op \ {o} PROVE CallOk(p)'
    <2>1. c \in owed[p] => c \in shared'[p] BY <1>10, <1>11 DEF BookInv, SharedOk
    <2>2. \A d \in (Customers \cap owed[p]) \ shared'[p] : balances'[d] = balances[d]
      BY <1>13, <2>1
    <2> QED BY <1>2, <1>8, <1>10, <1>12, <1>15, <2>2, OthersKeep
  <1>17. CallOk(o)'
    <2>0. CallOk(o) BY DEF BookInv
    <2>1. KindOk(op[o])' BY <1>8, <1>9 DEF KindOk, Writing
    <2>2. DebtOk(o)' BY <1>8, <1>9, <1>10, <1>11 DEF DebtOk, Dropping
    <2>3. WritesOk(o)' /\ DropsOk(o)' BY <1>8, <1>9 DEF WritesOk, Writing, DropsOk, Dropping
    <2>4. ScansOk(o)' BY <1>2, <1>8, <1>9, <1>10, <2>0 DEF CallOk, ScansOk, Scanned
    <2>5. RestoresOk(o)' BY <1>2, <1>8, <1>9, <1>15, <2>0 DEF CallOk, RestoresOk, Scanned
    <2> QED BY <2>1, <2>2, <2>3, <2>4, <2>5 DEF CallOk
  <1>18. ASSUME NEW d \in Customers PROVE Accounted(d)'
    <2>1. CASE d = c BY <1>10, <1>14, <2>1 DEF Accounted, Restored
    <2>2. CASE d # c
      <3>1. Right(d)' <=> Right(d) BY <1>2, <1>12, <1>13, <2>2 DEF Right
      <3>2. \A p \in Op : d \in owed[p] => d \in owed'[p] BY <1>10, <2>2
      <3> QED BY <1>10, <2>2, <3>1, <3>2 DEF BookInv, Accounted
    <2> QED BY <2>1, <2>2
  <1>19. HistoryOk' BY <1>2, <1>10, <1>13 DEF BookInv, HistoryOk
  <1> QED BY <1>10, <1>15, <1>16, <1>17, <1>18, <1>19 DEF BookInv

\* A rebuild empties a table and owes all customers.
LEMMA DropCustomersBooks ==
    ASSUME StoreInv, BookInv, NEW o \in Op, DropCustomers(o)
    PROVE  BookInv'
  <1>1. /\ op[o].pc = "dropCustomers" /\ customers' = [c \in Customers |-> {}]
        /\ UNCHANGED <<events, balances, used>> /\ Owes(o, Customers)
    BY DEF DropCustomers
  <1>2. PICK f : f = [op[o] EXCEPT !.pc = "dropBalances"] OBVIOUS
  <1>3. op'[o] = f /\ \A p \in Op \ {o} : op'[p] = op[p]
    BY <1>2 DEF DropCustomers, StoreInv, FramesOk
  <1>4. f.kind = op[o].kind /\ f.pc = "dropBalances" /\ f.touched = op[o].touched
    BY <1>2 DEF StoreInv, FramesOk, Shape
  <1>5. KindOk(op[o]) BY DEF BookInv, CallOk
  <1>6. op[o].kind = "rebuild" /\ op[o].touched = {} /\ owed[o] = {}
    <2>1. op[o].kind \in {"none", "append", "merge", "rebuild"} BY DEF StoreInv, FramesOk, Shape
    <2>2. owed[o] = op[o].touched BY <1>1, WritersOwe DEF Dropping
    <2> QED BY <1>1, <1>5, <2>1, <2>2 DEF KindOk, Idle
  <1>7. /\ owed' = [p \in Op |-> owed'[p]] /\ shared' = [p \in Op |-> shared'[p]]
        /\ owed'[o] = owed[o] \cup Customers /\ \A p \in Op \ {o} : owed'[p] = owed[p]
        /\ \A p \in Op : shared[p] \subseteq shared'[p]
        /\ \A p \in Op \ {o} : Customers \cap owed[p] \subseteq shared'[p]
        /\ UNCHANGED <<lost, dropped, contested>> /\ SharedOk'
    BY <1>1, OwesShares
  <1>8. \A d : RowsOf(d)' = RowsOf(d) BY <1>1, RowsStay
  <1>9. \A d \in Customers : Mended(d)' BY <1>3, <1>4, <1>6, <1>7 DEF Mended
  <1>10. ASSUME NEW p \in Op \ {o} PROVE CallOk(p)'
    <2>1. (Customers \cap owed[p]) \ shared'[p] = {} BY <1>7
    <2> QED BY <1>1, <1>3, <1>7, <1>8, <1>9, <2>1, OthersKeep
  <1>11. CallOk(o)'
    <2>1. KindOk(op[o])' BY <1>3, <1>4, <1>6 DEF KindOk, Writing
    <2>2. DebtOk(o)' BY <1>3, <1>4, <1>6, <1>7 DEF DebtOk, Dropping
    <2>3. WritesOk(o)' BY <1>3, <1>4 DEF WritesOk, Writing
    <2>4. DropsOk(o)' BY <1>1, <1>3, <1>4 DEF DropsOk, Dropping
    <2>5. ScansOk(o)' /\ RestoresOk(o)' BY <1>3, <1>4 DEF ScansOk, RestoresOk, Scanned
    <2> QED BY <2>1, <2>2, <2>3, <2>4, <2>5 DEF CallOk
  <1>12. \A d \in Customers : Accounted(d)' BY <1>7 DEF Accounted
  <1>13. HistoryOk' BY <1>1, <1>7 DEF BookInv, HistoryOk
  <1> QED BY <1>7, <1>10, <1>11, <1>12, <1>13 DEF BookInv

LEMMA DropBalancesBooks ==
    ASSUME StoreInv, BookInv, NEW o \in Op, DropBalances(o)
    PROVE  BookInv'
  <1>1. /\ op[o].pc = "dropBalances" /\ balances' = [c \in Customers |-> {}]
        /\ UNCHANGED <<events, customers, used, history>>
    BY DEF DropBalances
  <1>2. PICK f : f = [op[o] EXCEPT !.pc = "scan"] OBVIOUS
  <1>3. op'[o] = f /\ \A p \in Op \ {o} : op'[p] = op[p]
    BY <1>2 DEF DropBalances, StoreInv, FramesOk
  <1>4. f.kind = op[o].kind /\ f.pc = "scan" /\ f.touched = op[o].touched
    BY <1>2 DEF StoreInv, FramesOk, Shape
  <1>5. CallOk(o) /\ KindOk(op[o]) BY DEF BookInv, CallOk
  <1>6. op[o].kind = "rebuild" /\ op[o].touched = {} /\ owed[o] = Customers
    <2>1. op[o].kind \in {"none", "append", "merge", "rebuild"} BY DEF StoreInv, FramesOk, Shape
    <2> QED BY <1>1, <1>5, <2>1 DEF CallOk, KindOk, DebtOk, Dropping, Idle
  <1>7. UNCHANGED <<owed, shared, lost, dropped, contested>> BY <1>1 DEF history
  <1>8. \A d : RowsOf(d)' = RowsOf(d) BY <1>1, RowsStay
  <1>9. \A d \in Customers : Mended(d)' BY <1>3, <1>4, <1>6, <1>7 DEF Mended
  <1>10. ASSUME NEW p \in Op \ {o} PROVE CallOk(p)'
    <2>1. (Customers \cap owed[p]) \ shared'[p] = {}
      BY <1>6, <1>7 DEF BookInv, SharedOk
    <2> QED BY <1>1, <1>3, <1>7, <1>8, <1>9, <2>1, OthersKeep
  <1>11. CallOk(o)'
    <2>1. KindOk(op[o])' BY <1>3, <1>4, <1>6 DEF KindOk, Writing
    <2>2. DebtOk(o)' BY <1>3, <1>4, <1>6, <1>7 DEF DebtOk, Dropping
    <2>3. WritesOk(o)' BY <1>3, <1>4 DEF WritesOk, Writing
    <2>4. DropsOk(o)' BY <1>1, <1>3, <1>4, <1>5, <1>7 DEF CallOk, DropsOk, Dropping
    <2>5. ScansOk(o)' /\ RestoresOk(o)' BY <1>3, <1>4 DEF ScansOk, RestoresOk, Scanned
    <2> QED BY <2>1, <2>2, <2>3, <2>4, <2>5 DEF CallOk
  <1>12. \A d \in Customers : Accounted(d)' BY <1>6, <1>7 DEF Accounted
  <1>13. HistoryOk' /\ SharedOk' BY <1>1, <1>7 DEF BookInv, HistoryOk, SharedOk
  <1> QED BY <1>10, <1>11, <1>12, <1>13 DEF BookInv

\* A rebuild reads the table: whoever it does not find there has no rows.
LEMMA ScanBooks ==
    ASSUME StoreInv, TableInv, BookInv, NEW o \in Op, Scan(o)
    PROVE  BookInv' /\ \A d \in Customers : Mended(d)'
  <1>1. PICK found, g : /\ found = UNION {Owners(events, e) : e \in events}
                        /\ g = [op[o] EXCEPT !.touched = found, !.scan = events]
                        /\ op' = [op EXCEPT ![o] = Onward(g)]
                        /\ Settles(o, Customers \ found)
    BY DEF Scan
  <1>2. op[o].pc = "scan" /\ UNCHANGED <<events, customers, balances, used>>
    BY DEF Scan, tables
  <1>3. Shape(op[o]) BY DEF StoreInv, FramesOk
  <1>4. /\ g.kind = op[o].kind /\ g.todo = op[o].todo /\ g.touched = found /\ g.scan = events
        /\ g \in [kind : {"none", "append", "merge", "rebuild"}, pc : Pcs, todo : {g.todo},
                  page : {g.page}, touched : {g.touched}, cur : {g.cur}, row : {g.row},
                  scan : {g.scan}]
    BY <1>1, <1>3 DEF Shape
  <1>5. Shape(g) BY <1>3, <1>4 DEF Shape
  <1>6. CallOk(o) /\ KindOk(op[o]) BY DEF BookInv, CallOk
  <1>7. op[o].kind = "rebuild" /\ owed[o] = Customers
    BY <1>2, <1>3, <1>6 DEF CallOk, KindOk, DebtOk, Dropping, Idle, Shape
  <1>8. PICK f : f = Onward(g) /\ op' = [op EXCEPT ![o] = f] BY <1>1
  <1>9. op'[o] = f /\ \A p \in Op \ {o} : op'[p] = op[p] BY <1>8, CallMoves
  <1>10. /\ KindOk(f) /\ ~Writing(f) /\ ~Dropping(f) /\ f.pc # "resolve"
         /\ f.touched = found /\ (Scanned(f) => f.scan = events)
         /\ found # {} => f.kind = "rebuild"
    <2>1. g.kind = "rebuild" => g.todo = <<>> BY <1>3, <1>4 DEF Shape
    <2>2. Scanned(f) => f.scan = events BY <1>4, <1>5, <1>7, <1>8, <2>1, OnwardKind
    <2> QED BY <1>4, <1>5, <1>7, <1>8, <2>1, <2>2, OnwardKind
  <1>11. found \subseteq Customers
    BY <1>1, OwnersAreCustomers DEF TableInv, TableOk
  <1> DEFINE C == Customers \ found
  <1>12. /\ owed' = [p \in Op |-> owed'[p]] /\ shared' = [p \in Op |-> shared'[p]]
         /\ owed'[o] = owed[o] \ C /\ \A p \in Op \ {o} : owed'[p] = owed[p]
         /\ shared'[o] = shared[o] \ C /\ \A p \in Op \ {o} : shared'[p] = shared[p]
         /\ lost' = lost \ C /\ dropped' = dropped \ C
         /\ contested' = (contested \ C) \cup (C \cap shared[o])
         /\ SharedOk'
    BY <1>1, SettlesShares
  <1>13. \A d : RowsOf(d)' = RowsOf(d) BY <1>2, RowsStay
  <1>14. ASSUME NEW d \in C, d \notin shared[o] PROVE Restored(d)'
    <2>1. RowsOf(d) = <<{}, {}>> BY <1>1, NoEventsNoRows
    <2>2. customers[d] = {} /\ balances[d] = {}
      BY <1>2, <1>6, <1>14 DEF CallOk, DropsOk, Dropping
    <2>3. Right(d)' BY <1>2, <1>13, <2>1, <2>2 DEF Right
    <2>4. \A q \in Op : ~(Writing(op'[q]) /\ op'[q].cur = {d})
      BY <1>7, <1>9, <1>10, <1>14, WritesAlone
    <2> QED BY <2>3, <2>4 DEF Restored, Writing
  <1>15. ASSUME NEW d \in Customers PROVE Mended(d)'
    <2>1. CASE d \in C BY <1>12, <1>14, <2>1 DEF Mended
    <2>2. CASE d \in found BY <1>7, <1>9, <1>10, <1>12, <2>2 DEF Mended
    <2> QED BY <2>1, <2>2
  <1>16. ASSUME NEW p \in Op \ {o} PROVE CallOk(p)'
    BY <1>2, <1>9, <1>12, <1>13, <1>15, OthersKeep
  <1>17. CallOk(o)'
    <2>1. KindOk(op[o])' BY <1>9, <1>10 DEF KindOk, Writing
    <2>2. DebtOk(o)' BY <1>7, <1>9, <1>10, <1>11, <1>12 DEF DebtOk, Dropping
    <2>3. WritesOk(o)' /\ DropsOk(o)' BY <1>9, <1>10 DEF WritesOk, Writing, DropsOk, Dropping
    <2>4. ScansOk(o)' BY <1>2, <1>9, <1>10 DEF ScansOk, Scanned
    <2>5. RestoresOk(o)' BY <1>15 DEF RestoresOk, Scanned
    <2> QED BY <2>1, <2>2, <2>3, <2>4, <2>5 DEF CallOk
  <1>18. ASSUME NEW d \in Customers PROVE Accounted(d)'
    <2>1. CASE d \in C BY <1>12, <1>14, <2>1 DEF Accounted, Restored
    <2>2. CASE d \in found BY <1>7, <1>12, <2>2 DEF Accounted
    <2> QED BY <2>1, <2>2
  <1>19. HistoryOk' BY <1>2, <1>12 DEF BookInv, HistoryOk
  <1> QED BY <1>12, <1>15, <1>16, <1>17, <1>18, <1>19 DEF BookInv

\* Calls that are cut short leave what they owed behind.
LEMMA AbandonBooks ==
    ASSUME StoreInv, BookInv, NEW O \in SUBSET Op, Abandons(O), HistoryOk',
           UNCHANGED <<events, customers, balances>>,
           \A p \in O : op'[p] = Idle, \A p \in Op \ O : op'[p] = op[p]
    PROVE  BookInv'
  <1>1. /\ owed' = [p \in Op |-> owed'[p]] /\ shared' = [p \in Op |-> shared'[p]]
        /\ \A p \in O : owed'[p] = {} /\ shared'[p] = {} /\ owed[p] \subseteq lost'
        /\ \A p \in O : op[p].kind = "rebuild" => owed[p] \subseteq dropped'
        /\ \A p \in Op \ O : owed'[p] = owed[p] /\ shared'[p] = shared[p]
        /\ lost \subseteq lost' /\ dropped \subseteq dropped' /\ contested' = contested
        /\ SharedOk'
    BY AbandonsShares
  <1>2. \A d : RowsOf(d)' = RowsOf(d) BY RowsStay
  <1>3. KindOk(Idle) /\ ~Writing(Idle) /\ ~Dropping(Idle) /\ ~Scanned(Idle) /\ Idle.touched = {}
    BY DEF Idle, KindOk, Writing, Dropping, Scanned
  <1>4. ASSUME NEW d \in Customers, Mended(d) PROVE Mended(d)'
    <2>1. \A q \in Op : op[q].kind = "rebuild" /\ d \in owed[q] =>
             (op'[q].kind = "rebuild" /\ d \in owed'[q]) \/ d \in dropped'
      BY <1>1
    <2>2. \A q \in Op : Writing(op'[q]) /\ op'[q].cur = {d} => op'[q] = op[q]
      BY <1>3
    <2> QED BY <1>1, <1>4, <2>1, <2>2, MendedStays
  <1>5. ASSUME NEW p \in Op PROVE CallOk(p)'
    <2>1. CASE p \in O
      <3>1. op'[p] = Idle BY <2>1
      <3>2. KindOk(op[p])' BY <1>3, <3>1 DEF KindOk, Writing
      <3>3. DebtOk(p)' BY <1>1, <1>3, <2>1, <3>1 DEF DebtOk, Dropping
      <3>4. WritesOk(p)' /\ DropsOk(p)' BY <1>3, <3>1 DEF WritesOk, Writing, DropsOk, Dropping
      <3>5. ScansOk(p)' /\ RestoresOk(p)' BY <1>3, <3>1 DEF ScansOk, RestoresOk, Scanned
      <3> QED BY <3>2, <3>3, <3>4, <3>5 DEF CallOk
    <2>2. CASE p \notin O
      BY <1>1, <1>2, <1>4, <2>2, OthersKeep
    <2> QED BY <2>1, <2>2
  <1>6. ASSUME NEW d \in Customers PROVE Accounted(d)'
    <2>1. Right(d)' <=> Right(d) BY <1>2 DEF Right
    <2>2. ASSUME NEW p \in Op, d \in owed[p] PROVE d \in lost' \/ d \in owed'[p]
      BY <1>1, <2>2
    <2> QED BY <1>1, <2>1, <2>2 DEF BookInv, Accounted
  <1> QED BY <1>1, <1>5, <1>6 DEF BookInv

LEMMA BookStays ==
    ASSUME BookInv, UNCHANGED <<events, customers, balances, op, history>>, HistoryOk'
    PROVE  BookInv'
  <1>1. UNCHANGED <<owed, shared, lost, dropped, contested>> BY DEF history
  <1>2. \A d : RowsOf(d)' = RowsOf(d) BY RowsStay
  <1>3. ASSUME NEW d \in Customers, Mended(d) PROVE Mended(d)'
    BY <1>1, <1>3, MendedStays
  <1>4. \A p \in Op : CallOk(p)' BY <1>1, <1>2, <1>3, OthersKeep
  <1>5. \A d \in Customers : Accounted(d)' BY <1>1, <1>2 DEF BookInv, Accounted, Right
  <1>6. SharedOk' BY <1>1 DEF BookInv, SharedOk
  <1> QED BY <1>4, <1>5, <1>6 DEF BookInv

\* A call that starts is not at work yet.
LEMMA StartKeeps ==
    ASSUME StoreInv, BookInv, NEW o \in Op, op[o] = Idle \/ op[o].pc = "check",
           NEW f, op' = [op EXCEPT ![o] = f],
           UNCHANGED <<events, customers, balances, history>>, HistoryOk',
           f.kind \in {"append", "merge", "rebuild"}, f.touched = {},
           f.kind = "append" => f.pc \in {"check", "insert"}, f.kind = "merge" => f.pc = "select",
           f.kind = "rebuild" => f.pc = "dropCustomers"
    PROVE  BookInv'
  <1>1. KindOk(op[o]) BY DEF BookInv, CallOk
  <1>2. /\ op[o].kind # "rebuild" /\ op[o].pc # "resolve" /\ ~Dropping(op[o])
        /\ op[o].touched = {}
    <2>1. CASE op[o] = Idle BY <2>1 DEF Idle, Dropping
    <2>2. CASE op[o].pc = "check" BY <1>1, <2>2 DEF KindOk, Dropping
    <2> QED BY <2>1, <2>2
  <1>3. KindOk(f) /\ f.pc # "resolve" /\ ~Dropping(f) /\ ~Writing(f) /\ ~Scanned(f)
    BY DEF KindOk, Dropping, Writing, Scanned
  <1> QED BY <1>2, <1>3, QuietKeeps

LEMMA StampBooks ==
    ASSUME StoreInv, BookInv, NEW o \in Op, op[o] = Idle \/ op[o].pc = "check",
           NEW payload, StampAndInsert(o, payload),
           UNCHANGED <<events, customers, balances, history>>, HistoryOk'
    PROVE  BookInv'
  <1>1. PICK e, f : f = [Frame("append", "insert") EXCEPT !.todo = <<e>>]
                    /\ op' = [op EXCEPT ![o] = f]
    BY DEF StampAndInsert
  <1>2. f.kind = "append" /\ f.pc = "insert" /\ f.touched = {} BY <1>1 DEF Frame, Idle
  <1> QED BY <1>1, <1>2, StartKeeps

\* The SELECT and the UPDATE of a merge.
LEMMA SelectBooks ==
    ASSUME StoreInv, BookInv, NEW o \in Op, Select(o) \/ Mark(o)
    PROVE  BookInv'
  <1>1. /\ op[o].pc \in {"select", "mark"}
        /\ UNCHANGED <<events, customers, balances, used, history>>
    BY DEF Select, Mark, tables
  <1>2. Shape(op[o]) /\ InPlace(op[o]) BY DEF StoreInv, FramesOk
  <1>3. op[o].kind = "merge" /\ op[o].todo # <<>> BY <1>1, <1>2 DEF InPlace, Shape
  <1>4. HistoryOk' BY <1>1 DEF BookInv, HistoryOk, history
  <1>5. op[o].kind # "rebuild" /\ op[o].pc # "resolve" /\ ~Dropping(op[o])
    BY <1>1, <1>3 DEF Dropping
  <1>6. PICK f : /\ op' = [op EXCEPT ![o] = f]
                 /\ f = Onward(Dropped(op[o]))
                    \/ \E pc \in {"mark", "insert"} : f = [op[o] EXCEPT !.pc = pc]
    <2>1. CASE Select(o) BY <2>1 DEF Select
    <2>2. CASE Mark(o) BY <2>2 DEF Mark
    <2> QED BY <2>1, <2>2
  <1>7. KindOk(f) /\ f.pc # "resolve" /\ ~Dropping(f) /\ ~Writing(f) /\ ~Scanned(f)
        /\ f.touched = op[o].touched
    <2>1. CASE f = Onward(Dropped(op[o]))
      <3>1. PICK g : g = Dropped(op[o]) OBVIOUS
      <3>2. Shape(g) /\ g.kind = "merge" BY <1>2, <1>3, <3>1, FrameDrops
      <3>3. g.touched = op[o].touched BY <1>2, <3>1 DEF Dropped, Shape
      <3> QED BY <2>1, <3>1, <3>2, <3>3, OnwardKind
    <2>2. CASE \E pc \in {"mark", "insert"} : f = [op[o] EXCEPT !.pc = pc]
      <3>1. f.kind = "merge" /\ f.pc \in {"mark", "insert"} /\ f.touched = op[o].touched
        BY <1>2, <1>3, <2>2 DEF Shape
      <3> QED BY <3>1 DEF KindOk, Dropping, Writing, Scanned
    <2> QED BY <1>6, <2>1, <2>2
  <1> QED BY <1>1, <1>4, <1>5, <1>6, <1>7, QuietKeeps

LEMMA BookStep ==
    StoreInv /\ TableInv /\ StoreInv' /\ TableInv' /\ BookInv /\ [Next]_vars => BookInv'
  <1> SUFFICES ASSUME StoreInv, TableInv, StoreInv', TableInv', BookInv, [Next]_vars
               PROVE  BookInv'
    OBVIOUS
  <1>h. ASSUME NEW what \in {"local", "merges", "rebuilds", "failures"}, Count(what),
               UNCHANGED <<customers, balances, owed, shared>>
        PROVE  HistoryOk'
    BY <1>h, CountKeeps DEF BookInv, HistoryOk
  <1>1. ASSUME NEW o \in Op, NEW d, AppendEvent(o, d) PROVE BookInv'
    <2>1. HistoryOk' BY <1>1, <1>h DEF AppendEvent, tables, history
    <2> QED BY <1>1, <2>1, StampBooks DEF AppendEvent, tables, Busy
  <1>2. ASSUME NEW o \in Op, AppendRefused(o) PROVE BookInv'
    <2>1. HistoryOk' BY <1>2, <1>h DEF AppendRefused, tables, history
    <2> QED BY <1>2, <2>1, BookStays DEF AppendRefused, tables
  <1>3. ASSUME NEW o \in Op, NEW c, Archive(o, c) PROVE BookInv'
    <2>1. HistoryOk' BY <1>3, <1>h DEF Archive, tables, history
    <2>2. PICK f : /\ f = [Frame("append", "check") EXCEPT !.cur = {c}]
                   /\ op' = [op EXCEPT ![o] = f]
      BY <1>3 DEF Archive
    <2>3. f.kind = "append" /\ f.pc = "check" /\ f.touched = {} BY <2>2 DEF Frame, Idle
    <2> QED BY <1>3, <2>1, <2>2, <2>3, StartKeeps DEF Archive, tables, Busy
  <1>4. ASSUME NEW o \in Op, NEW c, CheckArchive(o, c) PROVE BookInv'
    <2>1. /\ op[o].pc = "check" /\ UNCHANGED <<events, customers, balances, used, history>>
      BY <1>4 DEF CheckArchive, tables
    <2>2. HistoryOk' BY <2>1 DEF BookInv, HistoryOk, history
    <2>3. CASE StampAndInsert(o, [type |-> "CUSTOMER_ARCHIVED", customer |-> c])
      BY <2>1, <2>2, <2>3, StampBooks
    <2>4. CASE op' = [op EXCEPT ![o] = Idle]
      <3>1. KindOk(op[o]) BY DEF BookInv, CallOk
      <3>2. op[o].kind # "rebuild" /\ op[o].touched = {} /\ ~Dropping(op[o])
        BY <2>1, <3>1 DEF KindOk, Dropping
      <3>3. KindOk(Idle) /\ Idle.pc # "resolve" /\ ~Writing(Idle) /\ ~Dropping(Idle)
            /\ ~Scanned(Idle) /\ Idle.touched = {}
        BY DEF Idle, KindOk, Writing, Dropping, Scanned
      <3> QED BY <2>1, <2>2, <2>4, <3>2, <3>3, QuietKeeps
    <2> QED BY <1>4, <2>3, <2>4 DEF CheckArchive
  <1>5. ASSUME NEW o \in Op, NEW page, Merge(o, page) PROVE BookInv'
    <2>1. HistoryOk' BY <1>5, <1>h DEF Merge, tables, history
    <2>2. PICK f : /\ f = [Frame("merge", "select") EXCEPT !.todo = page, !.page = page]
                   /\ op' = [op EXCEPT ![o] = f]
      BY <1>5 DEF Merge
    <2>3. f.kind = "merge" /\ f.pc = "select" /\ f.touched = {} BY <2>2 DEF Frame, Idle
    <2> QED BY <1>5, <2>1, <2>2, <2>3, StartKeeps DEF Merge, tables, Busy
  <1>6. ASSUME NEW o \in Op, Rebuild(o) PROVE BookInv'
    <2>1. HistoryOk' BY <1>6, <1>h DEF Rebuild, tables, history
    <2>2. PICK f : f = Frame("rebuild", "dropCustomers") /\ op' = [op EXCEPT ![o] = f]
      BY <1>6 DEF Rebuild
    <2>3. f.kind = "rebuild" /\ f.pc = "dropCustomers" /\ f.touched = {}
      BY <2>2 DEF Frame, Idle
    <2> QED BY <1>6, <2>1, <2>2, <2>3, StartKeeps DEF Rebuild, tables, Busy
  <1>7. ASSUME NEW o \in Op, Select(o) \/ Mark(o) PROVE BookInv' BY <1>7, SelectBooks
  <1>8. ASSUME NEW o \in Op, Insert(o) PROVE BookInv' BY <1>8, InsertBooks
  <1>9. ASSUME NEW o \in Op, Resolve(o) PROVE BookInv' BY <1>9, ResolveBooks
  <1>10. ASSUME NEW o \in Op, NEW c \in Customers, Refold(o, c) PROVE BookInv'
    BY <1>10, RefoldBooks
  <1>11. ASSUME NEW o \in Op, NEW c \in Customers, WriteCustomer(o, c) PROVE BookInv'
    BY <1>11, CustomerBooks
  <1>12. ASSUME NEW o \in Op, NEW c \in Customers, WriteBalance(o, c) PROVE BookInv'
    BY <1>12, BalanceBooks
  <1>13. ASSUME NEW o \in Op, DropCustomers(o) PROVE BookInv' BY <1>13, DropCustomersBooks
  <1>14. ASSUME NEW o \in Op, DropBalances(o) PROVE BookInv' BY <1>14, DropBalancesBooks
  <1>15. ASSUME NEW o \in Op, Scan(o) PROVE BookInv' BY <1>15, ScanBooks
  <1>16. ASSUME NEW o \in Op, Throw(o) PROVE BookInv'
    <2>1. /\ UNCHANGED <<events, customers, balances>> /\ Abandons({o})
          /\ op' = [op EXCEPT ![o] = Idle] /\ Count("failures")
      BY <1>16 DEF Throw, tables
    <2>2. op'[o] = Idle /\ \A p \in Op \ {o} : op'[p] = op[p] BY <2>1, CallMoves
    <2>3. owed' = [p \in Op |-> owed'[p]] /\ shared' = [p \in Op |-> shared'[p]]
      BY <2>1, AbandonsShares
    <2>4. HistoryOk' BY <2>1, <2>3, CountKeeps DEF BookInv, HistoryOk
    <2> QED BY <2>1, <2>2, <2>4, AbandonBooks
  <1>17. CASE Kill
    <2>1. /\ UNCHANGED <<events, customers, balances>> /\ Abandons(Op)
          /\ \A p \in Op : op'[p] = Idle /\ Count("failures")
      BY <1>17 DEF Kill, tables
    <2>2. owed' = [p \in Op |-> owed'[p]] /\ shared' = [p \in Op |-> shared'[p]]
      BY <2>1, AbandonsShares
    <2>3. HistoryOk' BY <1>17, <2>1, <2>2, CountKeeps DEF Kill, BookInv, HistoryOk
    <2> QED BY <2>1, <2>3, AbandonBooks
  <1>18. CASE UNCHANGED vars
    <2>1. HistoryOk' BY <1>18 DEF vars, tables, history, BookInv, HistoryOk
    <2> QED BY <1>18, <2>1, BookStays DEF vars, tables
  <1> QED
    BY <1>1, <1>2, <1>3, <1>4, <1>5, <1>6, <1>7, <1>8, <1>9, <1>10, <1>11, <1>12, <1>13,
       <1>14, <1>15, <1>16, <1>17, <1>18 DEF Next

LEMMA ReachedBooks == Spec => [](StoreInv /\ TableInv /\ BookInv)
  BY StoreInit, TableInit, BookInit, StoreStep, TableStep, BookStep, PTL DEF Spec

----------------------------------------------------------------------------
(* What the invariant is for.                                               *)

LEMMA MatchingIsRight ==
    \A c \in Customers : c \in Matching <=> Right(c)
  BY DEF Matching, Right, RowsOf

\* Only a call in progress owes anything.
OwedByAll == Owed = UNION {owed[o] : o \in Op}

LEMMA BusyOwe == BookInv => OwedByAll
  <1> SUFFICES ASSUME BookInv PROVE OwedByAll
    OBVIOUS
  <1>1. \A o \in Op : ~Busy(o) => owed[o] = {} BY WritersOwe DEF Busy
  <1> QED BY <1>1 DEF Owed, OwedByAll

\* The projection is a cache of the fold of the whole table, for any number of
\* calls in progress, any customers, pages, failures and kills: append and merge
\* re-fold one customer from that customer's own events, a rebuild all of them
\* from the table it read, and whichever order their statements come in, a
\* customer's rows are right unless the history says who still owes them, lost
\* them or wrote them beside another.
THEOREM ProjectionIsFold == Spec => []RowsAreFold
  <1>1. BookInv => RowsAreFold
    <2> SUFFICES ASSUME BookInv, NEW c \in Customers, c \notin Matching
                 PROVE  c \in lost \cup contested \cup Owed
      BY DEF RowsAreFold
    <2>1. Accounted(c) /\ ~Right(c) BY MatchingIsRight DEF BookInv
    <2> QED BY <2>1, BusyOwe DEF Accounted, OwedByAll
  <1> QED BY <1>1, ReachedBooks, PTL

RestoresWhenDone ==
    \A o \in Op :
       op[o].kind = "rebuild" /\ op'[o] = Idle /\ op[o].scan = events /\ used' = used
       => Customers \ Matching' \subseteq contested' \cup dropped' \cup Owed'

\* The last statement of a rebuild that is not cut short.
LEMMA RebuildEnds ==
    ASSUME StoreInv, BookInv, [Next]_vars, NEW o \in Op, op[o].kind = "rebuild", op'[o] = Idle,
           used' = used
    PROVE  Scan(o) \/ \E c \in Customers : WriteBalance(o, c)
  <1>1. Shape(op[o]) /\ KindOk(op[o]) BY DEF StoreInv, FramesOk, BookInv, CallOk
  <1>2. op[o] # Idle /\ Busy(o) BY DEF Idle, Busy
  <1>3. ASSUME NEW what \in {"local", "merges", "rebuilds", "failures"}, Count(what) PROVE FALSE
    BY <1>3, CountKeeps DEF BookInv
  <1>4. ASSUME NEW q \in Op, NEW f, op' = [op EXCEPT ![q] = f] PROVE q = o /\ f = Idle
    <2>1. op'[q] = f /\ \A p \in Op \ {q} : op'[p] = op[p] BY <1>4, CallMoves
    <2> QED BY <1>2, <2>1
  <1>5. ASSUME NEW q \in Op, NEW pc, op' = [op EXCEPT ![q].pc = pc], pc # "idle" PROVE FALSE
    <2>1. op' = [op EXCEPT ![q] = [op[q] EXCEPT !.pc = pc]] BY <1>5
    <2>2. PICK f : f = [op[q] EXCEPT !.pc = pc] OBVIOUS
    <2>3. q = o /\ f = Idle BY <1>4, <2>1, <2>2
    <2>4. f.pc = pc BY <1>1, <2>2, <2>3 DEF Shape
    <2> QED BY <1>5, <2>3, <2>4 DEF Idle
  <1>6. ASSUME NEW q \in Op, NEW c, CheckArchive(q, c) PROVE FALSE
    <2>1. q = o
      <3>1. CASE StampAndInsert(q, [type |-> "CUSTOMER_ARCHIVED", customer |-> c])
        BY <1>4, <3>1 DEF StampAndInsert
      <3>2. CASE op' = [op EXCEPT ![q] = Idle] BY <1>4, <3>2
      <3> QED BY <1>6, <3>1, <3>2 DEF CheckArchive
    <2> QED BY <1>1, <1>6, <2>1 DEF CheckArchive, KindOk
  <1>7. ASSUME NEW q \in Op, Select(q) \/ Mark(q) \/ Resolve(q) PROVE FALSE
    <2>1. q = o BY <1>4, <1>7 DEF Select, Mark, Resolve
    <2> QED BY <1>1, <1>7, <2>1 DEF Select, Mark, Resolve, KindOk
  <1>8. ASSUME NEW q \in Op, Insert(q) \/ DropCustomers(q) \/ DropBalances(q)
               \/ \E c : WriteCustomer(q, c)
        PROVE  FALSE
    BY <1>5, <1>8 DEF Insert, DropCustomers, DropBalances, WriteCustomer
  <1>9. ASSUME NEW q \in Op, NEW c, Refold(q, c) PROVE FALSE
    <2>1. PICK row, f : /\ f = [op[q] EXCEPT !.pc = "writeCustomer", !.cur = {c}, !.row = row]
                        /\ op' = [op EXCEPT ![q] = f]
      BY <1>9 DEF Refold
    <2>2. q = o /\ f = Idle BY <1>4, <2>1
    <2>3. f.pc = "writeCustomer" BY <1>1, <2>1, <2>2 DEF Shape
    <2> QED BY <2>2, <2>3 DEF Idle
  <1>10. ASSUME NEW q \in Op, Scan(q) \/ \E c \in Customers : WriteBalance(q, c) PROVE q = o
    BY <1>4, <1>10 DEF Scan, WriteBalance
  <1>11. Next
    <2>1. ~UNCHANGED vars BY <1>2 DEF vars
    <2> QED BY <2>1
  <1>12. ASSUME NEW q \in Op, NEW d, AppendEvent(q, d) PROVE FALSE
    BY <1>3, <1>12 DEF AppendEvent
  <1>13. ASSUME NEW q \in Op, AppendRefused(q) \/ Rebuild(q) \/ Throw(q) PROVE FALSE
    BY <1>3, <1>13 DEF AppendRefused, Rebuild, Throw
  <1>14. ASSUME NEW q \in Op, NEW c, Archive(q, c) \/ Merge(q, c) PROVE FALSE
    BY <1>3, <1>14 DEF Archive, Merge
  <1>15. CASE Kill BY <1>3, <1>15 DEF Kill
  <1> QED
    BY <1>6, <1>7, <1>8, <1>9, <1>10, <1>11, <1>12, <1>13, <1>14, <1>15 DEF Next

\* A rebuild that runs to its end, with nothing inserted since it read the table,
\* leaves right rows behind it whatever was lost before: the proof keeps, for
\* every customer, that the rows are right and about to be written right, or a
\* rebuild still owes them, dropped them, or wrote them beside another call.
THEOREM RebuildMends == Spec => RebuildRestores
  <1>1. StoreInv /\ TableInv /\ BookInv /\ (StoreInv /\ TableInv /\ BookInv)' /\ [Next]_vars
        => [RestoresWhenDone]_vars
    <2> SUFFICES ASSUME StoreInv, TableInv, BookInv, BookInv', [Next]_vars,
                        NEW o \in Op, op[o].kind = "rebuild", op'[o] = Idle,
                        op[o].scan = events, used' = used, NEW c \in Customers, c \notin Matching'
                 PROVE  c \in contested' \cup dropped' \cup Owed'
      BY DEF RestoresWhenDone
    <2>1. Mended(c)'
      <3>1. CASE Scan(o) BY <3>1, ScanBooks
      <3>2. ASSUME NEW d \in Customers, WriteBalance(o, d) PROVE Mended(c)'
        <4>1. Scanned(op[o]) BY <3>2 DEF WriteBalance, Scanned
        <4>2. Mended(c) BY <4>1 DEF BookInv, CallOk, RestoresOk
        <4> QED BY <3>2, <4>2, BalanceBooks
      <3> QED BY <3>1, <3>2, RebuildEnds
    <2>2. ~Right(c)' BY DEF Matching, Right, RowsOf
    <2>3. Owed' = UNION {owed'[p] : p \in Op}
      <3>1. BookInv' => OwedByAll' BY BusyOwe, PTL
      <3> QED BY <3>1 DEF OwedByAll
    <2> QED BY <2>1, <2>2, <2>3 DEF Mended, Restored
  <1> QED BY <1>1, ReachedBooks, PTL DEF Spec, RebuildRestores, RestoresWhenDone
=============================================================================
