--------------------------- MODULE CoreFlowProofs ---------------------------
(* Proofs about module CoreFlow: what its screens say stays true of the     *)
(* store, and Back leads home, for any number of calls in progress, any     *)
(* names and amounts, and stacks and histories of any length.               *)
EXTENDS CoreFlow, TLAPS

----------------------------------------------------------------------------
(* The inductive invariant.                                                 *)

IsList(s) == \E S : s \in Seq(S)

\* Customers and entries are never changed or taken away: ms holds all of ns.
Grows(ns, ms) == DOMAIN ns \subseteq DOMAIN ms /\ \A c \in DOMAIN ns : ms[c] = ns[c]

\* Entry id is one of customer c and of the kind.
IsEntry(es, id, c, kind) ==
    id \in DOMAIN es /\ es[id].customer = c /\ es[id].entryKind = kind

\* What screen s says of the customers ns and the entries es, shown or not.
TrueScreen(s, ns, es) ==
    /\ s.kind \in {"recordEntry", "done", "customerDetail"} => s.customer \in DOMAIN ns
    /\ s.kind \in {"recordEntry", "done"} => s.name = ns[s.customer]
    /\ s.kind = "done" => IsEntry(es, s.id, s.customer, s.entryKind)

\* A handler was started on a screen of its kind, and what that screen said is
\* still true when the call returns.
StartedOn(kind, screen) ==
    /\ kind \in {"confirm", "confirmed"} => screen.kind = "recordEntry"
    /\ kind = "add" => screen.kind = "addCustomer"
    /\ kind = "goTo" => screen.kind = "customerDetail"

TrueCall(c, ns, es) ==
    /\ c \in [kind : {"none", "confirm", "confirmed", "undo", "add", "goTo"},
              screen : {c.screen}, entryKind : {c.entryKind}, amount : {c.amount},
              id : {c.id}, name : {c.name}]
    /\ TrueScreen(c.screen, ns, es) /\ StartedOn(c.kind, c.screen)
    /\ c.kind = "confirmed" => IsEntry(es, c.id, c.screen.customer, c.screen.entryKind)
    /\ c.kind = "undo" => c.id \in DOMAIN es

StoreOk == IsList(names) /\ IsList(entries) /\ voided \subseteq DOMAIN entries

StackOk ==
    /\ IsList(stack) /\ stack # <<>>
    /\ \A i \in DOMAIN stack : TrueScreen(stack[i], names, entries)

HandlersOk ==
    /\ handler = [h \in Handler |-> handler[h]]
    /\ \A h \in Handler : TrueCall(handler[h], names, entries)

\* An entry whose Done screen is still to come has been seen by nobody: it is
\* not undone, on no screen, and no other handler is about to undo or show it.
Unshown ==
    \A h \in Handler : handler[h].kind = "confirmed" =>
        /\ handler[h].id \notin voided
        /\ \A i \in DOMAIN stack : stack[i].kind = "done" => stack[i].id # handler[h].id
        /\ \A g \in Handler \ {h} :
            handler[g].kind \in {"confirmed", "undo"} => handler[g].id # handler[h].id

\* Only home, the list and the detail screen have screens above them.
Leaves == {"recordEntry", "addCustomer", "done"}
Straight(s) == s[1] = Home /\ \A i \in DOMAIN s : i < Len(s) => s[i].kind \notin Leaves

OnCourse ==
    late \/ (Straight(stack) /\ (Shows("recordEntry") => typedFor = Top(stack).customer))

\* A screen shows balances of customers there are.
LoadsOk ==
    /\ IsList(loads)
    /\ \A i \in DOMAIN loads : /\ loads[i] \in [rows : {loads[i].rows}, old : BOOLEAN]
                               /\ DOMAIN loads[i].rows \subseteq DOMAIN names
    /\ DOMAIN shown \subseteq DOMAIN names

CoreInv ==
    StoreOk /\ StackOk /\ HandlersOk /\ Unshown /\ UndoneIsGone /\ OnCourse /\ LoadsOk

----------------------------------------------------------------------------
(* Lists.                                                                   *)

LEMMA ListFacts ==
    ASSUME NEW s, IsList(s)
    PROVE  /\ Len(s) \in Nat /\ DOMAIN s = 1..Len(s)
           /\ s # <<>> => Len(s) \in DOMAIN s /\ Len(s) >= 1
           /\ s = <<>> => Len(s) = 0
  <1>1. PICK S : s \in Seq(S) BY DEF IsList
  <1> QED BY <1>1

LEMMA NoList == IsList(<<>>) /\ DOMAIN <<>> = {} /\ Len(<<>>) = 0
  <1>1. <<>> \in Seq({}) OBVIOUS
  <1> QED BY <1>1 DEF IsList

LEMMA ListOfOne ==
    ASSUME NEW x
    PROVE  /\ IsList(<<x>>) /\ <<x>> # <<>> /\ Len(<<x>>) = 1
           /\ DOMAIN <<x>> = {1} /\ <<x>>[1] = x
  <1>1. <<x>> \in Seq({x}) OBVIOUS
  <1>2. IsList(<<x>>) BY <1>1 DEF IsList
  <1>3. <<x>> # <<>> /\ Len(<<x>>) = 1 /\ <<x>>[1] = x OBVIOUS
  <1>4. DOMAIN <<x>> = {1} OBVIOUS
  <1> QED BY <1>2, <1>3, <1>4

LEMMA ListAppends ==
    ASSUME NEW s, IsList(s), NEW x
    PROVE  /\ IsList(Append(s, x)) /\ Append(s, x) # <<>>
           /\ Len(Append(s, x)) = Len(s) + 1 /\ DOMAIN Append(s, x) = 1..(Len(s) + 1)
           /\ Append(s, x)[Len(s) + 1] = x /\ \A i \in DOMAIN s : Append(s, x)[i] = s[i]
  <1>1. PICK S : s \in Seq(S) BY DEF IsList
  <1>2. s \in Seq(S \cup {x}) BY <1>1
  <1>3. /\ Append(s, x) \in Seq(S \cup {x}) /\ Len(s) \in Nat /\ Len(Append(s, x)) = Len(s) + 1
        /\ DOMAIN s = 1..Len(s) /\ DOMAIN Append(s, x) = 1..(Len(s) + 1)
    BY <1>2
  <1>4. Append(s, x)[Len(s) + 1] = x /\ \A i \in 1..Len(s) : Append(s, x)[i] = s[i] BY <1>2
  <1>5. Append(s, x) # <<>> BY <1>3
  <1>6. IsList(Append(s, x)) BY <1>3 DEF IsList
  <1> QED BY <1>3, <1>4, <1>5, <1>6

LEMMA ListFront ==
    ASSUME NEW s, IsList(s), s # <<>>
    PROVE  /\ IsList(Front(s)) /\ Len(Front(s)) = Len(s) - 1
           /\ DOMAIN Front(s) = 1..(Len(s) - 1)
           /\ \A i \in DOMAIN Front(s) : Front(s)[i] = s[i]
  <1>1. PICK S : s \in Seq(S) BY DEF IsList
  <1>2. Len(s) \in Nat /\ Len(s) >= 1 BY <1>1
  <1>3. PICK n : n = Len(s) - 1 OBVIOUS
  <1>4. n \in Nat /\ n <= Len(s) BY <1>2, <1>3
  <1>5. Front(s) = SubSeq(s, 1, n) BY <1>3 DEF Front
  <1>6. /\ SubSeq(s, 1, n) \in Seq(S) /\ Len(SubSeq(s, 1, n)) = n
        /\ \A i \in 1..n : SubSeq(s, 1, n)[i] = s[i]
    BY <1>1, <1>4
  <1>7. DOMAIN SubSeq(s, 1, n) = 1..n BY <1>6
  <1> QED BY <1>3, <1>5, <1>6, <1>7 DEF IsList

\* replaceTop and pop keep what is below.
LEMMA ListReplaces ==
    ASSUME NEW s, IsList(s), s # <<>>, NEW x
    PROVE  /\ IsList(Replaced(s, x)) /\ Replaced(s, x) # <<>>
           /\ Len(Replaced(s, x)) = Len(s) /\ DOMAIN Replaced(s, x) = DOMAIN s
           /\ Replaced(s, x)[Len(s)] = x
           /\ \A i \in DOMAIN s : i < Len(s) => Replaced(s, x)[i] = s[i]
  <1>1. PICK f : f = Front(s) OBVIOUS
  <1>2. /\ IsList(f) /\ Len(f) = Len(s) - 1 /\ DOMAIN f = 1..(Len(s) - 1)
        /\ \A i \in DOMAIN f : f[i] = s[i]
    BY <1>1, ListFront
  <1>3. Len(s) \in Nat /\ DOMAIN s = 1..Len(s) BY ListFacts
  <1>4. /\ IsList(Append(f, x)) /\ Append(f, x) # <<>>
        /\ Len(Append(f, x)) = Len(f) + 1 /\ DOMAIN Append(f, x) = 1..(Len(f) + 1)
        /\ Append(f, x)[Len(f) + 1] = x /\ \A i \in DOMAIN f : Append(f, x)[i] = f[i]
    BY <1>2, ListAppends
  <1>5. Replaced(s, x) = Append(f, x) BY <1>1 DEF Replaced
  <1> QED BY <1>2, <1>3, <1>4, <1>5

LEMMA ListPops ==
    ASSUME NEW s, IsList(s), s # <<>>
    PROVE  /\ IsList(Popped(s)) /\ Popped(s) # <<>>
           /\ DOMAIN Popped(s) \subseteq DOMAIN s /\ Len(Popped(s)) <= Len(s)
           /\ Len(s) > 1 => Len(Popped(s)) = Len(s) - 1
           /\ \A i \in DOMAIN Popped(s) : Popped(s)[i] = s[i]
  <1>1. Len(s) \in Nat /\ DOMAIN s = 1..Len(s) BY ListFacts
  <1>2. CASE Len(s) > 1
    <2>1. PICK f : f = Front(s) OBVIOUS
    <2>2. /\ IsList(f) /\ Len(f) = Len(s) - 1 /\ DOMAIN f = 1..(Len(s) - 1)
          /\ \A i \in DOMAIN f : f[i] = s[i]
      BY <2>1, ListFront
    <2>3. Popped(s) = f BY <1>2, <2>1 DEF Popped
    <2>4. f # <<>> /\ DOMAIN f \subseteq DOMAIN s /\ Len(f) <= Len(s)
      BY <1>1, <1>2, <2>2, NoList
    <2> QED BY <2>2, <2>3, <2>4, Zenon
  <1>3. CASE ~(Len(s) > 1)
    <2>1. Popped(s) = s BY <1>3 DEF Popped
    <2>2. Len(s) <= Len(s) BY <1>1
    <2> QED BY <1>3, <2>1, <2>2, Zenon
  <1> QED BY <1>2, <1>3

\* What is left when one is taken out was there before.
LEMMA ListLoses ==
    ASSUME NEW s, IsList(s), NEW i \in DOMAIN s, NEW t, t = RemoveAt(s, i)
    PROVE  /\ IsList(t) /\ Len(t) = Len(s) - 1 /\ DOMAIN t = 1..(Len(s) - 1)
           /\ \A j \in DOMAIN t : t[j] = s[IF j < i THEN j ELSE j + 1]
  <1>1. PICK S : s \in Seq(S) BY DEF IsList
  <1>2. Len(s) \in Nat /\ i \in 1..Len(s) BY <1>1
  <1> DEFINE a == SubSeq(s, 1, i - 1)
             b == SubSeq(s, i + 1, Len(s))
  <1>3. a \in Seq(S) /\ Len(a) = i - 1 /\ \A j \in 1..(i - 1) : a[j] = s[j] BY <1>1, <1>2
  <1>4. /\ b \in Seq(S) /\ Len(b) = Len(s) - i
        /\ \A j \in 1..(Len(s) - i) : b[j] = s[i + j]
    BY <1>1, <1>2
  <1>5. t = a \o b BY DEF RemoveAt
  <1> HIDE DEF a, b
  <1>6. /\ t \in Seq(S) /\ Len(t) = Len(a) + Len(b)
        /\ \A j \in 1..Len(t) : t[j] = IF j <= Len(a) THEN a[j] ELSE b[j - Len(a)]
    BY <1>3, <1>4, <1>5
  <1>7. Len(t) = Len(s) - 1 /\ DOMAIN t = 1..(Len(s) - 1) BY <1>2, <1>3, <1>4, <1>6
  <1>8. ASSUME NEW j \in DOMAIN t PROVE t[j] = s[IF j < i THEN j ELSE j + 1]
    <2>1. CASE j < i BY <1>2, <1>3, <1>4, <1>6, <1>7, <2>1
    <2>2. CASE ~(j < i)
      <3>1. j - (i - 1) \in 1..(Len(s) - i) BY <1>2, <1>7, <2>2
      <3>2. t[j] = b[j - (i - 1)] BY <1>2, <1>3, <1>4, <1>6, <1>7, <2>2
      <3>3. b[j - (i - 1)] = s[i + (j - (i - 1))] BY <1>4, <3>1
      <3>4. i + (j - (i - 1)) = j + 1 BY <1>2, <1>7
      <3> QED BY <2>2, <3>2, <3>3, <3>4
    <2> QED BY <2>1, <2>2
  <1> QED BY <1>6, <1>7, <1>8 DEF IsList

----------------------------------------------------------------------------
(* What one update of the state leaves true.                                *)

LEMMA GrowsItself == \A s : Grows(s, s)
  BY DEF Grows

LEMMA AppendGrows ==
    ASSUME NEW s, IsList(s), NEW x
    PROVE  Grows(s, Append(s, x))
  <1>1. /\ DOMAIN Append(s, x) = 1..(Len(s) + 1)
        /\ \A i \in DOMAIN s : Append(s, x)[i] = s[i]
    BY ListAppends
  <1>2. Len(s) \in Nat /\ DOMAIN s = 1..Len(s) BY ListFacts
  <1>3. DOMAIN s \subseteq DOMAIN Append(s, x) BY <1>1, <1>2
  <1> QED BY <1>1, <1>3 DEF Grows

\* What a screen or a call says outlives customers and entries added later.
LEMMA TrueStays ==
    ASSUME NEW ns, NEW ms, Grows(ns, ms), NEW es, NEW fs, Grows(es, fs)
    PROVE  /\ \A s : TrueScreen(s, ns, es) => TrueScreen(s, ms, fs)
           /\ \A c : TrueCall(c, ns, es) => TrueCall(c, ms, fs)
  <1>1. ASSUME NEW s, TrueScreen(s, ns, es) PROVE TrueScreen(s, ms, fs)
    BY <1>1 DEF TrueScreen, IsEntry, Grows
  <1>2. ASSUME NEW c, TrueCall(c, ns, es) PROVE TrueCall(c, ms, fs)
    BY <1>1, <1>2 DEF TrueCall, IsEntry, Grows
  <1> QED BY <1>1, <1>2

LEMMA NoCall == \A ns, es : TrueCall(NoHandler, ns, es)
  BY DEF TrueCall, TrueScreen, StartedOn, NoHandler, Home, Screen

\* One handler starts, goes on or ends.
LEMMA HandlerMoves ==
    ASSUME HandlersOk, NEW h \in Handler, NEW c, handler' = [handler EXCEPT ![h] = c],
           Grows(names, names'), Grows(entries, entries'), TrueCall(c, names', entries')
    PROVE  HandlersOk' /\ handler'[h] = c /\ \A g \in Handler \ {h} : handler'[g] = handler[g]
  <1>1. handler'[h] = c /\ \A g \in Handler \ {h} : handler'[g] = handler[g]
    BY DEF HandlersOk
  <1>2. handler' = [g \in Handler |-> handler'[g]] BY DEF HandlersOk
  <1>3. \A g \in Handler : TrueCall(handler'[g], names', entries')
    BY <1>1, TrueStays, Zenon DEF HandlersOk
  <1> QED BY <1>1, <1>2, <1>3 DEF HandlersOk

LEMMA HandlersStay ==
    ASSUME HandlersOk, handler' = handler, Grows(names, names'), Grows(entries, entries')
    PROVE  HandlersOk'
  BY TrueStays, Zenon DEF HandlersOk

\* A stack that is what it was but for one screen.
LEMMA StackMoves ==
    ASSUME StackOk, IsList(stack'), stack' # <<>>,
           Grows(names, names'), Grows(entries, entries'),
           NEW x, TrueScreen(x, names', entries'),
           \A i \in DOMAIN stack' : (i \in DOMAIN stack /\ stack'[i] = stack[i]) \/ stack'[i] = x
    PROVE  StackOk'
  BY TrueStays, Zenon DEF StackOk

LEMMA HomeIsTrue ==
    /\ \A ns, es : TrueScreen(Home, ns, es)
    /\ Home.kind = "home" /\ Straight(<<Home>>) /\ Top(<<Home>>) = Home
  <1>1. DOMAIN <<Home>> = {1} /\ Len(<<Home>>) = 1 /\ <<Home>>[1] = Home /\ <<Home>> # <<>>
    BY ListOfOne
  <1>2. Straight(<<Home>>) BY <1>1 DEF Straight
  <1>3. Top(<<Home>>) = Home BY <1>1, Zenon DEF Top
  <1>4. Home.kind = "home" /\ \A ns, es : TrueScreen(Home, ns, es)
    BY DEF TrueScreen, Home, Screen
  <1> QED BY <1>2, <1>3, <1>4

\* A step that neither records nor undoes, and shows no Done screen.
LEMMA QuietKeeps ==
    ASSUME Unshown, UndoneIsGone, voided' = voided, unseen => unseen',
           \A g \in Handler : \/ handler'[g] = handler[g]
                              \/ handler'[g].kind \notin {"confirmed", "undo"},
           \A i \in DOMAIN stack' :
               stack'[i].kind = "done" => i \in DOMAIN stack /\ stack'[i] = stack[i]
    PROVE  Unshown' /\ UndoneIsGone'
  <1>1. UndoneIsGone' BY DEF UndoneIsGone
  <1>2. ASSUME NEW h \in Handler, handler'[h].kind = "confirmed"
        PROVE  /\ handler'[h].id \notin voided'
               /\ \A i \in DOMAIN stack' : stack'[i].kind = "done" => stack'[i].id # handler'[h].id
               /\ \A g \in Handler \ {h} :
                    handler'[g].kind \in {"confirmed", "undo"} => handler'[g].id # handler'[h].id
    BY <1>2 DEF Unshown
  <1> QED BY <1>1, <1>2 DEF Unshown

LEMMA LoadsMove ==
    ASSUME LoadsOk, DOMAIN names \subseteq DOMAIN names', NEW t, NEW bumped, Goes(t, bumped)
    PROVE  LoadsOk'
  <1>1. shown' = shown \/ shown' = <<>> BY DEF Goes
  <1>2. DOMAIN shown' \subseteq DOMAIN names' BY <1>1, NoList DEF LoadsOk
  <1>3. \/ loads' = <<>> \/ loads' = <<Started>> \/ loads' = Append(loads, Started)
        \/ loads' = loads
    BY DEF Goes, Reloaded
  <1>4. Started \in [rows : {Started.rows}, old : BOOLEAN] /\ DOMAIN Started.rows = {}
    BY NoList DEF Started
  <1>5. CASE loads' = <<>> BY <1>2, <1>5, NoList DEF LoadsOk
  <1>6. CASE loads' = <<Started>>
    <2>1. IsList(loads') /\ DOMAIN loads' = {1} /\ loads'[1] = Started BY <1>6, ListOfOne
    <2> QED BY <1>2, <1>4, <2>1 DEF LoadsOk
  <1>7. CASE loads' = Append(loads, Started)
    <2>1. /\ IsList(loads') /\ DOMAIN loads' = 1..(Len(loads) + 1)
          /\ loads'[Len(loads) + 1] = Started /\ \A i \in DOMAIN loads : loads'[i] = loads[i]
      BY <1>7, ListAppends DEF LoadsOk
    <2>2. Len(loads) \in Nat /\ DOMAIN loads = 1..Len(loads) BY ListFacts DEF LoadsOk
    <2>3. \A i \in DOMAIN loads' : i \in DOMAIN loads \/ i = Len(loads) + 1 BY <2>1, <2>2
    <2>4. \A i \in DOMAIN loads' : \/ loads'[i] = Started
                                   \/ i \in DOMAIN loads /\ loads'[i] = loads[i]
      BY <2>1, <2>3
    <2> QED BY <1>2, <1>4, <2>1, <2>4 DEF LoadsOk
  <1>8. CASE loads' = loads BY <1>2, <1>8 DEF LoadsOk
  <1> QED BY <1>3, <1>5, <1>6, <1>7, <1>8

\* The amount of an entry screen that follows another kind is its customer's.
LEMMA StayOnCourse ==
    ASSUME OnCourse, NEW t, NEW bumped, Goes(t, bumped),
           late' \/ (Straight(t) /\ (Top(t).kind = "recordEntry" => ~Shows("recordEntry")))
    PROVE  OnCourse'
  <1>1. stack' = t BY DEF Goes
  <1>2. Top(t).kind = "recordEntry" /\ ~Shows("recordEntry") => typedFor' = Top(t).customer
    BY DEF Goes, Shows
  <1> QED BY <1>1, <1>2 DEF OnCourse, Shows

----------------------------------------------------------------------------
(* The updates of the stack.                                                *)

\* The screen shown is one of the stack.
LEMMA TopIsLast ==
    ASSUME StackOk
    PROVE  /\ Len(stack) \in DOMAIN stack /\ Top(stack) = stack[Len(stack)]
           /\ TrueScreen(Top(stack), names, entries)
  BY ListFacts DEF StackOk, Top

\* push: a true screen on one that is no leaf.
LEMMA PushKeeps ==
    ASSUME StackOk, NEW x, NEW t, t = Append(stack, x), Goes(t, FALSE),
           Grows(names, names'), Grows(entries, entries'), TrueScreen(x, names', entries')
    PROVE  /\ StackOk' /\ Top(t) = x
           /\ \A i \in DOMAIN t : (i \in DOMAIN stack /\ t[i] = stack[i]) \/ t[i] = x
           /\ Straight(stack) /\ Top(stack).kind \notin Leaves => Straight(t)
  <1>1. stack' = t BY DEF Goes
  <1>2. Len(stack) \in Nat /\ Len(stack) >= 1 /\ DOMAIN stack = 1..Len(stack)
    BY ListFacts DEF StackOk
  <1>3. /\ IsList(t) /\ t # <<>> /\ Len(t) = Len(stack) + 1 /\ DOMAIN t = 1..(Len(stack) + 1)
        /\ t[Len(stack) + 1] = x /\ \A i \in DOMAIN stack : t[i] = stack[i]
    BY ListAppends DEF StackOk
  <1>4. \A i \in DOMAIN t : (i \in DOMAIN stack /\ t[i] = stack[i]) \/ t[i] = x
    BY <1>2, <1>3
  <1>5. StackOk' BY <1>1, <1>3, <1>4, StackMoves, Zenon
  <1>6. Top(t) = x BY <1>3 DEF Top
  <1>7. ASSUME Straight(stack), Top(stack).kind \notin Leaves PROVE Straight(t)
    <2>1. t[1] = Home BY <1>2, <1>3, <1>7 DEF Straight
    <2>2. ASSUME NEW i \in DOMAIN t, i < Len(t) PROVE t[i].kind \notin Leaves
      <3>1. i \in DOMAIN stack /\ t[i] = stack[i] BY <1>2, <1>3, <2>2
      <3>2. CASE i = Len(stack) BY <1>7, <3>1, <3>2, TopIsLast
      <3>3. CASE i # Len(stack)
        <4>1. i < Len(stack) BY <1>2, <3>1, <3>3
        <4> QED BY <1>7, <3>1, <4>1 DEF Straight
      <3> QED BY <3>2, <3>3
    <2> QED BY <2>1, <2>2 DEF Straight
  <1> QED BY <1>4, <1>5, <1>6, <1>7

\* replaceTop: a true screen in the place of the one shown, which is not home
\* unless something else took home's place before.
LEMMA ReplaceKeeps ==
    ASSUME StackOk, NEW x, NEW t, t = Replaced(stack, x), Goes(t, FALSE) \/ Goes(t, TRUE),
           Grows(names, names'), Grows(entries, entries'), TrueScreen(x, names', entries')
    PROVE  /\ StackOk' /\ Top(t) = x
           /\ \A i \in DOMAIN t : (i \in DOMAIN stack /\ t[i] = stack[i]) \/ t[i] = x
           /\ Straight(stack) /\ Top(stack) # Home => Straight(t)
  <1>1. stack' = t BY DEF Goes
  <1>2. Len(stack) \in Nat /\ Len(stack) >= 1 /\ DOMAIN stack = 1..Len(stack)
    BY ListFacts DEF StackOk
  <1>3. /\ IsList(t) /\ t # <<>> /\ Len(t) = Len(stack) /\ DOMAIN t = DOMAIN stack
        /\ t[Len(stack)] = x /\ \A i \in DOMAIN stack : i < Len(stack) => t[i] = stack[i]
    BY ListReplaces DEF StackOk
  <1>4. ASSUME NEW i \in DOMAIN t PROVE (i \in DOMAIN stack /\ t[i] = stack[i]) \/ t[i] = x
    <2>1. i = Len(stack) \/ i < Len(stack) BY <1>2, <1>3
    <2> QED BY <1>3, <2>1
  <1>5. StackOk' BY <1>1, <1>3, <1>4, StackMoves, Zenon
  <1>6. Top(t) = x BY <1>3 DEF Top
  <1>7. ASSUME Straight(stack), Top(stack) # Home PROVE Straight(t)
    <2>1. Len(stack) # 1 BY <1>7, TopIsLast DEF Straight
    <2>2. 1 \in DOMAIN stack /\ 1 < Len(stack) BY <1>2, <2>1
    <2> QED BY <1>3, <1>7, <2>2 DEF Straight
  <1> QED BY <1>4, <1>5, <1>6, <1>7

\* pop: what is left was there before, and was no leaf.
LEMMA PopKeeps ==
    ASSUME StackOk, ~Shows("home"), NEW t, t = Popped(stack), Goes(t, FALSE),
           UNCHANGED <<names, entries>>
    PROVE  /\ StackOk'
           /\ \A i \in DOMAIN t : i \in DOMAIN stack /\ t[i] = stack[i]
           /\ Straight(stack) => Straight(t) /\ Top(t).kind \notin Leaves
  <1>1. stack' = t BY DEF Goes
  <1>2. Len(stack) \in Nat /\ Len(stack) >= 1 /\ DOMAIN stack = 1..Len(stack)
    BY ListFacts DEF StackOk
  <1>3. /\ IsList(t) /\ t # <<>> /\ DOMAIN t \subseteq DOMAIN stack
        /\ Len(stack) > 1 => Len(t) = Len(stack) - 1
        /\ \A i \in DOMAIN t : t[i] = stack[i]
    BY ListPops DEF StackOk
  <1>4. Len(t) \in Nat /\ Len(t) >= 1 /\ DOMAIN t = 1..Len(t) BY <1>3, ListFacts
  <1>5. StackOk'
    <2>1. \A i \in DOMAIN t : TrueScreen(t[i], names', entries') BY <1>3, Zenon DEF StackOk
    <2> QED BY <1>1, <1>3, <2>1 DEF StackOk
  <1>6. ASSUME Straight(stack) PROVE Straight(t) /\ Top(t).kind \notin Leaves
    <2>1. Len(stack) # 1 BY <1>6, TopIsLast, HomeIsTrue DEF Straight, Shows
    <2>2. Len(t) = Len(stack) - 1
      <3>1. Len(stack) > 1 BY <1>2, <2>1
      <3> QED BY <1>3, <3>1, Zenon
    <2>3. \A i \in DOMAIN t : i \in DOMAIN stack /\ i < Len(stack) BY <1>2, <1>4, <2>2
    <2>4. 1 \in DOMAIN t /\ Len(t) \in DOMAIN t BY <1>4
    <2>5. Top(t) = t[Len(t)] BY <1>3 DEF Top
    <2> QED BY <1>3, <1>6, <2>3, <2>4, <2>5 DEF Straight
  <1> QED BY <1>3, <1>5, <1>6

\* resetToHome
LEMMA HomeKeeps ==
    ASSUME NEW bumped, Goes(AtHome, bumped)
    PROVE  /\ StackOk' /\ Straight(AtHome) /\ Top(AtHome).kind = "home"
           /\ \A i \in DOMAIN stack' : stack'[i].kind # "done"
  <1>1. stack' = <<Home>> BY DEF Goes, AtHome
  <1>2. IsList(stack') /\ stack' # <<>> /\ DOMAIN stack' = {1} /\ stack'[1] = Home
    BY <1>1, ListOfOne
  <1>3. StackOk' BY <1>2, HomeIsTrue DEF StackOk
  <1> QED BY <1>2, <1>3, HomeIsTrue DEF AtHome

----------------------------------------------------------------------------
(* What the shopkeeper does.                                                *)

LEMMA CoreInit == Init => CoreInv
  <1> SUFFICES ASSUME Init PROVE CoreInv
    OBVIOUS
  <1>1. StoreOk
    <2>1. \E n \in Name : names = <<n>> BY DEF Init
    <2> QED BY <2>1, ListOfOne, NoList DEF Init, StoreOk
  <1>2. StackOk /\ \A i \in DOMAIN stack : stack[i].kind # "done"
    <2>1. IsList(stack) /\ stack # <<>> /\ DOMAIN stack = {1} /\ stack[1] = Home
      BY ListOfOne DEF Init
    <2> QED BY <2>1, HomeIsTrue DEF StackOk
  <1>3. HandlersOk BY NoCall DEF Init, HandlersOk
  <1>4. Unshown BY DEF Init, Unshown, NoHandler
  <1>5. UndoneIsGone BY <1>2 DEF UndoneIsGone
  <1>6. OnCourse BY HomeIsTrue DEF Init, OnCourse, Shows
  <1>7. LoadsOk
    <2>1. IsList(loads) /\ DOMAIN loads = {1} /\ loads[1] = Started BY ListOfOne DEF Init
    <2>2. Started \in [rows : {Started.rows}, old : BOOLEAN] /\ DOMAIN Started.rows = {}
      BY NoList DEF Started
    <2> QED BY <2>1, <2>2, NoList DEF Init, LoadsOk
  <1> QED BY <1>1, <1>2, <1>3, <1>4, <1>5, <1>6, <1>7 DEF CoreInv

\* A tap that leads to a further screen.
LEMMA PushStep ==
    ASSUME CoreInv, NEW x, Push(x), TrueScreen(x, names, entries), x.kind # "done",
           Top(stack).kind \notin Leaves, Taps, UNCHANGED late
    PROVE  CoreInv'
  <1>1. PICK t : t = Append(stack, x) OBVIOUS
  <1>2. Goes(t, FALSE) BY <1>1 DEF Push
  <1>3. UNCHANGED <<names, entries, voided, handler, unseen>> BY DEF Taps, store
  <1>4. Grows(names, names') /\ Grows(entries, entries') BY <1>3, GrowsItself
  <1>5. /\ StackOk' /\ Top(t) = x
        /\ \A i \in DOMAIN t : (i \in DOMAIN stack /\ t[i] = stack[i]) \/ t[i] = x
        /\ Straight(stack) => Straight(t)
    BY <1>1, <1>2, <1>3, <1>4, PushKeeps, Zenon DEF CoreInv
  <1>6. StoreOk' BY <1>3 DEF CoreInv, StoreOk
  <1>7. HandlersOk' BY <1>3, <1>4, HandlersStay DEF CoreInv
  <1>8. stack' = t BY <1>2 DEF Goes
  <1>9. Unshown' /\ UndoneIsGone' BY <1>3, <1>5, <1>8, QuietKeeps DEF CoreInv
  <1>10. OnCourse'
    <2>1. ~Shows("recordEntry") BY DEF Shows, Leaves
    <2> QED BY <1>2, <1>5, <2>1, StayOnCourse DEF CoreInv, OnCourse
  <1>11. LoadsOk' BY <1>2, <1>3, LoadsMove DEF CoreInv
  <1> QED BY <1>5, <1>6, <1>7, <1>9, <1>10, <1>11 DEF CoreInv

\* A step that leaves the stack and the store alone and starts or ends a
\* handler that neither shows nor undoes anything.
LEMMA StandStill ==
    ASSUME CoreInv, UNCHANGED <<stack, names, entries, voided, late>>, unseen => unseen',
           HandlersOk', LoadsOk', late \/ typedFor' = typedFor \/ typedFor' = Top(stack).customer,
           \A g \in Handler : \/ handler'[g] = handler[g]
                              \/ handler'[g].kind \notin {"confirmed", "undo"}
    PROVE  CoreInv'
  <1>1. StoreOk' /\ StackOk' BY DEF CoreInv, StoreOk, StackOk
  <1>2. Unshown' /\ UndoneIsGone' BY QuietKeeps DEF CoreInv
  <1>3. OnCourse' BY DEF CoreInv, OnCourse, Shows
  <1> QED BY <1>1, <1>2, <1>3 DEF CoreInv

LEMMA SelectStep == CoreInv /\ SelectCustomer => CoreInv'
  <1> SUFFICES ASSUME CoreInv, SelectCustomer PROVE CoreInv'
    OBVIOUS
  <1>1. PICK c, x : /\ c \in DOMAIN shown /\ Push(x)
                    /\ x = Chosen(Top(stack).entryKind, c,
                                  IF Top(stack).entryKind = "PAYMENT" THEN shown[c] ELSE 0,
                                  names[c])
    BY DEF SelectCustomer
  <1>2. c \in DOMAIN names BY <1>1 DEF CoreInv, LoadsOk
  <1>3. TrueScreen(x, names, entries) /\ x.kind # "done"
    BY <1>1, <1>2 DEF Chosen, CustomerDetail, RecordEntry, Screen, TrueScreen
  <1>4. Top(stack).kind \notin Leaves BY DEF SelectCustomer, Shows, Leaves
  <1> QED BY <1>1, <1>3, <1>4, PushStep DEF SelectCustomer

LEMMA BackStep == CoreInv /\ Back => CoreInv'
  <1> SUFFICES ASSUME CoreInv, Back PROVE CoreInv'
    OBVIOUS
  <1>1. PICK t : t = Popped(stack) /\ Goes(t, FALSE) BY DEF Back
  <1>2. UNCHANGED <<names, entries, voided, handler, unseen, late>> /\ ~Shows("home")
    BY DEF Back, Taps, store
  <1>3. Grows(names, names') /\ Grows(entries, entries') BY <1>2, GrowsItself
  <1>4. /\ StackOk'
        /\ \A i \in DOMAIN t : i \in DOMAIN stack /\ t[i] = stack[i]
        /\ Straight(stack) => Straight(t) /\ Top(t).kind \notin Leaves
    BY <1>1, <1>2, PopKeeps, Zenon DEF CoreInv
  <1>5. StoreOk' BY <1>2 DEF CoreInv, StoreOk
  <1>6. HandlersOk' BY <1>2, <1>3, HandlersStay DEF CoreInv
  <1>7. stack' = t BY <1>1 DEF Goes
  <1>8. Unshown' /\ UndoneIsGone' BY <1>2, <1>4, <1>7, QuietKeeps DEF CoreInv
  <1>9. OnCourse'
    <2>1. Top(t).kind = "recordEntry" => Top(t).kind \in Leaves BY DEF Leaves
    <2> QED BY <1>1, <1>2, <1>4, <2>1, StayOnCourse DEF CoreInv, OnCourse
  <1>10. LoadsOk' BY <1>1, <1>2, LoadsMove DEF CoreInv
  <1> QED BY <1>4, <1>5, <1>6, <1>8, <1>9, <1>10 DEF CoreInv

LEMMA ContinueStep == CoreInv /\ Continue => CoreInv'
  <1> SUFFICES ASSUME CoreInv, Continue PROVE CoreInv'
    OBVIOUS
  <1>1. Goes(AtHome, FALSE) BY DEF Continue
  <1>2. UNCHANGED <<names, entries, voided, handler, unseen>> BY DEF Continue, Taps, store
  <1>3. Grows(names, names') /\ Grows(entries, entries') BY <1>2, GrowsItself
  <1>4. /\ StackOk' /\ Straight(AtHome) /\ Top(AtHome).kind = "home"
        /\ \A i \in DOMAIN stack' : stack'[i].kind # "done"
    BY <1>1, HomeKeeps
  <1>5. StoreOk' BY <1>2 DEF CoreInv, StoreOk
  <1>6. HandlersOk' BY <1>2, <1>3, HandlersStay DEF CoreInv
  <1>7. Unshown' /\ UndoneIsGone' BY <1>2, <1>4, QuietKeeps DEF CoreInv
  <1>8. OnCourse' BY <1>1, <1>4, StayOnCourse DEF CoreInv
  <1>9. LoadsOk' BY <1>1, <1>2, LoadsMove DEF CoreInv
  <1> QED BY <1>4, <1>5, <1>6, <1>7, <1>8, <1>9 DEF CoreInv

\* A handler starts: what its screen says is true.
LEMMA StartsTrue ==
    ASSUME CoreInv, NEW h \in Handler, NEW kind, NEW entryKind, NEW amount, NEW id, NEW name,
           Starts(h, kind, entryKind, amount, id, name),
           kind \in {"confirm", "undo", "add", "goTo"}, StartedOn(kind, Top(stack)),
           kind = "undo" => id \in DOMAIN entries
    PROVE  /\ HandlersOk' /\ handler'[h].kind = kind /\ handler'[h].id = id
           /\ \A g \in Handler \ {h} : handler'[g] = handler[g]
           /\ UNCHANGED <<stack, typed, typedFor, undoable, shown, loads, overtook, draft,
                          names, entries, voided, failures, late, unseen>>
  <1>1. PICK c : /\ c = [kind |-> kind, screen |-> Top(stack), entryKind |-> entryKind,
                         amount |-> amount, id |-> id, name |-> name]
                 /\ handler' = [handler EXCEPT ![h] = c]
    BY DEF Starts
  <1>2. UNCHANGED <<stack, typed, typedFor, undoable, shown, loads, overtook, draft,
                    names, entries, voided, failures, late, unseen>>
    BY DEF Starts, mounted, store
  <1>3. c.kind = kind /\ c.id = id /\ c.screen = Top(stack) BY <1>1
  <1>4. c \in [kind : {"none", "confirm", "confirmed", "undo", "add", "goTo"},
               screen : {c.screen}, entryKind : {c.entryKind}, amount : {c.amount},
               id : {c.id}, name : {c.name}]
    BY <1>1
  <1>5. TrueScreen(Top(stack), names, entries) BY TopIsLast DEF CoreInv
  <1>6. TrueCall(c, names', entries') BY <1>2, <1>3, <1>4, <1>5 DEF TrueCall
  <1>7. Grows(names, names') /\ Grows(entries, entries') BY <1>2, GrowsItself
  <1>8. HandlersOk' /\ handler'[h] = c /\ \A g \in Handler \ {h} : handler'[g] = handler[g]
    BY <1>1, <1>6, <1>7, HandlerMoves, Zenon DEF CoreInv
  <1> QED BY <1>2, <1>3, <1>8

LEMMA LoadsStay == LoadsOk /\ UNCHANGED <<shown, loads, names>> => LoadsOk'
  BY DEF LoadsOk

LEMMA StartSteps ==
    ASSUME CoreInv, NEW h \in Handler, Confirm(h) \/ Undo(h) \/ Save(h) \/ RecordFromDetail(h)
    PROVE  CoreInv'
  <1>1. ASSUME NEW kind \in {"confirm", "add", "goTo"}, StartedOn(kind, Top(stack)),
               NEW entryKind, NEW amount, NEW name, Starts(h, kind, entryKind, amount, 0, name)
        PROVE  CoreInv'
    <2>1. /\ HandlersOk' /\ handler'[h].kind = kind
          /\ \A g \in Handler \ {h} : handler'[g] = handler[g]
          /\ UNCHANGED <<stack, typed, typedFor, undoable, shown, loads, overtook, draft,
                         names, entries, voided, failures, late, unseen>>
      BY <1>1, StartsTrue, Zenon
    <2>2. LoadsOk' BY <2>1, LoadsStay DEF CoreInv
    <2>3. \A g \in Handler : \/ handler'[g] = handler[g]
                             \/ handler'[g].kind \notin {"confirmed", "undo"}
      BY <2>1
    <2> QED BY <2>1, <2>2, <2>3, StandStill
  <1>2. CASE Confirm(h)
    <2>1. StartedOn("confirm", Top(stack)) BY <1>2 DEF Confirm, Shows, StartedOn
    <2>2. Starts(h, "confirm", Top(stack).entryKind, typed, 0, NoName) BY <1>2 DEF Confirm
    <2> QED BY <1>1, <2>1, <2>2, Zenon
  <1>3. CASE Save(h)
    <2>1. StartedOn("add", Top(stack)) BY <1>3 DEF Save, Shows, StartedOn
    <2>2. Starts(h, "add", Top(stack).entryKind, 0, 0, draft) BY <1>3 DEF Save
    <2> QED BY <1>1, <2>1, <2>2, Zenon
  <1>4. CASE RecordFromDetail(h)
    <2>1. StartedOn("goTo", Top(stack)) BY <1>4 DEF RecordFromDetail, Shows, StartedOn
    <2>2. \E kind : Starts(h, "goTo", kind, 0, 0, NoName) BY <1>4 DEF RecordFromDetail
    <2> QED BY <1>1, <2>1, <2>2, Zenon
  <1>5. CASE Undo(h)
    <2>1. PICK id : id = Top(stack).id /\ Starts(h, "undo", "", 0, id, NoName)
      BY <1>5 DEF Undo
    <2>2. Top(stack).kind = "done" BY <1>5 DEF Undo, Shows
    <2>3. /\ Len(stack) \in DOMAIN stack /\ Top(stack) = stack[Len(stack)]
          /\ TrueScreen(Top(stack), names, entries)
      BY TopIsLast DEF CoreInv
    <2>4. id \in DOMAIN entries BY <2>1, <2>2, <2>3 DEF TrueScreen, IsEntry
    <2>5. /\ HandlersOk' /\ handler'[h].kind = "undo" /\ handler'[h].id = id
          /\ \A g \in Handler \ {h} : handler'[g] = handler[g]
          /\ UNCHANGED <<stack, typed, typedFor, undoable, shown, loads, overtook, draft,
                         names, entries, voided, failures, late, unseen>>
      <3>1. StartedOn("undo", Top(stack)) BY DEF StartedOn
      <3> QED BY <2>1, <2>4, <3>1, StartsTrue
    <2>6. LoadsOk' BY <2>5, LoadsStay DEF CoreInv
    <2>7. Unshown'
      <3>1. \A g \in Handler : handler[g].kind = "confirmed" => handler[g].id # id
        BY <2>1, <2>2, <2>3 DEF CoreInv, Unshown
      <3> QED BY <2>5, <3>1 DEF CoreInv, Unshown
    <2>8. StoreOk' /\ StackOk' /\ UndoneIsGone' BY <2>5 DEF CoreInv, StoreOk, StackOk, UndoneIsGone
    <2>9. OnCourse' BY <2>5 DEF CoreInv, OnCourse, Shows
    <2> QED BY <2>5, <2>6, <2>7, <2>8, <2>9 DEF CoreInv
  <1> QED BY <1>2, <1>3, <1>4, <1>5

\* The other taps: they push a screen that says nothing of the store, or change
\* only what is mounted.
LEMMA TapSteps ==
    ASSUME CoreInv, \/ StartCredit \/ ViewCustomers \/ OpenAddCustomer
                    \/ TypeName \/ TypeAmount \/ UndoWindowCloses
    PROVE  CoreInv'
  <1>1. ASSUME NEW kind \in {"customerList", "addCustomer"}, NEW entryKind,
               NEW x, x = Screen(kind, entryKind, 0, 0, 0, NoName), Push(x),
               Top(stack).kind \notin Leaves, Taps, UNCHANGED late
        PROVE  CoreInv'
    <2>1. TrueScreen(x, names, entries) /\ x.kind # "done" BY <1>1 DEF Screen, TrueScreen
    <2> QED BY <1>1, <2>1, PushStep
  <1>2. CASE StartCredit
    <2>1. /\ Push(Screen("customerList", "CREDIT", 0, 0, 0, NoName)) /\ Taps /\ UNCHANGED late
          /\ Top(stack).kind \notin Leaves
      BY <1>2 DEF StartCredit, CustomerList, Shows, Leaves
    <2> QED BY <1>1, <2>1
  <1>3. CASE ViewCustomers
    <2>1. /\ Push(Screen("customerList", "", 0, 0, 0, NoName)) /\ Taps /\ UNCHANGED late
          /\ Top(stack).kind \notin Leaves
      BY <1>3 DEF ViewCustomers, CustomerList, Shows, Leaves
    <2> QED BY <1>1, <2>1
  <1>4. CASE OpenAddCustomer
    <2>1. PICK kind : /\ Push(Screen("addCustomer", kind, 0, 0, 0, NoName))
                      /\ Taps /\ UNCHANGED late /\ Top(stack).kind \notin Leaves
      BY <1>4 DEF OpenAddCustomer, AddCustomer, Shows, Leaves
    <2> QED BY <1>1, <2>1
  <1>5. CASE TypeName \/ TypeAmount \/ UndoWindowCloses
    <2>1. /\ UNCHANGED <<stack, shown, loads, handler, names, entries, voided, unseen, late>>
          /\ typedFor' = typedFor \/ typedFor' = Top(stack).customer
      BY <1>5 DEF TypeName, TypeAmount, UndoWindowCloses, Taps, mounted, store
    <2>2. HandlersOk' BY <2>1, GrowsItself, HandlersStay DEF CoreInv
    <2>3. LoadsOk' BY <2>1, LoadsStay DEF CoreInv
    <2> QED BY <2>1, <2>2, <2>3, StandStill
  <1> QED BY <1>2, <1>3, <1>4, <1>5

----------------------------------------------------------------------------
(* What the handlers do once their call has returned.                       *)

\* A handler ends.
LEMMA EndsTrue ==
    ASSUME CoreInv, NEW h \in Handler, Ends(h),
           Grows(names, names'), Grows(entries, entries')
    PROVE  /\ HandlersOk' /\ handler'[h].kind = "none"
           /\ \A g \in Handler \ {h} : handler'[g] = handler[g]
           /\ \A g \in Handler : \/ handler'[g] = handler[g]
                                 \/ handler'[g].kind \notin {"confirmed", "undo"}
  <1>1. TrueCall(NoHandler, names', entries') BY NoCall
  <1>2. HandlersOk' /\ handler'[h] = NoHandler /\ \A g \in Handler \ {h} : handler'[g] = handler[g]
    BY <1>1, HandlerMoves, Zenon DEF CoreInv, Ends
  <1>3. NoHandler.kind = "none" BY DEF NoHandler
  <1>4. \A g \in Handler : handler'[g] = handler[g] \/ handler'[g].kind = "none" BY <1>2, <1>3
  <1> QED BY <1>2, <1>3, <1>4

\* A new entry is not undone, on no screen and in no other handler's hands.
LEMMA NewEntry ==
    ASSUME CoreInv, NEW screen, NEW amount, entries' = Append(entries, Recorded(screen, amount))
    PROVE  /\ IsList(entries') /\ Grows(entries, entries') /\ Len(entries') \notin DOMAIN entries
           /\ IsEntry(entries', Len(entries'), screen.customer, screen.entryKind)
           /\ DOMAIN entries \subseteq DOMAIN entries'
  <1>1. PICK x : x = Recorded(screen, amount) OBVIOUS
  <1>2. /\ IsList(entries') /\ Len(entries') = Len(entries) + 1
        /\ DOMAIN entries' = 1..(Len(entries) + 1) /\ entries'[Len(entries) + 1] = x
    BY <1>1, ListAppends DEF CoreInv, StoreOk
  <1>3. Len(entries) \in Nat /\ DOMAIN entries = 1..Len(entries)
    BY ListFacts DEF CoreInv, StoreOk
  <1>4. Grows(entries, entries') BY AppendGrows DEF CoreInv, StoreOk
  <1>5. x.customer = screen.customer /\ x.entryKind = screen.entryKind BY <1>1 DEF Recorded
  <1>6. Len(entries') \in DOMAIN entries' /\ Len(entries') \notin DOMAIN entries
        /\ entries'[Len(entries')] = x
    BY <1>2, <1>3
  <1> QED BY <1>2, <1>4, <1>5, <1>6 DEF IsEntry, Grows

\* The screens shown now are left as they are, or load again.
LEMMA StackStands ==
    ASSUME CoreInv, \/ UNCHANGED <<stack, mounted>>
                    \/ Goes(stack, TRUE) /\ Top(stack).kind \in Loading,
           Grows(names, names'), Grows(entries, entries'), UNCHANGED late
    PROVE  StackOk' /\ OnCourse' /\ LoadsOk' /\ stack' = stack
  <1>1. stack' = stack BY DEF Goes
  <1>2. StackOk' BY <1>1, TrueStays, Zenon DEF CoreInv, StackOk
  <1>3. DOMAIN names \subseteq DOMAIN names' BY DEF Grows
  <1>4. CASE UNCHANGED <<stack, mounted>>
    <2>1. LoadsOk' BY <1>3, <1>4 DEF CoreInv, LoadsOk, mounted
    <2>2. OnCourse' BY <1>4 DEF CoreInv, OnCourse, Shows, mounted
    <2> QED BY <1>1, <1>2, <2>1, <2>2
  <1>5. CASE Goes(stack, TRUE) /\ Top(stack).kind \in Loading
    <2>1. LoadsOk' BY <1>3, <1>5, LoadsMove DEF CoreInv
    <2>2. ~Shows("recordEntry") BY <1>5 DEF Shows, Loading
    <2>3. OnCourse' BY <1>1, <2>2 DEF CoreInv, OnCourse, Shows
    <2> QED BY <1>1, <1>2, <2>1, <2>3
  <1> QED BY <1>4, <1>5

LEMMA RecordedStep == \A h \in Handler : CoreInv /\ EntryRecorded(h) => CoreInv'
  <1> SUFFICES ASSUME CoreInv, NEW h \in Handler, EntryRecorded(h) PROVE CoreInv'
    OBVIOUS
  <1>1. /\ UNCHANGED <<names, voided, late, unseen>> /\ handler[h].kind = "confirm"
        /\ entries' = Append(entries, Recorded(handler[h].screen, handler[h].amount))
        /\ \/ UNCHANGED <<stack, mounted>>
           \/ Goes(stack, TRUE) /\ Top(stack).kind \in Loading
    BY DEF EntryRecorded
  <1>2. PICK n : n = Len(entries') OBVIOUS
  <1>3. /\ IsList(entries') /\ Grows(entries, entries') /\ n \notin DOMAIN entries
        /\ IsEntry(entries', n, handler[h].screen.customer, handler[h].screen.entryKind)
        /\ DOMAIN entries \subseteq DOMAIN entries'
    BY <1>1, <1>2, NewEntry
  <1>4. Grows(names, names') BY <1>1, GrowsItself
  <1>5. StoreOk' BY <1>1, <1>3 DEF CoreInv, StoreOk
  <1>6. StackOk' /\ OnCourse' /\ LoadsOk' /\ stack' = stack BY <1>1, <1>3, <1>4, StackStands
  <1>7. PICK c : /\ c = [handler[h] EXCEPT !.kind = "confirmed", !.id = n]
                 /\ handler' = [handler EXCEPT ![h] = c]
    BY <1>2 DEF EntryRecorded
  <1>8. TrueCall(handler[h], names', entries') BY <1>3, <1>4, TrueStays, Zenon DEF CoreInv, HandlersOk
  <1>9. /\ c.kind = "confirmed" /\ c.id = n /\ c.screen = handler[h].screen
        /\ c \in [kind : {"none", "confirm", "confirmed", "undo", "add", "goTo"},
                  screen : {c.screen}, entryKind : {c.entryKind}, amount : {c.amount},
                  id : {c.id}, name : {c.name}]
    BY <1>7, <1>8 DEF TrueCall
  <1>10. TrueCall(c, names', entries') BY <1>1, <1>3, <1>8, <1>9 DEF TrueCall, StartedOn
  <1>11. HandlersOk' /\ handler'[h] = c /\ \A g \in Handler \ {h} : handler'[g] = handler[g]
    BY <1>3, <1>4, <1>7, <1>10, HandlerMoves, Zenon DEF CoreInv
  <1>12. UndoneIsGone' BY <1>1, <1>6 DEF CoreInv, UndoneIsGone
  <1>13. Unshown'
    <2>1. n \notin voided BY <1>3 DEF CoreInv, StoreOk
    <2>2. \A i \in DOMAIN stack : stack[i].kind = "done" => stack[i].id \in DOMAIN entries
      BY DEF CoreInv, StackOk, TrueScreen, IsEntry
    <2>3. \A g \in Handler : handler[g].kind \in {"confirmed", "undo"}
                             => handler[g].id \in DOMAIN entries
      BY DEF CoreInv, HandlersOk, TrueCall, IsEntry
    <2>4. ASSUME NEW f \in Handler, handler'[f].kind = "confirmed"
          PROVE  /\ handler'[f].id \notin voided'
                 /\ \A i \in DOMAIN stack' : stack'[i].kind = "done" => stack'[i].id # handler'[f].id
                 /\ \A g \in Handler \ {f} :
                      handler'[g].kind \in {"confirmed", "undo"} => handler'[g].id # handler'[f].id
      <3>1. CASE f = h BY <1>1, <1>3, <1>6, <1>9, <1>11, <2>1, <2>2, <2>3, <3>1
      <3>2. CASE f # h
        <4>1. handler'[f] = handler[f] /\ handler[f].id # n
          BY <1>3, <1>11, <2>3, <2>4, <3>2
        <4> QED BY <1>1, <1>6, <1>9, <1>11, <2>4, <3>2, <4>1 DEF CoreInv, Unshown
      <3> QED BY <3>1, <3>2
    <2> QED BY <2>4 DEF Unshown
  <1> QED BY <1>5, <1>6, <1>11, <1>12, <1>13 DEF CoreInv

LEMMA ShowDoneStep == \A h \in Handler : CoreInv /\ ShowDone(h) => CoreInv'
  <1> SUFFICES ASSUME CoreInv, NEW h \in Handler, ShowDone(h) PROVE CoreInv'
    OBVIOUS
  <1>1. PICK c, x, t :
           /\ c = handler[h] /\ x = Done(c.screen, c.id, Balance(c.screen.customer))
           /\ t = Replaced(stack, x) /\ Moves(h, t, FALSE)
    BY DEF ShowDone
  <1>2. /\ UNCHANGED <<names, entries, voided, unseen>> /\ c.kind = "confirmed" /\ Ends(h)
        /\ Goes(t, FALSE) /\ late' = (t # AtHome /\ (late \/ Top(stack) # c.screen))
    BY <1>1 DEF ShowDone, store, Moves
  <1>3. Grows(names, names') /\ Grows(entries, entries') BY <1>2, GrowsItself
  <1>4. TrueCall(c, names, entries) BY <1>1 DEF CoreInv, HandlersOk
  <1>5. x.kind = "done" /\ x.id = c.id /\ TrueScreen(x, names', entries')
    BY <1>1, <1>2, <1>4 DEF TrueCall, TrueScreen, StartedOn, Done, Screen
  <1>6. /\ StackOk' /\ Top(t) = x
        /\ \A i \in DOMAIN t : (i \in DOMAIN stack /\ t[i] = stack[i]) \/ t[i] = x
        /\ Straight(stack) /\ Top(stack) # Home => Straight(t)
    <2>1. StackOk BY DEF CoreInv
    <2>2. t = Replaced(stack, x) BY <1>1
    <2>3. Goes(t, FALSE) \/ Goes(t, TRUE) BY <1>2
    <2>4. TrueScreen(x, names', entries') BY <1>5
    <2> QED BY <1>3, <2>1, <2>2, <2>3, <2>4, ReplaceKeeps
  <1>7. StoreOk' BY <1>2 DEF CoreInv, StoreOk
  <1>8. /\ HandlersOk' /\ handler'[h].kind = "none"
        /\ \A g \in Handler \ {h} : handler'[g] = handler[g]
    BY <1>2, <1>3, EndsTrue
  <1>9. stack' = t BY <1>2 DEF Goes
  <1>10. UndoneIsGone'
    <2>1. c.id \notin voided BY <1>1, <1>2 DEF CoreInv, Unshown
    <2> QED BY <1>2, <1>5, <1>6, <1>9, <2>1 DEF CoreInv, UndoneIsGone
  <1>11. Unshown'
    <2>1. \A f \in Handler : handler'[f].kind = "confirmed" => f # h /\ handler'[f] = handler[f]
      BY <1>8
    <2>2. \A f \in Handler \ {h} : handler[f].kind = "confirmed" => handler[f].id # c.id
      BY <1>1, <1>2 DEF CoreInv, Unshown
    <2>3. \A g \in Handler : handler'[g].kind \in {"confirmed", "undo"} => handler'[g] = handler[g]
      BY <1>8
    <2> QED BY <1>2, <1>5, <1>6, <1>9, <2>1, <2>2, <2>3 DEF CoreInv, Unshown
  <1>12. OnCourse'
    <2>1. late' \/ t = AtHome \/ (~late /\ Top(stack) = c.screen) BY <1>2
    <2>2. c.screen.kind = "recordEntry" BY <1>2, <1>4 DEF TrueCall, StartedOn
    <2>3. t = AtHome => Straight(t) BY HomeIsTrue DEF AtHome
    <2>4. ~late => Straight(stack) BY DEF CoreInv, OnCourse
    <2> QED BY <1>2, <1>5, <1>6, <2>1, <2>2, <2>3, <2>4, HomeIsTrue, StayOnCourse DEF CoreInv
  <1>13. LoadsOk' BY <1>2, LoadsMove DEF CoreInv
  <1> QED BY <1>6, <1>7, <1>8, <1>10, <1>11, <1>12, <1>13 DEF CoreInv

LEMMA VoidedStep == \A h \in Handler : CoreInv /\ EntryVoided(h) => CoreInv'
  <1> SUFFICES ASSUME CoreInv, NEW h \in Handler, EntryVoided(h) PROVE CoreInv'
    OBVIOUS
  <1>1. PICK id : id = handler[h].id /\ voided' = voided \union {id} BY DEF EntryVoided
  <1>2. /\ UNCHANGED <<names, entries, unseen>> /\ handler[h].kind = "undo" /\ Ends(h)
        /\ Goes(AtHome, TRUE)
    BY DEF EntryVoided, Moves
  <1>3. Grows(names, names') /\ Grows(entries, entries') BY <1>2, GrowsItself
  <1>4. /\ StackOk' /\ Straight(AtHome) /\ Top(AtHome).kind = "home"
        /\ \A i \in DOMAIN stack' : stack'[i].kind # "done"
    BY <1>2, HomeKeeps
  <1>5. id \in DOMAIN entries BY <1>1, <1>2 DEF CoreInv, HandlersOk, TrueCall
  <1>6. StoreOk' BY <1>1, <1>2, <1>5 DEF CoreInv, StoreOk
  <1>7. /\ HandlersOk' /\ handler'[h].kind = "none"
        /\ \A g \in Handler \ {h} : handler'[g] = handler[g]
    BY <1>2, <1>3, EndsTrue
  <1>8. UndoneIsGone' BY <1>4 DEF UndoneIsGone
  <1>9. Unshown'
    <2>1. \A f \in Handler : handler'[f].kind = "confirmed" => f # h /\ handler'[f] = handler[f]
      BY <1>7
    <2>2. \A f \in Handler \ {h} : handler[f].kind = "confirmed" => handler[f].id # id
      BY <1>1, <1>2 DEF CoreInv, Unshown
    <2>3. \A g \in Handler : handler'[g].kind \in {"confirmed", "undo"} => handler'[g] = handler[g]
      BY <1>7
    <2> QED BY <1>1, <1>4, <2>1, <2>2, <2>3 DEF CoreInv, Unshown
  <1>10. OnCourse' BY <1>2, <1>4, StayOnCourse DEF CoreInv
  <1>11. LoadsOk' BY <1>2, LoadsMove DEF CoreInv
  <1> QED BY <1>4, <1>6, <1>7, <1>8, <1>9, <1>10, <1>11 DEF CoreInv

LEMMA AddedStep == \A h \in Handler : CoreInv /\ CustomerAdded(h) => CoreInv'
  <1> SUFFICES ASSUME CoreInv, NEW h \in Handler, CustomerAdded(h) PROVE CoreInv'
    OBVIOUS
  <1>1. PICK c, x, t :
           /\ c = handler[h] /\ names' = Append(names, c.name)
           /\ x = Chosen(c.entryKind, Len(names) + 1, 0, c.name)
           /\ t = Replaced(stack, x) /\ Moves(h, t, TRUE)
    BY DEF CustomerAdded, NameSaved
  <1>2. /\ UNCHANGED <<entries, voided, unseen>> /\ c.kind = "add" /\ Ends(h)
        /\ Goes(t, TRUE) /\ late' = (t # AtHome /\ (late \/ Top(stack) # c.screen))
    BY <1>1 DEF CustomerAdded, Moves
  <1>3. Grows(entries, entries') BY <1>2, GrowsItself
  <1>4. Grows(names, names') BY <1>1, AppendGrows DEF CoreInv, StoreOk
  <1>5. /\ IsList(names') /\ Len(names) + 1 \in DOMAIN names' /\ names'[Len(names) + 1] = c.name
        /\ DOMAIN names \subseteq DOMAIN names'
    <2>1. /\ IsList(names') /\ DOMAIN names' = 1..(Len(names) + 1)
          /\ names'[Len(names) + 1] = c.name
      BY <1>1, ListAppends DEF CoreInv, StoreOk
    <2>2. Len(names) \in Nat BY ListFacts DEF CoreInv, StoreOk
    <2> QED BY <1>4, <2>1, <2>2 DEF Grows
  <1>6. x.kind \in {"recordEntry", "customerDetail"} /\ TrueScreen(x, names', entries')
    BY <1>1, <1>5 DEF Chosen, CustomerDetail, RecordEntry, Screen, TrueScreen
  <1>7. TrueCall(c, names, entries) BY <1>1 DEF CoreInv, HandlersOk
  <1>8. /\ StackOk' /\ Top(t) = x
        /\ \A i \in DOMAIN t : (i \in DOMAIN stack /\ t[i] = stack[i]) \/ t[i] = x
        /\ Straight(stack) /\ Top(stack) # Home => Straight(t)
    <2>1. StackOk BY DEF CoreInv
    <2>2. t = Replaced(stack, x) BY <1>1
    <2>3. Goes(t, FALSE) \/ Goes(t, TRUE) BY <1>2
    <2>4. TrueScreen(x, names', entries') BY <1>6
    <2> QED BY <1>3, <1>4, <2>1, <2>2, <2>3, <2>4, ReplaceKeeps
  <1>9. StoreOk' BY <1>2, <1>5 DEF CoreInv, StoreOk
  <1>10. /\ HandlersOk'
         /\ \A g \in Handler : \/ handler'[g] = handler[g]
                               \/ handler'[g].kind \notin {"confirmed", "undo"}
    BY <1>2, <1>3, <1>4, EndsTrue
  <1>11. stack' = t BY <1>2 DEF Goes
  <1>12. Unshown' /\ UndoneIsGone'
    <2>1. x.kind # "done" BY <1>6
    <2> QED BY <1>2, <1>8, <1>10, <1>11, <2>1, QuietKeeps DEF CoreInv
  <1>13. OnCourse'
    <2>1. late' \/ t = AtHome \/ (~late /\ Top(stack) = c.screen) BY <1>2
    <2>2. c.screen.kind = "addCustomer" BY <1>2, <1>7 DEF TrueCall, StartedOn
    <2>3. t = AtHome => Straight(t) BY HomeIsTrue DEF AtHome
    <2>4. t = AtHome => Top(t).kind = "home" BY HomeIsTrue DEF AtHome
    <2>5. ~late => Straight(stack) BY DEF CoreInv, OnCourse
    <2>6. CASE ~late /\ Top(stack) = c.screen
      <3>1. Straight(t) /\ ~Shows("recordEntry")
        BY <1>8, <2>2, <2>5, <2>6, HomeIsTrue DEF Shows
      <3> QED BY <1>2, <3>1, StayOnCourse DEF CoreInv
    <2>7. CASE late' \/ t = AtHome
      BY <1>2, <2>3, <2>4, <2>7, StayOnCourse DEF CoreInv
    <2> QED BY <2>1, <2>6, <2>7
  <1>14. LoadsOk' BY <1>2, <1>5, LoadsMove DEF CoreInv
  <1> QED BY <1>8, <1>9, <1>10, <1>12, <1>13, <1>14 DEF CoreInv

LEMMA RowReadStep == \A h \in Handler : CoreInv /\ RowRead(h) => CoreInv'
  <1> SUFFICES ASSUME CoreInv, NEW h \in Handler, RowRead(h) PROVE CoreInv'
    OBVIOUS
  <1>1. PICK c, x, t :
           /\ c = handler[h]
           /\ \E amount : x = RecordEntry(c.entryKind, c.screen.customer, amount,
                                          names[c.screen.customer])
           /\ t = Append(stack, x) /\ Moves(h, t, FALSE)
    BY DEF RowRead
  <1>2. /\ UNCHANGED <<names, entries, voided, unseen>> /\ c.kind = "goTo" /\ Ends(h)
        /\ Goes(t, FALSE) /\ late' = (t # AtHome /\ (late \/ Top(stack) # c.screen))
    BY <1>1 DEF RowRead, store, Moves
  <1>3. Grows(names, names') /\ Grows(entries, entries') BY <1>2, GrowsItself
  <1>4. TrueCall(c, names, entries) BY <1>1 DEF CoreInv, HandlersOk
  <1>5. c.screen.kind = "customerDetail" BY <1>2, <1>4 DEF TrueCall, StartedOn
  <1>6. x.kind = "recordEntry" /\ TrueScreen(x, names', entries')
    BY <1>1, <1>2, <1>4, <1>5 DEF TrueCall, TrueScreen, RecordEntry, Screen
  <1>7. /\ StackOk' /\ Top(t) = x
        /\ \A i \in DOMAIN t : (i \in DOMAIN stack /\ t[i] = stack[i]) \/ t[i] = x
        /\ Straight(stack) /\ Top(stack).kind \notin Leaves => Straight(t)
    <2>1. StackOk BY DEF CoreInv
    <2>2. t = Append(stack, x) BY <1>1
    <2>3. Goes(t, FALSE) BY <1>2
    <2>4. TrueScreen(x, names', entries') BY <1>6
    <2> QED BY <1>3, <2>1, <2>2, <2>3, <2>4, PushKeeps
  <1>8. StoreOk' BY <1>2 DEF CoreInv, StoreOk
  <1>9. /\ HandlersOk'
        /\ \A g \in Handler : \/ handler'[g] = handler[g]
                              \/ handler'[g].kind \notin {"confirmed", "undo"}
    BY <1>2, <1>3, EndsTrue
  <1>10. stack' = t BY <1>2 DEF Goes
  <1>11. Unshown' /\ UndoneIsGone'
    <2>1. x.kind # "done" BY <1>6
    <2> QED BY <1>2, <1>7, <1>9, <1>10, <2>1, QuietKeeps DEF CoreInv
  <1>12. OnCourse'
    <2>1. late' \/ t = AtHome \/ (~late /\ Top(stack) = c.screen) BY <1>2
    <2>2. t = AtHome => Straight(t) /\ Top(t).kind = "home" BY HomeIsTrue DEF AtHome
    <2>3. ~late => Straight(stack) BY DEF CoreInv, OnCourse
    <2>4. CASE ~late /\ Top(stack) = c.screen
      <3>1. Straight(t) /\ ~Shows("recordEntry") BY <1>5, <1>7, <2>3, <2>4 DEF Shows, Leaves
      <3> QED BY <1>2, <3>1, StayOnCourse DEF CoreInv
    <2>5. CASE late' \/ t = AtHome
      BY <1>2, <2>2, <2>5, StayOnCourse DEF CoreInv
    <2> QED BY <2>1, <2>4, <2>5
  <1>13. LoadsOk' BY <1>2, LoadsMove DEF CoreInv
  <1> QED BY <1>7, <1>8, <1>9, <1>11, <1>12, <1>13 DEF CoreInv

\* A call that is refused, or throws, also after its INSERT.
LEMMA FailureSteps ==
    ASSUME CoreInv, NEW h \in Handler, GivesUp(h) \/ ThrowsStored(h)
    PROVE  CoreInv'
  <1>1. CASE GivesUp(h)
    <2>1. UNCHANGED <<stack, mounted, names, entries, voided, late, unseen>> /\ Ends(h)
      BY <1>1 DEF GivesUp, store
    <2>2. Grows(names, names') /\ Grows(entries, entries') BY <2>1, GrowsItself
    <2>3. /\ HandlersOk'
          /\ \A g \in Handler : \/ handler'[g] = handler[g]
                                \/ handler'[g].kind \notin {"confirmed", "undo"}
      BY <2>1, <2>2, EndsTrue
    <2>4. LoadsOk' BY <2>1, LoadsStay DEF CoreInv, mounted
    <2> QED BY <2>1, <2>3, <2>4, StandStill DEF mounted
  <1>2. CASE ThrowsStored(h)
    <2>1. UNCHANGED <<stack, mounted, names, late>> /\ unseen' = TRUE /\ Ends(h)
      BY <1>2 DEF ThrowsStored
    <2>2. \/ /\ entries' = Append(entries, Recorded(handler[h].screen, handler[h].amount))
             /\ voided' = voided
          \/ /\ handler[h].kind = "undo" /\ voided' = voided \union {handler[h].id}
             /\ entries' = entries
      BY <1>2 DEF ThrowsStored
    <2>3. Grows(names, names') BY <2>1, GrowsItself
    <2>4. IsList(entries') /\ Grows(entries, entries') /\ DOMAIN entries \subseteq DOMAIN entries'
      BY <2>2, NewEntry, GrowsItself DEF CoreInv, StoreOk
    <2>5. voided' \subseteq DOMAIN entries
      BY <2>2 DEF CoreInv, StoreOk, HandlersOk, TrueCall
    <2>6. StoreOk' BY <2>1, <2>4, <2>5 DEF CoreInv, StoreOk
    <2>7. StackOk' /\ OnCourse' /\ LoadsOk' /\ stack' = stack BY <2>1, <2>3, <2>4, StackStands
    <2>8. /\ HandlersOk' /\ handler'[h].kind = "none"
          /\ \A g \in Handler \ {h} : handler'[g] = handler[g]
      BY <2>1, <2>3, <2>4, EndsTrue
    <2>9. UndoneIsGone' BY <2>1 DEF UndoneIsGone
    <2>10. Unshown'
      <3>1. \A f \in Handler : handler'[f].kind = "confirmed" => f # h /\ handler'[f] = handler[f]
        BY <2>8
      <3>2. \A g \in Handler : handler'[g].kind \in {"confirmed", "undo"}
                               => handler'[g] = handler[g]
        BY <2>8
      <3>3. \A f \in Handler \ {h} : handler[f].kind = "confirmed" => handler[f].id \notin voided'
        BY <2>2 DEF CoreInv, Unshown
      <3> QED BY <2>7, <3>1, <3>2, <3>3 DEF CoreInv, Unshown
    <2> QED BY <2>6, <2>7, <2>8, <2>9, <2>10 DEF CoreInv
  <1> QED BY <1>1, <1>2

----------------------------------------------------------------------------
(* Loads, kills, and every step.                                            *)

\* A load that has read keeps its place and its mark.
LEMMA LoadReadsRows ==
    ASSUME LoadsOk, NEW i \in DOMAIN loads, NEW rows, loads' = [loads EXCEPT ![i].rows = rows]
    PROVE  /\ IsList(loads') /\ Len(loads') = Len(loads) /\ DOMAIN loads' = DOMAIN loads
           /\ loads'[i] = [rows |-> rows, old |-> loads[i].old]
           /\ \A j \in DOMAIN loads : j # i => loads'[j] = loads[j]
  <1>1. PICK S : loads \in Seq(S) BY DEF LoadsOk, IsList
  <1>2. PICK x : x = [loads[i] EXCEPT !.rows = rows] /\ loads' = [loads EXCEPT ![i] = x]
    OBVIOUS
  <1>3. x = [rows |-> rows, old |-> loads[i].old] BY <1>2 DEF LoadsOk
  <1>4. loads \in Seq(S \cup {x}) BY <1>1
  <1>5. loads' \in Seq(S \cup {x}) /\ Len(loads') = Len(loads) /\ DOMAIN loads' = DOMAIN loads
    BY <1>2, <1>4
  <1>6. loads'[i] = x /\ \A j \in DOMAIN loads : j # i => loads'[j] = loads[j] BY <1>2, <1>4
  <1> QED BY <1>3, <1>5, <1>6 DEF IsList

LEMMA Marked ==
    ASSUME LoadsOk, NEW j \in DOMAIN loads, NEW old
    PROVE  [loads[j] EXCEPT !.old = old] = [rows |-> loads[j].rows, old |-> old]
  BY DEF LoadsOk

\* The load at i is taken out; those before it are marked as older.
LEMMA LoadShowsRows ==
    ASSUME LoadsOk, NEW i \in DOMAIN loads,
           loads' = RemoveAt([j \in DOMAIN loads |->
                        [loads[j] EXCEPT !.old = loads[j].old \/ j < i]], i)
    PROVE  /\ IsList(loads') /\ Len(loads') = Len(loads) - 1
           /\ DOMAIN loads' = 1..(Len(loads) - 1)
           /\ \A j \in DOMAIN loads' :
                /\ j < i => loads'[j] = [rows |-> loads[j].rows, old |-> TRUE]
                /\ j >= i => loads'[j] = [rows |-> loads[j + 1].rows, old |-> loads[j + 1].old]
  <1>1. Len(loads) \in Nat /\ DOMAIN loads = 1..Len(loads) BY ListFacts DEF LoadsOk
  <1>2. PICK s : s = [j \in DOMAIN loads |-> [loads[j] EXCEPT !.old = loads[j].old \/ j < i]]
    OBVIOUS
  <1>3. DOMAIN s = 1..Len(loads) BY <1>1, <1>2
  <1>4. \A j \in DOMAIN loads : s[j] = [loads[j] EXCEPT !.old = loads[j].old \/ j < i] BY <1>2
  <1>5. IsList(s) /\ Len(s) = Len(loads)
    <2>1. s \in Seq({s[j] : j \in 1..Len(loads)}) BY <1>1, <1>2
    <2> QED BY <1>1, <1>3, <2>1 DEF IsList
  <1>6. loads' = RemoveAt(s, i) /\ i \in DOMAIN s BY <1>1, <1>2, <1>3
  <1>7. /\ IsList(loads') /\ Len(loads') = Len(s) - 1 /\ DOMAIN loads' = 1..(Len(s) - 1)
        /\ \A j \in DOMAIN loads' : loads'[j] = s[IF j < i THEN j ELSE j + 1]
    BY <1>5, <1>6, ListLoses
  <1>8. ASSUME NEW j \in DOMAIN loads'
        PROVE  /\ j < i => loads'[j] = [rows |-> loads[j].rows, old |-> TRUE]
               /\ j >= i => loads'[j] = [rows |-> loads[j + 1].rows, old |-> loads[j + 1].old]
    <2>1. j \in DOMAIN loads /\ j + 1 \in DOMAIN loads BY <1>1, <1>5, <1>7
    <2>2. CASE j < i
      <3>1. loads'[j] = [loads[j] EXCEPT !.old = loads[j].old \/ j < i]
        BY <1>4, <1>7, <2>1, <2>2
      <3>2. (loads[j].old \/ j < i) = TRUE BY <2>2
      <3>3. loads'[j] = [rows |-> loads[j].rows, old |-> TRUE] BY <2>1, <3>1, <3>2, Marked
      <3> QED BY <1>1, <1>5, <1>7, <2>2, <3>3
    <2>3. CASE j >= i
      <3>1. ~(j < i) /\ ~(j + 1 < i) BY <1>1, <2>1, <2>3
      <3>2. loads'[j] = [loads[j + 1] EXCEPT !.old = loads[j + 1].old \/ j + 1 < i]
        BY <1>4, <1>7, <2>1, <3>1
      <3>3. loads[j + 1].old \in BOOLEAN BY <2>1 DEF LoadsOk
      <3>4. (loads[j + 1].old \/ j + 1 < i) = loads[j + 1].old BY <3>1, <3>3
      <3>5. loads'[j] = [rows |-> loads[j + 1].rows, old |-> loads[j + 1].old]
        BY <2>1, <3>2, <3>3, <3>4, Marked
      <3> QED BY <1>1, <2>1, <3>1, <3>5
    <2> QED BY <1>1, <2>1, <2>2, <2>3
  <1> QED BY <1>5, <1>7, <1>8

LEMMA LoadReadsTrue ==
    ASSUME CoreInv, LoadReads
    PROVE  LoadsOk' /\ UNCHANGED <<stack, typedFor, shown, overtook, handler, names, entries,
                                   voided, late, unseen>>
  <1>1. UNCHANGED <<stack, typedFor, shown, overtook, handler, names, entries, voided, late, unseen>>
    BY DEF LoadReads, Taps, store
  <1>2. PICK i, rows : /\ i \in DOMAIN loads /\ rows = Reads(Top(stack))
                       /\ loads' = [loads EXCEPT ![i].rows = rows]
    BY DEF LoadReads
  <1>3. DOMAIN rows \subseteq DOMAIN names
    <2>1. TrueScreen(Top(stack), names, entries) BY TopIsLast DEF CoreInv
    <2>2. DOMAIN rows = IF Top(stack).kind = "customerDetail" THEN {Top(stack).customer}
                        ELSE Customers
      BY <1>2 DEF Reads
    <2> QED BY <2>1, <2>2 DEF TrueScreen, Customers
  <1>4. /\ IsList(loads') /\ Len(loads') = Len(loads) /\ DOMAIN loads' = DOMAIN loads
        /\ loads'[i] = [rows |-> rows, old |-> loads[i].old]
        /\ \A j \in DOMAIN loads : j # i => loads'[j] = loads[j]
    BY <1>2, LoadReadsRows, Zenon DEF CoreInv
  <1>5. \A j \in DOMAIN loads : /\ loads[j] \in [rows : {loads[j].rows}, old : BOOLEAN]
                                /\ DOMAIN loads[j].rows \subseteq DOMAIN names
    BY DEF CoreInv, LoadsOk
  <1>6. ASSUME NEW j \in DOMAIN loads'
        PROVE  /\ loads'[j] \in [rows : {loads'[j].rows}, old : BOOLEAN]
               /\ DOMAIN loads'[j].rows \subseteq DOMAIN names
    <2>1. CASE j = i BY <1>2, <1>3, <1>4, <1>5, <2>1
    <2>2. CASE j # i BY <1>4, <1>5, <2>2
    <2> QED BY <2>1, <2>2
  <1>7. LoadsOk' BY <1>1, <1>4, <1>6 DEF CoreInv, LoadsOk
  <1> QED BY <1>1, <1>7

LEMMA LoadShowsTrue ==
    ASSUME CoreInv, LoadShows
    PROVE  LoadsOk' /\ UNCHANGED <<stack, typedFor, handler, names, entries, voided, late, unseen>>
  <1>1. UNCHANGED <<stack, typedFor, handler, names, entries, voided, late, unseen>>
    BY DEF LoadShows, Taps, store
  <1>2. PICK i \in DOMAIN loads :
           /\ shown' = loads[i].rows
           /\ loads' = RemoveAt([j \in DOMAIN loads |->
                           [loads[j] EXCEPT !.old = loads[j].old \/ j < i]], i)
    BY DEF LoadShows
  <1>3. /\ IsList(loads') /\ DOMAIN loads' = 1..(Len(loads) - 1)
        /\ \A j \in DOMAIN loads' :
             /\ j < i => loads'[j] = [rows |-> loads[j].rows, old |-> TRUE]
             /\ j >= i => loads'[j] = [rows |-> loads[j + 1].rows, old |-> loads[j + 1].old]
    BY <1>2, LoadShowsRows DEF CoreInv
  <1>4. Len(loads) \in Nat /\ DOMAIN loads = 1..Len(loads) BY ListFacts DEF CoreInv, LoadsOk
  <1>5. \A j \in DOMAIN loads : /\ loads[j].old \in BOOLEAN
                                /\ DOMAIN loads[j].rows \subseteq DOMAIN names
    BY DEF CoreInv, LoadsOk
  <1>6. ASSUME NEW j \in DOMAIN loads'
        PROVE  /\ loads'[j] \in [rows : {loads'[j].rows}, old : BOOLEAN]
               /\ DOMAIN loads'[j].rows \subseteq DOMAIN names
    <2>1. j \in DOMAIN loads /\ j + 1 \in DOMAIN loads /\ (j < i \/ j >= i) BY <1>3, <1>4
    <2>2. PICK k \in DOMAIN loads, old \in BOOLEAN :
             loads'[j] = [rows |-> loads[k].rows, old |-> old]
      BY <1>3, <1>5, <2>1
    <2>3. loads'[j].rows = loads[k].rows BY <2>2
    <2> QED BY <1>5, <2>2, <2>3
  <1>7. LoadsOk' BY <1>1, <1>2, <1>3, <1>5, <1>6 DEF LoadsOk
  <1> QED BY <1>1, <1>7

LEMMA LoadSteps == CoreInv /\ (LoadReads \/ LoadShows) => CoreInv'
  <1> SUFFICES ASSUME CoreInv, LoadReads \/ LoadShows PROVE CoreInv'
    OBVIOUS
  <1>1. LoadsOk' /\ UNCHANGED <<stack, typedFor, handler, names, entries, voided, late, unseen>>
    BY LoadReadsTrue, LoadShowsTrue
  <1>2. HandlersOk' BY <1>1, GrowsItself, HandlersStay DEF CoreInv
  <1> QED BY <1>1, <1>2, StandStill

\* The app that is opened again knows of no screen and no call of the one killed.
LEMMA KillStep == CoreInv /\ Kill => CoreInv'
  <1> SUFFICES ASSUME CoreInv, Kill PROVE CoreInv'
    OBVIOUS
  <1>1. UNCHANGED <<names, entries, voided>> BY DEF Kill, store
  <1>2. StoreOk' BY <1>1 DEF CoreInv, StoreOk
  <1>3. StackOk' /\ \A i \in DOMAIN stack' : stack'[i].kind # "done"
    <2>1. IsList(stack') /\ stack' # <<>> /\ DOMAIN stack' = {1} /\ stack'[1] = Home
      BY ListOfOne DEF Kill
    <2> QED BY <2>1, HomeIsTrue DEF StackOk
  <1>4. HandlersOk' BY NoCall DEF Kill, HandlersOk
  <1>5. Unshown' BY DEF Kill, Unshown, NoHandler
  <1>6. UndoneIsGone' BY <1>3 DEF UndoneIsGone
  <1>7. OnCourse' BY HomeIsTrue DEF Kill, OnCourse, Shows
  <1>8. LoadsOk'
    <2>1. IsList(loads') /\ DOMAIN loads' = {1} /\ loads'[1] = Started BY ListOfOne DEF Kill
    <2>2. Started \in [rows : {Started.rows}, old : BOOLEAN] /\ DOMAIN Started.rows = {}
      BY NoList DEF Started
    <2>3. DOMAIN shown' = {} BY NoList DEF Kill
    <2> QED BY <2>1, <2>2, <2>3 DEF LoadsOk
  <1> QED BY <1>2, <1>3, <1>4, <1>5, <1>6, <1>7, <1>8 DEF CoreInv

LEMMA CoreStep == CoreInv /\ [Next]_vars => CoreInv'
  <1> SUFFICES ASSUME CoreInv, [Next]_vars PROVE CoreInv'
    OBVIOUS
  <1>1. CASE \/ StartCredit \/ ViewCustomers \/ OpenAddCustomer
             \/ TypeName \/ TypeAmount \/ UndoWindowCloses
    BY <1>1, TapSteps
  <1>2. CASE SelectCustomer BY <1>2, SelectStep
  <1>3. CASE Back BY <1>3, BackStep
  <1>4. CASE Continue BY <1>4, ContinueStep
  <1>5. CASE \E h \in Handler : Confirm(h) \/ Undo(h) \/ Save(h) \/ RecordFromDetail(h)
    BY <1>5, StartSteps
  <1>6. CASE \E h \in Handler : EntryRecorded(h) BY <1>6, RecordedStep
  <1>7. CASE \E h \in Handler : ShowDone(h) BY <1>7, ShowDoneStep
  <1>8. CASE \E h \in Handler : EntryVoided(h) BY <1>8, VoidedStep
  <1>9. CASE \E h \in Handler : CustomerAdded(h) BY <1>9, AddedStep
  <1>10. CASE \E h \in Handler : RowRead(h) BY <1>10, RowReadStep
  <1>11. CASE \E h \in Handler : GivesUp(h) \/ ThrowsStored(h) BY <1>11, FailureSteps
  <1>12. CASE LoadReads \/ LoadShows BY <1>12, LoadSteps
  <1>13. CASE Kill BY <1>13, KillStep
  <1>14. CASE UNCHANGED vars
    <2>1. UNCHANGED <<stack, typedFor, shown, loads, handler, names, entries, voided, late, unseen>>
      BY <1>14 DEF vars, mounted, store
    <2>2. HandlersOk' BY <2>1, GrowsItself, HandlersStay DEF CoreInv
    <2>3. LoadsOk' BY <2>1, LoadsStay DEF CoreInv
    <2> QED BY <2>1, <2>2, <2>3, StandStill
  <1> QED
    BY <1>1, <1>2, <1>3, <1>4, <1>5, <1>6, <1>7, <1>8, <1>9, <1>10, <1>11, <1>12, <1>13, <1>14
       DEF Next

----------------------------------------------------------------------------
(* The theorems.                                                            *)

\* A Done screen speaks of an entry that is in the store, of its customer and
\* kind, whatever was tapped, and whatever other handlers did, meanwhile.
THEOREM DoneSpeaksTrue == Spec => []DoneIsRecorded
  <1>1. CoreInv => DoneIsRecorded
    BY DEF CoreInv, StackOk, TrueScreen, IsEntry, DoneIsRecorded
  <1> QED BY <1>1, CoreInit, CoreStep, PTL DEF Spec

\* No screen offers to undo what is undone, unless the void's call threw.
THEOREM NothingUndoneTwice == Spec => []UndoneIsGone
  <1>1. CoreInv => UndoneIsGone BY DEF CoreInv
  <1> QED BY <1>1, CoreInit, CoreStep, PTL DEF Spec

\* The name on an entry or Done screen is its customer's; Back leads home and an
\* amount belongs to the customer shown, unless a handler came late.
THEOREM StackStaysSound == Spec => []StackIsSound
  <1>1. CoreInv => StackIsSound
    BY DEF CoreInv, StackOk, TrueScreen, OnCourse, Straight, Customers, StackIsSound
  <1> QED BY <1>1, CoreInit, CoreStep, PTL DEF Spec

----------------------------------------------------------------------------
(* What a screen shows, when nothing is under way.                          *)

Newest == loads[Len(loads)]

\* The newest load is still on its way, with nothing read or what is true now;
\* or it has been shown, and every load left is known to be older.
NewestIsFresh ==
    (Top(stack).kind \in Loading /\ ~unseen) =>
        \/ /\ loads # <<>> /\ ~Newest.old
           /\ Newest.rows = <<>> \/ Newest.rows = Reads(Top(stack))
        \/ /\ \A i \in DOMAIN loads : loads[i].old
           /\ overtook \/ shown = Reads(Top(stack))

\* The detail screen has one load at most: it cancels the one before.
DetailAlone ==
    Shows("customerDetail") =>
        ~overtook /\ Len(loads) <= 1 /\ \A i \in DOMAIN loads : ~loads[i].old

FreshInv == NewestIsFresh /\ DetailAlone

\* What a load reads, as a function of the store alone.
RowsOf(s, ns, es, undone) ==
    [c \in IF s.kind = "customerDetail" THEN {s.customer} ELSE DOMAIN ns |-> BalanceOf(es, undone, c)]

LEMMA ReadsRows ==
    ASSUME NEW s
    PROVE  /\ Reads(s) = RowsOf(s, names, entries, voided)
           /\ Reads(s)' = RowsOf(s, names', entries', voided')
  BY DEF Reads, RowsOf, Balance, Customers

\* A screen of the same kind and customer reads the same from the same store.
LEMMA SameRead ==
    ASSUME UNCHANGED store, NEW s, NEW t, s.kind = t.kind,
           s.kind = "customerDetail" => s.customer = t.customer
    PROVE  Reads(s)' = Reads(t)
  <1>1. UNCHANGED <<names, entries, voided>> BY DEF store
  <1>2. RowsOf(s, names, entries, voided) = RowsOf(t, names, entries, voided) BY DEF RowsOf
  <1> QED BY <1>1, <1>2, ReadsRows

\* A load that is started is the newest, and has read nothing.
LEMMA StartedIsNew ==
    /\ Started.rows = <<>> /\ Started.old = FALSE
    /\ <<Started>> # <<>> /\ Len(<<Started>>) = 1 /\ DOMAIN <<Started>> = {1}
    /\ <<Started>>[1] = Started
    /\ \A s : IsList(s) => Append(s, Started) # <<>>
                           /\ Append(s, Started)[Len(Append(s, Started))] = Started
  <1>1. Started.rows = <<>> /\ Started.old = FALSE BY DEF Started
  <1>2. ASSUME NEW s, IsList(s)
        PROVE  Append(s, Started) # <<>> /\ Append(s, Started)[Len(Append(s, Started))] = Started
    BY <1>2, ListAppends
  <1> QED BY <1>1, <1>2, ListOfOne

\* However the stack moves: a screen of another kind loads anew; one of its own
\* kind goes on with what it has, if neither the store nor the customer changed.
LEMMA GoesFresh ==
    ASSUME LoadsOk, FreshInv, NEW t, NEW bumped \in BOOLEAN, Goes(t, bumped),
           bumped \/ UNCHANGED store, unseen' = unseen
    PROVE  FreshInv'
  <1> DEFINE was == Top(stack)
             now == Top(t)
  <1>1. stack' = t BY DEF Goes
  <1>2. CASE now.kind \notin Loading
    BY <1>1, <1>2 DEF FreshInv, NewestIsFresh, DetailAlone, Shows, Loading
  <1>3. CASE now.kind \in Loading /\ was.kind # now.kind
    <2>1. loads' = <<Started>> /\ overtook' = FALSE
      <3>1. loads' = <<Started>> BY <1>3, Zenon DEF Goes
      <3>2. overtook' = (overtook /\ was.kind = now.kind) BY Zenon DEF Goes
      <3> QED BY <1>3, <3>1, <3>2
    <2>2. NewestIsFresh' BY <2>1, StartedIsNew DEF NewestIsFresh, Newest
    <2>3. DetailAlone' BY <2>1, StartedIsNew DEF DetailAlone
    <2> QED BY <2>2, <2>3 DEF FreshInv
  <1>4. CASE /\ now.kind \in Loading /\ was.kind = now.kind
             /\ bumped \/ was.customer # now.customer
    <2>1. loads' = Reloaded(now) /\ overtook' = (overtook /\ TRUE) BY <1>4, Zenon DEF Goes
    <2>2. CASE now.kind = "customerDetail"
      <3>1. loads' = <<Started>> BY <2>1, <2>2 DEF Reloaded
      <3>2. ~overtook' BY <1>4, <2>1, <2>2 DEF FreshInv, DetailAlone, Shows
      <3>3. NewestIsFresh' BY <3>1, StartedIsNew DEF NewestIsFresh, Newest
      <3>4. DetailAlone' BY <3>1, <3>2, StartedIsNew DEF DetailAlone
      <3> QED BY <3>3, <3>4 DEF FreshInv
    <2>3. CASE now.kind # "customerDetail"
      <3>1. loads' = Append(loads, Started) BY <2>1, <2>3 DEF Reloaded
      <3>2. NewestIsFresh' BY <3>1, StartedIsNew DEF LoadsOk, NewestIsFresh, Newest
      <3>3. DetailAlone' BY <1>1, <2>3 DEF DetailAlone, Shows
      <3> QED BY <3>2, <3>3 DEF FreshInv
    <2> QED BY <2>2, <2>3
  <1>5. CASE /\ now.kind \in Loading /\ was.kind = now.kind
             /\ ~bumped /\ was.customer = now.customer
    <2>1. loads' = loads /\ shown' = shown /\ overtook' = (overtook /\ TRUE)
      BY <1>5, Zenon DEF Goes
    <2>2. Reads(now)' = Reads(was) BY <1>5, SameRead
    <2> QED BY <1>1, <1>5, <2>1, <2>2 DEF FreshInv, NewestIsFresh, Newest, DetailAlone, Shows
  <1> QED BY <1>2, <1>3, <1>4, <1>5

LEMMA FreshStands ==
    ASSUME FreshInv, UNCHANGED <<stack, shown, loads, overtook, unseen>>, UNCHANGED store
    PROVE  FreshInv'
  <1>1. Reads(Top(stack))' = Reads(Top(stack))
    <2>1. PICK s : s = Top(stack) OBVIOUS
    <2>2. Top(stack') = s BY <2>1
    <2> QED BY <2>1, <2>2, SameRead, Zenon
  <1> QED BY <1>1 DEF FreshInv, NewestIsFresh, Newest, DetailAlone, Shows

\* What is read is what is true now, also for the newest load.
LEMMA FreshReads == CoreInv /\ FreshInv /\ LoadReads => FreshInv'
  <1> SUFFICES ASSUME CoreInv, FreshInv, LoadReads PROVE FreshInv'
    OBVIOUS
  <1>1. UNCHANGED store /\ UNCHANGED <<stack, shown, overtook, unseen>>
    BY DEF LoadReads, Taps
  <1>2. PICK i, rows : /\ i \in DOMAIN loads /\ rows = Reads(Top(stack))
                       /\ loads' = [loads EXCEPT ![i].rows = rows]
    BY DEF LoadReads
  <1>3. /\ Len(loads') = Len(loads) /\ DOMAIN loads' = DOMAIN loads
        /\ loads'[i] = [rows |-> rows, old |-> loads[i].old]
        /\ \A j \in DOMAIN loads : j # i => loads'[j] = loads[j]
    BY <1>2, LoadReadsRows, Zenon DEF CoreInv
  <1>4. loads'[i].rows = rows /\ loads'[i].old = loads[i].old BY <1>3
  <1>5. PICK s : s = Top(stack) /\ Top(stack') = s BY <1>1
  <1>6. Reads(s)' = Reads(s) BY <1>1, SameRead
  <1>7. Len(loads) \in DOMAIN loads /\ Len(loads') \in DOMAIN loads' /\ loads' # <<>>
    <2>1. loads # <<>> BY <1>2, NoList
    <2>2. loads' # <<>> BY <1>2, <1>3, NoList
    <2> QED BY <1>3, <2>1, <2>2, ListFacts DEF CoreInv, LoadsOk
  <1>8. NewestIsFresh'
    <2> SUFFICES ASSUME s.kind \in Loading, ~unseen
                 PROVE  \/ /\ loads' # <<>> /\ ~Newest'.old
                           /\ Newest'.rows = <<>> \/ Newest'.rows = Reads(s)'
                        \/ /\ \A j \in DOMAIN loads' : loads'[j].old
                           /\ overtook' \/ shown' = Reads(s)'
      BY <1>1, <1>5 DEF NewestIsFresh
    <2>1. CASE /\ ~Newest.old
               /\ Newest.rows = <<>> \/ Newest.rows = Reads(s)
      <3>1. Newest'.old = Newest.old BY <1>3, <1>4, <1>7 DEF Newest
      <3>2. Newest'.rows = Newest.rows \/ Newest'.rows = rows BY <1>3, <1>4, <1>7 DEF Newest
      <3> QED BY <1>2, <1>5, <1>6, <1>7, <2>1, <3>1, <3>2
    <2>2. CASE /\ \A j \in DOMAIN loads : loads[j].old
               /\ overtook \/ shown = Reads(s)
      BY <1>1, <1>3, <1>4, <1>6, <2>2
    <2> QED BY <1>5, <2>1, <2>2 DEF FreshInv, NewestIsFresh
  <1>9. DetailAlone' BY <1>1, <1>3, <1>4 DEF FreshInv, DetailAlone, Shows
  <1> QED BY <1>8, <1>9 DEF FreshInv

\* The newest load is shown as it was read; any other is older than it.
LEMMA FreshShows == CoreInv /\ FreshInv /\ LoadShows => FreshInv'
  <1> SUFFICES ASSUME CoreInv, FreshInv, LoadShows PROVE FreshInv'
    OBVIOUS
  <1>1. UNCHANGED store /\ UNCHANGED <<stack, unseen>> BY DEF LoadShows, Taps
  <1>2. PICK i \in DOMAIN loads :
           /\ loads[i].rows # <<>> /\ shown' = loads[i].rows /\ overtook' = loads[i].old
           /\ loads' = RemoveAt([j \in DOMAIN loads |->
                           [loads[j] EXCEPT !.old = loads[j].old \/ j < i]], i)
    BY DEF LoadShows
  <1>3. /\ IsList(loads') /\ Len(loads') = Len(loads) - 1 /\ DOMAIN loads' = 1..(Len(loads) - 1)
        /\ \A j \in DOMAIN loads' :
             /\ j < i => loads'[j] = [rows |-> loads[j].rows, old |-> TRUE]
             /\ j >= i => loads'[j] = [rows |-> loads[j + 1].rows, old |-> loads[j + 1].old]
    BY <1>2, LoadShowsRows DEF CoreInv
  <1>4. /\ Len(loads) \in Nat /\ DOMAIN loads = 1..Len(loads) /\ Len(loads) >= 1
        /\ Len(loads) \in DOMAIN loads /\ i \in 1..Len(loads)
    BY ListFacts DEF CoreInv, LoadsOk
  <1>5. PICK s : s = Top(stack) /\ Top(stack') = s BY <1>1
  <1>6. Reads(s)' = Reads(s) BY <1>1, SameRead
  <1>7. \A j \in DOMAIN loads' : \/ j < i /\ loads'[j].old = TRUE
                                 \/ /\ j >= i /\ j + 1 \in DOMAIN loads
                                    /\ loads'[j].old = loads[j + 1].old
                                    /\ loads'[j].rows = loads[j + 1].rows
    <2> TAKE j \in DOMAIN loads'
    <2>1. CASE j < i BY <1>3, <2>1
    <2>2. CASE j >= i
      <3>1. j + 1 \in DOMAIN loads BY <1>3, <1>4
      <3> QED BY <1>3, <2>2, <3>1
    <2> QED BY <1>3, <1>4, <2>1, <2>2
  <1>8. NewestIsFresh'
    <2> SUFFICES ASSUME s.kind \in Loading, ~unseen
                 PROVE  \/ /\ loads' # <<>> /\ ~Newest'.old
                           /\ Newest'.rows = <<>> \/ Newest'.rows = Reads(s)'
                        \/ /\ \A j \in DOMAIN loads' : loads'[j].old
                           /\ overtook' \/ shown' = Reads(s)'
      BY <1>1, <1>5 DEF NewestIsFresh
    <2>1. CASE /\ ~Newest.old
               /\ Newest.rows = <<>> \/ Newest.rows = Reads(s)
      <3>1. CASE i = Len(loads)
        <4>1. shown' = Reads(s)' BY <1>2, <1>6, <2>1, <3>1 DEF Newest
        <4>2. \A j \in DOMAIN loads' : j < i BY <1>3, <1>4, <3>1
        <4> QED BY <1>3, <4>1, <4>2
      <3>2. CASE i # Len(loads)
        <4>1. /\ Len(loads') \in DOMAIN loads' /\ Len(loads') >= i
              /\ Len(loads') + 1 = Len(loads)
          BY <1>3, <1>4, <3>2
        <4>2. Newest'.old = Newest.old /\ Newest'.rows = Newest.rows
          BY <1>3, <4>1 DEF Newest
        <4>3. loads' # <<>> BY <4>1, NoList
        <4> QED BY <1>6, <2>1, <4>2, <4>3
      <3> QED BY <3>1, <3>2
    <2>2. CASE /\ \A j \in DOMAIN loads : loads[j].old
               /\ overtook \/ shown = Reads(s)
      <3>1. overtook' BY <1>2, <2>2
      <3>2. \A j \in DOMAIN loads' : loads'[j].old BY <1>7, <2>2
      <3> QED BY <3>1, <3>2
    <2> QED BY <1>5, <2>1, <2>2 DEF FreshInv, NewestIsFresh
  <1>9. DetailAlone'
    <2> SUFFICES ASSUME s.kind = "customerDetail"
                 PROVE  ~overtook' /\ Len(loads') <= 1 /\ \A j \in DOMAIN loads' : ~loads'[j].old
      BY <1>5 DEF DetailAlone, Shows
    <2>1. Len(loads) <= 1 /\ \A j \in DOMAIN loads : ~loads[j].old
      BY <1>5 DEF FreshInv, DetailAlone, Shows
    <2>2. DOMAIN loads' = {} /\ Len(loads') <= 1 BY <1>3, <1>4, <2>1
    <2> QED BY <1>2, <2>1, <2>2
  <1> QED BY <1>8, <1>9 DEF FreshInv

LEMMA FreshInit == Init => FreshInv
  <1> SUFFICES ASSUME Init PROVE FreshInv
    OBVIOUS
  <1>1. loads = <<Started>> /\ overtook = FALSE BY DEF Init
  <1>2. Newest = Started BY <1>1, StartedIsNew DEF Newest
  <1> QED BY <1>1, <1>2, StartedIsNew DEF FreshInv, NewestIsFresh, DetailAlone

\* A step changes the store and loads again, or leaves both alone; only a call
\* that throws after its INSERT does the one without the other.
LEMMA FreshStep == CoreInv /\ FreshInv /\ [Next]_vars => FreshInv'
  <1> SUFFICES ASSUME CoreInv, FreshInv, [Next]_vars PROVE FreshInv'
    OBVIOUS
  <1>1. LoadsOk BY DEF CoreInv
  <1>2. ASSUME \E t : Goes(t, FALSE), UNCHANGED store, UNCHANGED unseen PROVE FreshInv'
    BY <1>1, <1>2, GoesFresh
  <1>3. ASSUME \E t : Goes(t, TRUE), UNCHANGED unseen PROVE FreshInv'
    BY <1>1, <1>3, GoesFresh
  <1>4. CASE StartCredit \/ ViewCustomers \/ SelectCustomer \/ OpenAddCustomer \/ Back \/ Continue
    <2>1. UNCHANGED store /\ UNCHANGED unseen
      BY <1>4 DEF StartCredit, ViewCustomers, SelectCustomer, OpenAddCustomer, Back, Continue, Taps
    <2>2. \E t : Goes(t, FALSE)
      BY <1>4 DEF StartCredit, ViewCustomers, SelectCustomer, OpenAddCustomer, Back, Continue, Push
    <2> QED BY <1>2, <2>1, <2>2
  <1>5. CASE TypeName \/ TypeAmount \/ UndoWindowCloses
    <2>1. UNCHANGED <<stack, shown, loads, overtook, unseen>> /\ UNCHANGED store
      BY <1>5 DEF TypeName, TypeAmount, UndoWindowCloses, Taps, mounted
    <2> QED BY <2>1, FreshStands
  <1>6. ASSUME NEW h \in Handler,
               Confirm(h) \/ Undo(h) \/ Save(h) \/ RecordFromDetail(h) \/ GivesUp(h)
        PROVE  FreshInv'
    <2>1. UNCHANGED <<stack, shown, loads, overtook, unseen>> /\ UNCHANGED store
      BY <1>6 DEF Confirm, Undo, Save, RecordFromDetail, Starts, GivesUp, mounted
    <2> QED BY <2>1, FreshStands
  <1>7. ASSUME NEW h \in Handler, EntryRecorded(h) PROVE FreshInv'
    <2>1. CASE Top(stack).kind \in Loading
      <3>1. \E t : Goes(t, TRUE) BY <1>7, <2>1 DEF EntryRecorded
      <3> QED BY <1>3, <1>7, <3>1 DEF EntryRecorded
    <2>2. CASE Top(stack).kind \notin Loading
      <3>1. UNCHANGED <<stack, mounted>> BY <1>7, <2>2 DEF EntryRecorded
      <3> QED BY <2>2, <3>1 DEF FreshInv, NewestIsFresh, DetailAlone, Shows, Loading
    <2> QED BY <2>1, <2>2
  <1>8. ASSUME NEW h \in Handler, ShowDone(h) \/ RowRead(h) PROVE FreshInv'
    <2>1. UNCHANGED store /\ UNCHANGED unseen BY <1>8 DEF ShowDone, RowRead
    <2>2. \E t : Goes(t, FALSE) BY <1>8 DEF ShowDone, RowRead, Moves
    <2> QED BY <1>2, <2>1, <2>2
  <1>9. ASSUME NEW h \in Handler, EntryVoided(h) \/ CustomerAdded(h) PROVE FreshInv'
    <2>1. UNCHANGED unseen BY <1>9 DEF EntryVoided, CustomerAdded
    <2>2. \E t : Goes(t, TRUE) BY <1>9 DEF EntryVoided, CustomerAdded, Moves
    <2> QED BY <1>3, <2>1, <2>2
  <1>10. ASSUME NEW h \in Handler, ThrowsStored(h) PROVE FreshInv'
    <2>1. UNCHANGED <<stack, mounted>> /\ unseen' = TRUE BY <1>10 DEF ThrowsStored
    <2> QED BY <2>1 DEF FreshInv, NewestIsFresh, DetailAlone, Shows, mounted
  <1>11. CASE LoadReads BY <1>11, FreshReads
  <1>12. CASE LoadShows BY <1>12, FreshShows
  <1>13. CASE Kill
    <2>1. loads' = <<Started>> /\ overtook' = FALSE BY <1>13 DEF Kill
    <2>2. Newest' = Started BY <2>1, StartedIsNew DEF Newest
    <2> QED BY <2>1, <2>2, StartedIsNew DEF FreshInv, NewestIsFresh, DetailAlone
  <1>14. CASE UNCHANGED vars
    <2>1. UNCHANGED <<stack, shown, loads, overtook, unseen>> /\ UNCHANGED store
      BY <1>14 DEF vars, mounted
    <2> QED BY <2>1, FreshStands
  <1> QED
    BY <1>4, <1>5, <1>6, <1>7, <1>8, <1>9, <1>10, <1>11, <1>12, <1>13, <1>14 DEF Next

\* With no load under way, home, the list and the detail screen show the store's
\* balances, unless an older load of home or of the list ended last or a call
\* threw after its INSERT.
THEOREM BalancesAreFresh == Spec => []ShownIsFresh
  <1>1. CoreInv /\ FreshInv => ShownIsFresh
    <2> SUFFICES ASSUME CoreInv, FreshInv, Top(stack).kind \in Loading, loads = <<>>, ~unseen
                 PROVE  shown = Reads(Top(stack)) \/ (overtook /\ ~Shows("customerDetail"))
      BY DEF ShownIsFresh
    <2> QED BY DEF FreshInv, NewestIsFresh, DetailAlone
  <1>2. Init => CoreInv /\ FreshInv BY CoreInit, FreshInit
  <1>3. CoreInv /\ FreshInv /\ [Next]_vars => (CoreInv /\ FreshInv)' BY CoreStep, FreshStep
  <1> QED BY <1>1, <1>2, <1>3, PTL DEF Spec
=============================================================================
