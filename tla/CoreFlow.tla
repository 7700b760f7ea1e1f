------------------------------ MODULE CoreFlow ------------------------------
(* The screens a shopkeeper records with: CoreFlow                          *)
(* (apps/mobile/src/navigation/CoreFlow.tsx), its stack of screens, and the *)
(* handlers that go on behind the screen that started them.  A handler      *)
(* awaits the event store or a query and then moves the stack, wherever the *)
(* stack is by then: nothing disables Back, Confirm, Save or Undo meanwhile.*)
(*                                                                          *)
(* React keeps the state of a component that is rendered again in the same  *)
(* place: a screen that follows one of its own kind takes over its amount,  *)
(* its countdown and its loads.  A screen that follows another kind is new. *)
(*                                                                          *)
(* The store is what its calls promise: an append adds its event, a balance *)
(* is the sum of what is not voided (EventStore says when that may fail).   *)
EXTENDS Integers, Sequences, FiniteSets, FiniteSetsExt, SequencesExt

CONSTANTS
    Handler,       \* awaited calls that may be going on together
    Name,          \* what a customer may be called
    NoName,        \* an empty name field
    Amount,        \* amounts the keypad can compose
    MaxDepth,      \* bound: screens on the stack
    MaxEffects     \* bound: customers added, entries and failures, all together

ASSUME NameAssumption == NoName \notin Name /\ Name # {}
ASSUME AmountAssumption == Amount \subseteq Nat
ASSUME BoundAssumption == {MaxDepth, MaxEffects} \subseteq Nat

VARIABLES
    stack,     \* the screens, the one shown last
    typed,     \* amountPoisha of the RecordEntryScreen that is mounted
    undoable,  \* the DoneScreen that is mounted still counts its ten seconds
    draft,     \* the name in addCustomerDraft
    shown,     \* the balances the mounted screen shows; <<>> while its vm is null
    loads,     \* the queries behind it, oldest first
    handler,   \* handler[h]: the handler awaiting call h
    names,     \* names[c]: display_name of customer c
    entries,   \* entries[e]: the credit or payment with event id e
    voided,    \* the entries an ENTRY_VOIDED names
    failures,  \* how often a call was refused or cut short, or the app killed
    overtook,  \* an older load of this screen was shown last (history)
    late,      \* a handler moved the stack after its screen was left (history)
    unseen,    \* a call that threw had stored its event (history)
    typedFor   \* the customer typed was composed for, 0 if none (history)

mounted == <<typed, typedFor, undoable, shown, loads, overtook>>
store == <<names, entries, voided>>
vars == <<stack, mounted, draft, handler, store, failures, late, unseen>>

----------------------------------------------------------------------------
(* Screens.                                                                 *)

Kinds == {"CREDIT", "PAYMENT"}

Screen(kind, entryKind, customer, amount, id, name) ==
    [kind |-> kind, entryKind |-> entryKind, customer |-> customer,
     amount |-> amount, id |-> id, name |-> name]

Home == Screen("home", "", 0, 0, 0, NoName)
CustomerList(entryKind) == Screen("customerList", entryKind, 0, 0, 0, NoName)
AddCustomer(entryKind) == Screen("addCustomer", entryKind, 0, 0, 0, NoName)
RecordEntry(entryKind, c, initial, name) == Screen("recordEntry", entryKind, c, initial, 0, name)
CustomerDetail(c) == Screen("customerDetail", "", c, 0, 0, NoName)

\* A customer has been picked or added: his detail, unless an entry was begun.
Chosen(entryKind, c, initial, name) ==
    IF entryKind = "" THEN CustomerDetail(c) ELSE RecordEntry(entryKind, c, initial, name)

\* Mutant of Done: the customer of the screen that is shown by then.
DoneOfTop(s, e, balance) ==
    LET top == stack[Len(stack)] IN
    Screen("done", s.entryKind, IF top.kind = "recordEntry" THEN top.customer ELSE s.customer,
           balance, e, s.name)

\* The Done screen of entry e, recorded on screen s; its amount is the balance.
Done(s, e, balance) == Screen("done", s.entryKind, s.customer, balance, e, s.name)

\* current: an empty stack reads as Home.
Top(s) == IF s = <<>> THEN Home ELSE s[Len(s)]
Shows(kind) == Top(stack).kind = kind

Customers == DOMAIN names

\* The entries es without the undone ones, added up for customer c.
BalanceOf(es, undone, c) ==
    LET sum(kind) == MapThenSumSet(LAMBDA e : es[e].amount,
            {e \in DOMAIN es \ undone : es[e].customer = c /\ es[e].entryKind = kind})
    IN  sum("CREDIT") - sum("PAYMENT")
Balance(c) == BalanceOf(entries, voided, c)

\* What a load of screen s reads: listCustomerRows and getHomeVM, or getCustomerRow.
Reads(s) == [c \in IF s.kind = "customerDetail" THEN {s.customer} ELSE Customers |-> Balance(c)]

Loading == {"home", "customerList", "customerDetail"}

\* A load: the rows it has read, and whether a later one was shown before it.
Started == [rows |-> <<>>, old |-> FALSE]

\* Mutant of Reloaded: the detail screen leaves its earlier loads running.
ReloadedBeside(s) == Append(loads, Started)

\* The loads of a mounted screen whose effect runs again: the detail screen
\* cancels what it had started, home and the list do not.
Reloaded(s) == IF s.kind = "customerDetail" THEN <<Started>> ELSE Append(loads, Started)

\* The stack becomes s.  bumped: refreshToken went up in the same update.
Goes(s, bumped) ==
    LET was == Top(stack)
        now == Top(s)
        kept == was.kind = now.kind
        again == bumped \/ was.customer # now.customer
    IN  /\ stack' = s
        /\ typed' = IF now.kind # "recordEntry" THEN 0
                    ELSE IF kept THEN typed ELSE now.amount
        /\ typedFor' = IF now.kind # "recordEntry" THEN 0
                       ELSE IF kept THEN typedFor ELSE now.customer
        /\ undoable' = (now.kind = "done" /\ (kept => undoable))
        /\ shown' = IF kept /\ now.kind \in Loading THEN shown ELSE <<>>
        /\ loads' = IF now.kind \notin Loading THEN <<>>
                    ELSE IF ~kept THEN <<Started>>
                    ELSE IF again THEN Reloaded(now) ELSE loads
        /\ overtook' = (overtook /\ kept)

Push(screen) == Len(stack) < MaxDepth /\ Goes(Append(stack, screen), FALSE)
Replaced(s, screen) == Append(IF s = <<>> THEN <<>> ELSE Front(s), screen)

Popped(s) == IF Len(s) > 1 THEN Front(s) ELSE s

\* Mutant of AtHome: only the screen shown goes.
AtHomeLess == stack

AtHome == <<Home>>

NoHandler ==
    [kind |-> "none", screen |-> Home, entryKind |-> "", amount |-> 0, id |-> 0, name |-> NoName]

Init ==
    /\ stack = <<Home>>
    /\ typed = 0 /\ typedFor = 0 /\ undoable = FALSE /\ shown = <<>> /\ loads = <<Started>>
    /\ draft = NoName
    /\ handler = [h \in Handler |-> NoHandler]
    /\ \E n \in Name : names = <<n>>
    /\ entries = <<>> /\ voided = {}
    /\ failures = 0
    /\ overtook = FALSE /\ late = FALSE /\ unseen = FALSE

----------------------------------------------------------------------------
(* What the shopkeeper does.                                                *)

\* A tap that only moves the stack, or only changes what is mounted.
Taps == UNCHANGED <<handler, store, failures, unseen>>

\* Home and the detail screen show their buttons once they are loaded.
Loaded == shown # <<>>

StartCredit ==
    /\ Shows("home") /\ Loaded
    /\ Push(CustomerList("CREDIT"))
    /\ Taps /\ UNCHANGED <<draft, late>>

ViewCustomers ==
    /\ Shows("home") /\ Loaded
    /\ Push(CustomerList(""))
    /\ Taps /\ UNCHANGED <<draft, late>>

\* A row of the list carries the balance the list was loaded with.
SelectCustomer ==
    /\ Shows("customerList")
    /\ \E c \in DOMAIN shown :
        LET kind == Top(stack).entryKind IN
        Push(Chosen(kind, c, IF kind = "PAYMENT" THEN shown[c] ELSE 0, names[c]))
    /\ Taps /\ UNCHANGED <<draft, late>>

OpenAddCustomer ==
    /\ Shows("customerList")
    /\ Push(AddCustomer(Top(stack).entryKind))
    /\ Taps /\ UNCHANGED <<draft, late>>

\* Back, Cancel, and the hardware button; only Cancel of the form clears the
\* draft.  Home has no Back, and the hardware button leaves the app there.
Back ==
    /\ ~Shows("home")
    /\ Goes(Popped(stack), FALSE)
    /\ draft' \in IF Shows("addCustomer") THEN {draft, NoName} ELSE {draft}
    /\ Taps /\ UNCHANGED late

TypeName ==
    /\ Shows("addCustomer")
    /\ \E n \in Name : n # draft /\ draft' = n
    /\ Taps /\ UNCHANGED <<stack, mounted, late>>

\* A digit, a backspace or a chip.
TypeAmount ==
    /\ Shows("recordEntry")
    /\ \E a \in Amount : a # typed /\ typed' = a
    /\ typedFor' = Top(stack).customer
    /\ Taps /\ UNCHANGED <<stack, undoable, shown, loads, overtook, draft, late>>

Continue ==
    /\ Shows("done")
    /\ Goes(AtHome, FALSE) /\ late' = FALSE
    /\ Taps /\ UNCHANGED draft

UndoWindowCloses ==
    /\ Shows("done") /\ undoable
    /\ undoable' = FALSE
    /\ Taps /\ UNCHANGED <<stack, typed, typedFor, shown, loads, overtook, draft, late>>

\* The shopkeeper starts handler h, which awaits its first call.
Starts(h, kind, entryKind, amount, id, name) ==
    /\ handler[h].kind = "none"
    /\ handler' = [handler EXCEPT ![h] =
           [kind |-> kind, screen |-> Top(stack), entryKind |-> entryKind, amount |-> amount,
            id |-> id, name |-> name]]
    /\ UNCHANGED <<stack, mounted, draft, store, failures, late, unseen>>

Confirm(h) ==
    /\ Shows("recordEntry") /\ typed > 0
    /\ Starts(h, "confirm", Top(stack).entryKind, typed, 0, NoName)

Undo(h) ==
    /\ Shows("done") /\ undoable
    /\ Starts(h, "undo", "", 0, Top(stack).id, NoName)

Save(h) ==
    /\ Shows("addCustomer") /\ draft # NoName
    /\ Starts(h, "add", Top(stack).entryKind, 0, 0, draft)

\* The detail screen's two buttons: goToRecordEntry reads the row first.
RecordFromDetail(h) ==
    /\ Shows("customerDetail") /\ Loaded
    /\ \E kind \in Kinds : Starts(h, "goTo", kind, 0, 0, NoName)

----------------------------------------------------------------------------
(* What the handlers do once their call has returned.                       *)

Room == Len(names) + Len(entries) + failures <= MaxEffects

Ends(h) == handler' = [handler EXCEPT ![h] = NoHandler]

\* Handler h moves the stack; its screen may have been left by now.
Moves(h, s, bumped) ==
    /\ Goes(s, bumped)
    /\ late' = (s # AtHome /\ (late \/ Top(stack) # handler[h].screen))

Recorded(screen, amount) ==
    [entryKind |-> screen.entryKind, customer |-> screen.customer, amount |-> amount]

\* handleConfirmEntry after recordEntry: bumpRefresh, and the row is read.
EntryRecorded(h) ==
    LET c == handler[h] IN
    /\ c.kind = "confirm" /\ Room
    /\ entries' = Append(entries, Recorded(c.screen, c.amount))
    /\ handler' = [handler EXCEPT ![h].kind = "confirmed", ![h].id = Len(entries')]
    /\ IF Top(stack).kind \in Loading
       THEN Goes(stack, TRUE)
       ELSE UNCHANGED <<stack, mounted>>
    /\ UNCHANGED <<draft, names, voided, failures, late, unseen>>

\* handleConfirmEntry after getCustomerRow.
ShowDone(h) ==
    LET c == handler[h] IN
    /\ c.kind = "confirmed"
    /\ Moves(h, Replaced(stack, Done(c.screen, c.id, Balance(c.screen.customer))), FALSE)
    /\ Ends(h)
    /\ UNCHANGED <<draft, store, failures, unseen>>

\* handleUndo after voidEntry.
EntryVoided(h) ==
    LET c == handler[h] IN
    /\ c.kind = "undo"
    /\ voided' = voided \union {c.id}
    /\ Moves(h, AtHome, TRUE)
    /\ Ends(h)
    /\ UNCHANGED <<draft, names, entries, failures, unseen>>

\* Mutant of NameSaved: the draft as it is when the call returns.
NameDrafted(c) == draft

\* The name addCustomer was called with.
NameSaved(c) == c.name

\* handleAddCustomerSubmit after addCustomer.
CustomerAdded(h) ==
    LET c == handler[h]
        new == Len(names) + 1
    IN  /\ c.kind = "add" /\ Room
        /\ names' = Append(names, c.name)
        /\ draft' = NoName
        /\ Moves(h, Replaced(stack, Chosen(c.entryKind, new, 0, NameSaved(c))), TRUE)
        /\ Ends(h)
        /\ UNCHANGED <<entries, voided, failures, unseen>>

\* goToRecordEntry after getCustomerRow.
RowRead(h) ==
    LET kind == handler[h].entryKind
        c == handler[h].screen.customer
    IN  /\ handler[h].kind = "goTo" /\ Len(stack) < MaxDepth
        /\ Moves(h, Append(stack, RecordEntry(kind, c,
                   IF kind = "PAYMENT" THEN Balance(c) ELSE 0, names[c])), FALSE)
        /\ Ends(h)
        /\ UNCHANGED <<draft, store, failures, unseen>>

\* The call is refused or throws: the handler ends and its screen stays.  (The
\* answer of voidEntry is not looked at, but a well-formed void is not refused.)
GivesUp(h) ==
    /\ handler[h].kind # "none" /\ Room
    /\ failures' = failures + 1
    /\ Ends(h)
    /\ UNCHANGED <<stack, mounted, draft, store, late, unseen>>

\* The call throws after its INSERT: the event is there, nobody is told.
ThrowsStored(h) ==
    LET c == handler[h] IN
    /\ Room
    /\ \/ /\ c.kind = "confirm"
          /\ entries' = Append(entries, Recorded(c.screen, c.amount))
          /\ UNCHANGED voided
       \/ /\ c.kind = "undo"
          /\ voided' = voided \union {c.id}
          /\ UNCHANGED entries
    /\ failures' = failures + 1
    /\ unseen' = TRUE
    /\ Ends(h)
    /\ UNCHANGED <<stack, mounted, draft, names, late>>

----------------------------------------------------------------------------
(* The loads of the mounted screen.                                         *)

\* A load has its rows.
LoadReads ==
    /\ \E i \in DOMAIN loads :
        /\ loads[i].rows = <<>>
        /\ loads' = [loads EXCEPT ![i].rows = Reads(Top(stack))]
    /\ Taps /\ UNCHANGED <<stack, typed, typedFor, undoable, shown, overtook, draft, late>>

\* A load sets what is shown, whether or not a later one has done so before.
LoadShows ==
    /\ \E i \in DOMAIN loads :
        /\ loads[i].rows # <<>>
        /\ shown' = loads[i].rows
        /\ overtook' = loads[i].old
        /\ loads' = RemoveAt([j \in DOMAIN loads |->
                        [loads[j] EXCEPT !.old = loads[j].old \/ j < i]], i)
    /\ Taps /\ UNCHANGED <<stack, typed, typedFor, undoable, draft, late>>

\* The app is killed and opened again: what is stored stays.
Kill ==
    /\ Room
    /\ failures' = failures + 1
    /\ stack' = <<Home>>
    /\ typed' = 0 /\ typedFor' = 0 /\ undoable' = FALSE /\ shown' = <<>> /\ loads' = <<Started>>
    /\ draft' = NoName
    /\ handler' = [h \in Handler |-> NoHandler]
    /\ overtook' = FALSE /\ late' = FALSE /\ unseen' = FALSE
    /\ UNCHANGED store

----------------------------------------------------------------------------
Next ==
    \/ StartCredit \/ ViewCustomers \/ SelectCustomer \/ OpenAddCustomer \/ Back
    \/ TypeName \/ TypeAmount \/ Continue \/ UndoWindowCloses
    \/ \E h \in Handler :
        \/ Confirm(h) \/ Undo(h) \/ Save(h) \/ RecordFromDetail(h)
        \/ EntryRecorded(h) \/ ShowDone(h) \/ EntryVoided(h) \/ CustomerAdded(h)
        \/ RowRead(h) \/ GivesUp(h) \/ ThrowsStored(h)
    \/ LoadReads \/ LoadShows
    \/ Kill

Spec == Init /\ [][Next]_vars

----------------------------------------------------------------------------
(* Properties.                                                              *)

\* A Done screen is about an entry that is in the store, of the customer and
\* the kind it shows, whatever was tapped while the entry was being recorded.
DoneIsRecorded ==
    \A i \in DOMAIN stack : stack[i].kind = "done" =>
        /\ stack[i].id \in DOMAIN entries
        /\ entries[stack[i].id].customer = stack[i].customer
        /\ entries[stack[i].id].entryKind = stack[i].entryKind

\* Once an entry is voided no screen offers to undo it, unless the call that
\* voided it threw: handleUndo takes the Done screen away, and no handler
\* still on its way brings it back.
UndoneIsGone ==
    \A i \in DOMAIN stack : stack[i].kind = "done" => stack[i].id \notin voided \/ unseen

\* The customer an entry is about to be recorded for, or was, is the one whose
\* name the screen shows, also when the form was edited while it was saved.
\* Back leads home from every screen, and the amount on an entry screen was
\* composed for its customer, unless a handler put its screen in the place of
\* one that had been left.
StackIsSound ==
    /\ \A i \in DOMAIN stack : stack[i].kind \in {"recordEntry", "done"} =>
        stack[i].customer \in Customers /\ stack[i].name = names[stack[i].customer]
    /\ stack # <<>> /\ (stack[1] = Home \/ late)
    /\ Shows("recordEntry") => typedFor = Top(stack).customer \/ late

\* When nothing is under way the balances shown are those of the store and of
\* the customer shown, however many reloads overlapped: the detail screen by
\* cancelling the loads before, home and the list unless an older load ended
\* after a newer one.
ShownIsFresh ==
    (Top(stack).kind \in Loading /\ loads = <<>>)
    => shown = Reads(Top(stack)) \/ (overtook /\ ~Shows("customerDetail")) \/ unseen
=============================================================================
