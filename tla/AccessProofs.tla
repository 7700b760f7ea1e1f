---------------------------- MODULE AccessProofs ----------------------------
(* Proofs about module Access, for any devices, requests, PINs, lockout     *)
(* durations and threshold.                                                 *)
EXTENDS Access, TLAPS

----------------------------------------------------------------------------
(* Durations.                                                               *)

LEMMA GreaterOfTwo ==
    ASSUME NEW a \in Int, NEW b \in Int
    PROVE  Max({a, b}) = IF a >= b THEN a ELSE b
<1> DEFINE m == IF a >= b THEN a ELSE b
<1>1. m \in {a, b} /\ \A y \in {a, b} : m >= y
      OBVIOUS
<1>2. \A x \in {a, b} : (\A y \in {a, b} : x >= y) => x = m
      OBVIOUS
<1> QED BY <1>1, <1>2 DEF Max

LEMMA LesserOfTwo ==
    ASSUME NEW a \in Int, NEW b \in Int
    PROVE  Min({a, b}) = IF a <= b THEN a ELSE b
<1> DEFINE m == IF a <= b THEN a ELSE b
<1>1. m \in {a, b} /\ \A y \in {a, b} : m <= y
      OBVIOUS
<1>2. \A x \in {a, b} : (\A y \in {a, b} : x <= y) => x = m
      OBVIOUS
<1> QED BY <1>1, <1>2 DEF Min

LEMMA DurationType == \A n \in Nat : LockoutDuration(n) \in Int
<1> SUFFICES ASSUME NEW n \in Nat, n >= Threshold PROVE LockoutDuration(n) \in Int
    BY DurationAssumption DEF LockoutDuration
<1>1. n - Threshold \in Nat
      BY DurationAssumption
<1>2. \A k \in Nat : Base * 2^k \in Int
      BY DurationAssumption
<1>3. Base * 2^(n - Threshold) \in Int
      BY <1>1, <1>2
<1> QED BY <1>3, LesserOfTwo, DurationAssumption DEF LockoutDuration

LEMMA LaterType == \A left \in Int : Later(left) \in Int /\ Unlocked \in Int
  BY GreaterOfTwo, BoundAssumption DEF Later, Unlocked

\* A unit of time passes for what is left of a lock as it does for its length.
LEMMA LaterOfMax ==
    ASSUME NEW x \in Int
    PROVE  Later(Max({x, Unlocked})) = Max({x - 1, Unlocked})
<1>1. Unlocked \in Int
      BY BoundAssumption DEF Unlocked
<1>2. /\ Max({x, Unlocked}) = IF x >= Unlocked THEN x ELSE Unlocked
      /\ Max({x - 1, Unlocked}) = IF x - 1 >= Unlocked THEN x - 1 ELSE Unlocked
      BY <1>1, GreaterOfTwo
<1>3. Max({x, Unlocked}) - 1 \in Int
      BY <1>1, <1>2
<1>4. Later(Max({x, Unlocked}))
      = IF Max({x, Unlocked}) - 1 >= Unlocked THEN Max({x, Unlocked}) - 1 ELSE Unlocked
      BY <1>1, <1>3, GreaterOfTwo DEF Later
<1> QED BY <1>1, <1>2, <1>4

----------------------------------------------------------------------------
(* Types.                                                                   *)

CallRecord ==
    [kind : {"none", "login", "register"}, caller : Device \cup {NoOne}, pin : Pin \cup {NoPin},
     stage : {"free", "check", "verify", "count", "lock", "clear", "issue", "exists", "insert",
              "answer"},
     age : Nat, failed : Nat,
     result : {"", "LOCKED_OUT", "INCORRECT", "OK", "UNAVAILABLE"}, retry : Int]

ScreenRecord ==
    [mode : {"ENTER", "SET", "CONFIRM", "open"}, first : Pin \cup {NoPin}, busy : BOOLEAN]

AccessTypes ==
    /\ account \in Pin \cup {NoPin}
    /\ count \in Nat /\ until \in Int /\ owed \in Int
    /\ last \in Handler \cup {NoOne} /\ raced \in BOOLEAN
    /\ call \in [Handler -> CallRecord]
    /\ screen \in [Device -> ScreenRecord]
    /\ session \in [Device -> [failed : Nat, cool : Int]]
    /\ wrong \in Nat /\ failures \in Nat
    /\ with \in [Device -> Pin \cup {NoPin}]

LEMMA CallFields ==
    ASSUME NEW c \in CallRecord
    PROVE  /\ c.caller \in Device \cup {NoOne} /\ c.pin \in Pin \cup {NoPin}
           /\ c.age \in Nat /\ c.failed \in Nat /\ c.retry \in Int
  BY DEF CallRecord

LEMMA EmptyRecords ==
    /\ NoCall \in CallRecord /\ NoCall.stage = "free" /\ NoCall.caller = NoOne
    /\ NoFailures \in [failed : Nat, cool : Int]
    /\ \A mode \in {"ENTER", "SET", "open"} : Fresh(mode) \in ScreenRecord
<1>1. NoCall \in CallRecord /\ NoCall.stage = "free" /\ NoCall.caller = NoOne
      BY DEF NoCall, CallRecord
<1>2. NoFailures \in [failed : Nat, cool : Int]
      BY DEF NoFailures
<1>3. \A mode \in {"ENTER", "SET", "open"} : Fresh(mode) \in ScreenRecord
      BY DEF Fresh, ScreenRecord
<1> QED BY <1>1, <1>2, <1>3

LEMMA AccessTypesInit == Init => AccessTypes
<1>1. Unlocked \in Int
      BY BoundAssumption DEF Unlocked
<1> SUFFICES ASSUME Init PROVE AccessTypes
    OBVIOUS
<1>2. screen \in [Device -> ScreenRecord]
  <2>1. {Fresh("ENTER"), Fresh("SET")} \subseteq ScreenRecord
        BY EmptyRecords
  <2> QED BY <2>1 DEF Init
<1>3. /\ call \in [Handler -> CallRecord] /\ session \in [Device -> [failed : Nat, cool : Int]]
      BY EmptyRecords DEF Init
<1> QED BY <1>1, <1>2, <1>3 DEF Init, AccessTypes

\* What the statements of handler h leave of the calls: h alone moves, to another
\* stage with what it has, or to an answer, or to nothing.
Moved(h, stages) ==
    /\ \A g \in Handler \ {h} : call'[g] = call[g]
    /\ call'[h] \in CallRecord /\ call'[h].stage \in stages
    /\ call'[h].caller \in {call[h].caller, NoOne}
    /\ call'[h].stage = "free" => call'[h].caller = NoOne
    /\ call'[h].stage # "free" =>
          call'[h].caller = call[h].caller /\ call'[h].pin = call[h].pin

LEMMA GoesMoves ==
    ASSUME AccessTypes, NEW h \in Handler,
           NEW s \in {"verify", "clear", "count", "issue", "insert"}, Goes(h, s)
    PROVE  Moved(h, {s}) /\ call' \in [Handler -> CallRecord]
<1>1. call[h] \in CallRecord
      BY DEF AccessTypes
<1>2. [call[h] EXCEPT !.stage = s] \in CallRecord
      BY <1>1 DEF CallRecord
<1>3. call' = [call EXCEPT ![h] = [call[h] EXCEPT !.stage = s]]
      BY DEF Goes
<1>4. call'[h] = [call[h] EXCEPT !.stage = s] /\ \A g \in Handler \ {h} : call'[g] = call[g]
      BY <1>3 DEF AccessTypes
<1>5. /\ call'[h].stage = s /\ call'[h].caller = call[h].caller /\ call'[h].pin = call[h].pin
      BY <1>1, <1>4 DEF CallRecord
<1> QED BY <1>2, <1>3, <1>4, <1>5 DEF Moved, AccessTypes

LEMMA AnswersMoves ==
    ASSUME AccessTypes, NEW h \in Handler, NEW retry \in Int,
           NEW result \in {"LOCKED_OUT", "INCORRECT", "OK", "UNAVAILABLE"},
           Answers(h, result, retry)
    PROVE  /\ Moved(h, {"free", "answer"}) /\ call' \in [Handler -> CallRecord]
           /\ call'[h].stage = "answer" => call'[h].result = result
<1> DEFINE c == call[h]
           new == [NoCall EXCEPT !.kind = c.kind, !.caller = c.caller, !.stage = "answer",
                                 !.pin = c.pin, !.result = result, !.retry = retry]
<1>1. c \in CallRecord
      BY DEF AccessTypes
<1>2. /\ new \in CallRecord /\ new.stage = "answer" /\ new.caller = c.caller /\ new.pin = c.pin
      /\ new.result = result
      BY <1>1 DEF CallRecord, NoCall
<1>3. NoCall \in CallRecord /\ NoCall.stage = "free" /\ NoCall.caller = NoOne
      BY DEF CallRecord, NoCall
<1>4. call' = [call EXCEPT ![h] = IF c.caller = NoOne THEN NoCall ELSE new]
      BY DEF Answers
<1> HIDE DEF new, c
<1>5. /\ call'[h] \in {NoCall, new} /\ \A g \in Handler \ {h} : call'[g] = call[g]
      /\ call' \in [Handler -> CallRecord]
      BY <1>2, <1>3, <1>4 DEF AccessTypes
<1> QED BY <1>2, <1>3, <1>5 DEF Moved, c

LEMMA AccessTypeStep == AccessTypes /\ [Next]_vars => AccessTypes'
<1> SUFFICES ASSUME AccessTypes, [Next]_vars PROVE AccessTypes'
    OBVIOUS
<1>0. /\ \A h \in Handler : call[h] \in CallRecord
      /\ \A d \in Device : screen[d] \in ScreenRecord /\ session[d] \in [failed : Nat, cool : Int]
      /\ NoCall \in CallRecord /\ NoFailures \in [failed : Nat, cool : Int]
      /\ \A mode \in {"ENTER", "SET", "open"} : Fresh(mode) \in ScreenRecord
      /\ Unlocked \in Int
      BY BoundAssumption, EmptyRecords DEF AccessTypes, Unlocked
<1>1. ASSUME NEW d \in Device, NEW h \in Handler, NEW kind \in {"login", "register"},
             NEW s \in {"check", "exists"}, NEW pin \in Pin \cup {NoPin}, Send(d, h, kind, s, pin),
             wrong' \in Nat
      PROVE  AccessTypes'
      <2> DEFINE new == [NoCall EXCEPT !.kind = kind, !.stage = s, !.caller = d, !.pin = pin]
      <2>1. new \in CallRecord
            BY <1>0 DEF CallRecord
      <2>2. call' = [call EXCEPT ![h] = new]
            BY <1>1 DEF Send
      <2> HIDE DEF new
      <2>3. call' \in [Handler -> CallRecord]
            BY <2>1, <2>2 DEF AccessTypes
      <2>4. screen' \in [Device -> ScreenRecord]
            BY <1>0, <1>1 DEF Send, AccessTypes, ScreenRecord
      <2> QED BY <1>1, <2>3, <2>4 DEF Send, AccessTypes, table
<1>2. ASSUME NEW d \in Device, NEW h \in Handler, NEW pin \in Pin, Submit(d, h, pin)
      PROVE  AccessTypes'
      BY <1>1, <1>2 DEF Submit, AccessTypes
<1>3. ASSUME NEW d \in Device, NEW h \in Handler, SetPin(d, h) PROVE AccessTypes'
      <2>1. screen[d].first \in Pin \cup {NoPin}
            BY <1>0 DEF ScreenRecord
      <2> QED BY <1>1, <1>3, <2>1 DEF SetPin, AccessTypes
<1>4. ASSUME NEW d \in Device, Choose(d) \/ Mismatch(d) PROVE AccessTypes'
      <2>1. screen' \in [Device -> ScreenRecord]
        <3>1. CASE Choose(d)
          <4>1. PICK pin \in Pin : screen' = [screen EXCEPT ![d].mode = "CONFIRM", ![d].first = pin]
                BY <3>1 DEF Choose
          <4>2. [screen[d] EXCEPT !.mode = "CONFIRM", !.first = pin] \in ScreenRecord
                BY <1>0 DEF ScreenRecord
          <4>3. screen' = [screen EXCEPT ![d] = [screen[d] EXCEPT !.mode = "CONFIRM", !.first = pin]]
                BY <4>1 DEF AccessTypes
          <4> QED BY <4>2, <4>3 DEF AccessTypes
        <3>2. CASE Mismatch(d)
              BY <1>0, <3>2 DEF Mismatch, AccessTypes
        <3> QED BY <1>4, <3>1, <3>2
      <2> QED BY <1>4, <2>1 DEF Choose, Mismatch, AccessTypes, table
<1>5. ASSUME NEW h \in Handler, CheckLockout(h) PROVE AccessTypes'
      <2>1. until + call[h].age \in Int
        <3>1. call[h].age \in Int
              BY <1>0, CallFields
        <3> QED BY <3>1 DEF AccessTypes
      <2>2. call' \in [Handler -> CallRecord]
            BY <1>5, <2>1, GoesMoves, AnswersMoves DEF CheckLockout
      <2> QED BY <1>5, <2>2 DEF CheckLockout, AccessTypes, table, device
<1>6. ASSUME NEW h \in Handler, Verify(h) PROVE AccessTypes'
      <2>1. call' \in [Handler -> CallRecord]
            BY <1>6, GoesMoves DEF Verify
      <2> QED BY <1>6, <2>1 DEF Verify, AccessTypes, table, device
<1>7. ASSUME NEW h \in Handler, CountFailure(h) PROVE AccessTypes'
      <2>1. count + 1 \in Nat /\ LockoutDuration(count + 1) \in Int /\ count' = count + 1
            BY <1>7, DurationType DEF CountFailure, AccessTypes
      <2>2. CASE LockoutDuration(count + 1) > 0
        <3>1. /\ call' = [call EXCEPT ![h].stage = "lock", ![h].failed = count']
              /\ owed' = Max({LockoutDuration(count + 1) - call[h].age, Unlocked}) /\ last' = h
              /\ raced' = FALSE
              BY <1>7, <2>2 DEF CountFailure
        <3>2. [call[h] EXCEPT !.stage = "lock", !.failed = count'] \in CallRecord
          <4>1. \A c \in CallRecord, n \in Nat : [c EXCEPT !.stage = "lock", !.failed = n] \in CallRecord
                BY DEF CallRecord
          <4> QED BY <1>0, <2>1, <4>1
        <3>3. call' = [call EXCEPT ![h] = [call[h] EXCEPT !.stage = "lock", !.failed = count']]
              BY <3>1 DEF AccessTypes
        <3>4. call' \in [Handler -> CallRecord]
              BY <3>2, <3>3 DEF AccessTypes
        <3>5. LockoutDuration(count + 1) - call[h].age \in Int
              BY <1>0, <2>1, CallFields
        <3>6. owed' \in Int
              BY <1>0, <3>1, <3>5, GreaterOfTwo
        <3> QED BY <1>7, <2>1, <3>1, <3>4, <3>6 DEF CountFailure, AccessTypes, device
      <2>3. CASE ~ (LockoutDuration(count + 1) > 0)
        <3>1. call' \in [Handler -> CallRecord]
              BY <1>7, <2>3, AnswersMoves DEF CountFailure
        <3> QED BY <1>7, <2>1, <2>3, <3>1 DEF CountFailure, AccessTypes, device
      <2> QED BY <2>2, <2>3
<1>8. ASSUME NEW h \in Handler, Lock(h) PROVE AccessTypes'
      <2>1. call' \in [Handler -> CallRecord]
            BY <1>8, AnswersMoves DEF Lock
      <2>2. LockedFor(call[h]) \in Int
            BY <1>0, DurationType, CallFields DEF LockedFor
      <2>3. until' \in Int
            BY <1>0, <1>8, <2>2, GreaterOfTwo DEF Lock, AccessTypes
      <2>4. raced' \in BOOLEAN
            BY <1>8 DEF Lock
      <2> QED BY <1>8, <2>1, <2>3, <2>4 DEF Lock, AccessTypes, device
<1>9. ASSUME NEW h \in Handler, Clear(h) PROVE AccessTypes'
      <2>1. call' \in [Handler -> CallRecord]
            BY <1>9, GoesMoves DEF Clear
      <2> QED BY <1>0, <1>9, <2>1 DEF Clear, AccessTypes, device
<1>10. ASSUME NEW h \in Handler, Issue(h) \/ Exists(h) PROVE AccessTypes'
      <2>1. call' \in [Handler -> CallRecord]
            BY <1>10, GoesMoves, AnswersMoves DEF Issue, Exists
      <2> QED BY <1>10, <2>1 DEF Issue, Exists, AccessTypes, table, device
<1>11. ASSUME NEW h \in Handler, Insert(h) PROVE AccessTypes'
      <2>1. call' \in [Handler -> CallRecord]
            BY <1>11, GoesMoves, AnswersMoves DEF Insert
      <2>2. account' \in Pin \cup {NoPin}
            BY <1>0, <1>11, CallFields DEF Insert, AccessTypes
      <2> QED BY <1>11, <2>1, <2>2 DEF Insert, AccessTypes, table, device
<1>12. ASSUME NEW h \in Handler, Dies(h) PROVE AccessTypes'
      <2>1. call' \in [Handler -> CallRecord]
            BY <1>12, AnswersMoves DEF Dies
      <2>2. raced' \in BOOLEAN
            BY <1>12 DEF Dies
      <2> QED BY <1>12, <2>1, <2>2 DEF Dies, AccessTypes
<1>13. ASSUME NEW h \in Handler, Answer(h) PROVE AccessTypes'
      <2>1. call' \in [Handler -> CallRecord]
            BY <1>0, <1>13 DEF Answer, AccessTypes
      <2>2. \A s \in ScreenRecord : Rested(s, call[h]) \in ScreenRecord
            BY <1>0 DEF Rested, ScreenRecord
      <2>3. screen' \in [Device -> ScreenRecord]
            BY <1>0, <1>13, <2>2 DEF Answer, AccessTypes
      <2>4. ASSUME NEW s \in [failed : Nat, cool : Int]
            PROVE  SessionAfter(s, call[h]) \in [failed : Nat, cool : Int]
        <3>1. s.failed + 1 \in Nat /\ LockoutDuration(s.failed + 1) \in Int
              BY <2>4, DurationType
        <3>2. call[h].retry \in Int
              BY <1>0, CallFields
        <3> QED BY <1>0, <2>4, <3>1, <3>2 DEF SessionAfter
      <2>5. session' \in [Device -> [failed : Nat, cool : Int]]
            BY <1>0, <1>13, <2>4 DEF Answer, AccessTypes
      <2>6. with' \in [Device -> Pin \cup {NoPin}]
            BY <1>0, <1>13, CallFields DEF Answer, AccessTypes
      <2> QED BY <1>13, <2>1, <2>3, <2>5, <2>6 DEF Answer, AccessTypes, table
<1>14. ASSUME NEW d \in Device, Left(d) PROVE call' \in [Handler -> CallRecord]
      <2>1. \A c \in CallRecord : [c EXCEPT !.caller = NoOne] \in CallRecord
            BY DEF CallRecord
      <2> QED BY <1>0, <1>14, <2>1 DEF Left
<1>15. ASSUME NEW d \in Device, GiveUp(d) PROVE AccessTypes'
      <2>1. call' \in [Handler -> CallRecord]
            BY <1>14, <1>15 DEF GiveUp
      <2>2. screen' \in [Device -> ScreenRecord]
            BY <1>0, <1>15 DEF GiveUp, AccessTypes, ScreenRecord
      <2> QED BY <1>15, <2>1, <2>2 DEF GiveUp, AccessTypes, table
<1>16. ASSUME NEW d \in Device, Kill(d) PROVE AccessTypes'
      <2>1. call' \in [Handler -> CallRecord]
            BY <1>14, <1>16 DEF Kill
      <2>2. screen' \in [Device -> ScreenRecord]
            BY <1>0, <1>16 DEF Kill, AccessTypes
      <2> QED BY <1>0, <1>16, <2>1, <2>2 DEF Kill, AccessTypes, table
<1>17. CASE Tick
      <2>1. until' \in Int /\ owed' \in Int
            BY <1>17, LaterType DEF Tick, AccessTypes
      <2>2. ASSUME NEW s \in [failed : Nat, cool : Int]
            PROVE  [s EXCEPT !.cool = Max({@ - 1, 0})] \in [failed : Nat, cool : Int]
        <3>1. s.cool - 1 \in Int
              BY <2>2
        <3>2. Max({s.cool - 1, 0}) \in Int
              BY <3>1, GreaterOfTwo
        <3> QED BY <2>2, <3>2
      <2>3. session' \in [Device -> [failed : Nat, cool : Int]]
            BY <1>0, <1>17, <2>2 DEF Tick
      <2>4. ASSUME NEW c \in CallRecord PROVE [c EXCEPT !.age = @ + 1] \in CallRecord
        <3>1. c.age + 1 \in Nat
              BY CallFields
        <3>2. \A n \in Nat : [c EXCEPT !.age = n] \in CallRecord
              BY DEF CallRecord
        <3> QED BY <3>1, <3>2
      <2>5. call' \in [Handler -> CallRecord]
            BY <1>0, <1>17, <2>4 DEF Tick
      <2> QED BY <1>17, <2>1, <2>3, <2>5 DEF Tick, AccessTypes
<1>18. CASE UNCHANGED vars
      BY <1>18 DEF vars, table, AccessTypes
<1> QED BY <1>2, <1>3, <1>4, <1>5, <1>6, <1>7, <1>8, <1>9, <1>10, <1>11, <1>12, <1>13, <1>15,
           <1>16, <1>17, <1>18
        DEF Next, ServerStep

----------------------------------------------------------------------------
(* Who waits for whom, and which PIN lets in.                               *)

\* Nobody waits for a free handler; a device that waits for one is busy, and waits
\* for no other.
CallersOk ==
    /\ \A h \in Handler : call[h].stage = "free" => call[h].caller = NoOne
    /\ \A h \in Handler : call[h].caller # NoOne => screen[call[h].caller].busy
    /\ \A g, h \in Handler :
          call[h].caller # NoOne /\ call[g].caller = call[h].caller => g = h

\* A request carries a PIN, and past the comparison, the account's.
PinOk(h) ==
    /\ call[h].stage # "free" => call[h].pin \in Pin
    /\ \/ call[h].stage \in {"clear", "issue"}
       \/ call[h].stage = "answer" /\ call[h].result = "OK"
       => call[h].pin = account /\ account # NoPin

\* An open device waits for nothing and was let in with the account's PIN; one that
\* confirms a PIN has one.
ScreenOk(d) ==
    /\ screen[d].mode = "open" =>
          ~ screen[d].busy /\ with[d] = account /\ account # NoPin
    /\ screen[d].mode = "CONFIRM" => screen[d].first \in Pin

PinInv ==
    /\ CallersOk
    /\ \A h \in Handler : PinOk(h)
    /\ \A d \in Device : ScreenOk(d)

\* The lock is the one owed, or the handler that is to set it still will, as
\* long as the row is there.
LockInv ==
    ~ raced =>
        \/ last = NoOne /\ until = owed
        \/ /\ last \in Handler /\ At(last, "lock") /\ count # 0
           /\ owed = Max({LockedFor(call[last]), Unlocked})

LEMMA PinInit == Init => PinInv
<1> SUFFICES ASSUME Init PROVE PinInv
    OBVIOUS
<1>1. /\ \A h \in Handler : call[h].stage = "free" /\ call[h].caller = NoOne
      /\ \A d \in Device : screen[d].mode \in {"ENTER", "SET"}
      BY EmptyRecords DEF Init, Fresh
<1> QED BY <1>1 DEF PinInv, CallersOk, PinOk, ScreenOk

\* A statement of the server changes no screen, and what is known of the PIN of
\* another request stays known, also when the account is made.
LEMMA ServerPin ==
    ASSUME AccessTypes, PinInv, NEW h \in Handler, NEW stages, Moved(h, stages),
           call[h].stage # "free", UNCHANGED <<screen, with>>, account' = account \/ account = NoPin,
           \/ call'[h].stage \in {"clear", "issue"}
           \/ call'[h].stage = "answer" /\ call'[h].result = "OK"
           => call[h].pin = account' /\ account' # NoPin
    PROVE  PinInv'
<1>1. CallersOk'
      BY DEF Moved, PinInv, CallersOk
<1>2. ASSUME NEW g \in Handler PROVE PinOk(g)'
      BY DEF Moved, PinInv, PinOk
<1>3. ASSUME NEW d \in Device PROVE ScreenOk(d)'
      BY DEF PinInv, ScreenOk
<1> QED BY <1>1, <1>2, <1>3 DEF PinInv

LEMMA PinStep == AccessTypes /\ PinInv /\ [Next]_vars => PinInv'
<1> SUFFICES ASSUME AccessTypes, PinInv, [Next]_vars PROVE PinInv'
    OBVIOUS
<1>0. /\ CallersOk /\ (\A h \in Handler : PinOk(h)) /\ (\A d \in Device : ScreenOk(d))
      /\ \A d \in Device : screen[d] \in ScreenRecord
      /\ \A h \in Handler : call[h] \in CallRecord
      BY DEF PinInv, AccessTypes
<1>1. ASSUME NEW d \in Device, NEW h \in Handler, NEW kind, NEW s \in {"check", "exists"},
             NEW pin \in Pin, Send(d, h, kind, s, pin),
             screen[d].mode # "open", ~ screen[d].busy
      PROVE  PinInv'
      <2>1. /\ call'[h].stage = s /\ call'[h].caller = d /\ call'[h].pin = pin
            /\ \A g \in Handler \ {h} : call'[g] = call[g]
            /\ call[h].stage = "free"
            BY <1>1 DEF Send, NoCall, AccessTypes
      <2>2. /\ screen'[d].busy /\ screen'[d].mode = screen[d].mode
            /\ screen'[d].first = screen[d].first
            /\ \A e \in Device \ {d} : screen'[e] = screen[e]
            /\ UNCHANGED <<account, with>>
            BY <1>0, <1>1 DEF Send, AccessTypes, ScreenRecord
      <2>3. \A g \in Handler : call[g].caller # d
            BY <1>0, <1>1, NobodyAssumption DEF CallersOk
      <2>4. \A g \in Handler : call[g].caller \in Device \cup {NoOne}
            BY <1>0, CallFields
      <2>5. CallersOk'
            BY <1>0, <2>1, <2>2, <2>3, <2>4, NobodyAssumption DEF CallersOk
      <2>6. ASSUME NEW g \in Handler PROVE PinOk(g)'
            BY <1>0, <2>1, <2>2 DEF PinOk
      <2>7. ASSUME NEW e \in Device PROVE ScreenOk(e)'
            BY <1>0, <1>1, <2>2 DEF ScreenOk
      <2> QED BY <2>5, <2>6, <2>7 DEF PinInv
<1>2. ASSUME NEW d \in Device, NEW h \in Handler, NEW pin \in Pin, Submit(d, h, pin) PROVE PinInv'
      BY <1>1, <1>2 DEF Submit, Ready
<1>3. ASSUME NEW d \in Device, NEW h \in Handler, SetPin(d, h) PROVE PinInv'
      <2>1. screen[d].mode = "CONFIRM" /\ ~ screen[d].busy /\ screen[d].first \in Pin
            BY <1>0, <1>3 DEF SetPin, Ready, ScreenOk
      <2> QED BY <1>1, <1>3, <2>1 DEF SetPin
<1>4. ASSUME NEW d \in Device, Choose(d) \/ Mismatch(d) PROVE PinInv'
      <2>1. /\ screen[d].busy = FALSE /\ screen'[d].busy = FALSE /\ screen'[d].mode # "open"
            /\ screen'[d].mode = "CONFIRM" => screen'[d].first \in Pin
            /\ \A e \in Device \ {d} : screen'[e] = screen[e]
            /\ UNCHANGED <<account, with, call>>
        <3>1. CASE Choose(d)
          <4>1. PICK pin \in Pin : screen' = [screen EXCEPT ![d].mode = "CONFIRM", ![d].first = pin]
                BY <3>1 DEF Choose
          <4>2. /\ screen'[d].mode = "CONFIRM" /\ screen'[d].first = pin
                /\ screen'[d].busy = screen[d].busy
                /\ \A e \in Device \ {d} : screen'[e] = screen[e]
                BY <1>0, <4>1 DEF AccessTypes, ScreenRecord
          <4> QED BY <1>0, <3>1, <4>2 DEF Choose, Ready, ScreenRecord
        <3>2. CASE Mismatch(d)
              BY <1>0, <3>2 DEF Mismatch, Ready, Fresh, AccessTypes, ScreenRecord
        <3> QED BY <1>4, <3>1, <3>2
      <2>2. CallersOk'
            BY <1>0, <2>1, CallFields, NobodyAssumption DEF CallersOk
      <2>3. ASSUME NEW g \in Handler PROVE PinOk(g)'
            BY <1>0, <2>1 DEF PinOk
      <2>4. ASSUME NEW e \in Device PROVE ScreenOk(e)'
            BY <1>0, <2>1 DEF ScreenOk
      <2> QED BY <2>2, <2>3, <2>4 DEF PinInv
<1>5. ASSUME NEW h \in Handler, CheckLockout(h) PROVE PinInv'
      <2>1. until + call[h].age \in Int
        <3>1. call[h].age \in Int
              BY <1>0, CallFields
        <3> QED BY <3>1 DEF AccessTypes
      <2>2. CASE until + call[h].age > 0
        <3>1. Moved(h, {"free", "answer"}) /\ (call'[h].stage = "answer" => call'[h].result = "LOCKED_OUT")
              BY <1>5, <2>1, <2>2, AnswersMoves DEF CheckLockout
        <3> QED BY <1>5, <3>1, ServerPin DEF CheckLockout, At, device, Moved
      <2>3. CASE ~ (until + call[h].age > 0)
        <3>1. Moved(h, {"verify"})
              BY <1>5, <2>3, GoesMoves DEF CheckLockout
        <3> QED BY <1>5, <3>1, ServerPin DEF CheckLockout, At, device, Moved
      <2> QED BY <2>2, <2>3
<1>6. ASSUME NEW h \in Handler, Verify(h) PROVE PinInv'
      <2>1. call[h].pin \in Pin /\ call[h].stage = "verify"
            BY <1>0, <1>6 DEF Verify, At, PinOk
      <2>2. CASE call[h].pin = account
        <3>1. Moved(h, {"clear"})
              BY <1>6, <2>2, GoesMoves DEF Verify
        <3> QED BY <1>6, <2>1, <2>2, <3>1, ServerPin, NobodyAssumption DEF Verify, device, Moved
      <2>3. CASE call[h].pin # account
        <3>1. Moved(h, {"count"})
              BY <1>6, <2>3, GoesMoves DEF Verify
        <3> QED BY <1>6, <2>1, <3>1, ServerPin DEF Verify, device, Moved
      <2> QED BY <2>2, <2>3
<1>7. ASSUME NEW h \in Handler, CountFailure(h) PROVE PinInv'
      <2>1. CASE LockoutDuration(count + 1) > 0
        <3>1. /\ call[h].stage = "count" /\ UNCHANGED <<account, screen, with>>
              /\ call' = [call EXCEPT ![h].stage = "lock", ![h].failed = count']
              BY <1>7, <2>1 DEF CountFailure, At, device
        <3>2. /\ call'[h] = [call[h] EXCEPT !.stage = "lock", !.failed = count']
              /\ \A g \in Handler \ {h} : call'[g] = call[g]
              BY <3>1 DEF AccessTypes
        <3>3. /\ call'[h].stage = "lock" /\ call'[h].caller = call[h].caller
              /\ call'[h].pin = call[h].pin
              BY <1>0, <3>2 DEF CallRecord
        <3>4. AccessTypes'
              BY AccessTypeStep
        <3>5. Moved(h, {"lock"})
              BY <3>2, <3>3, <3>4 DEF Moved, AccessTypes
        <3> QED BY <3>1, <3>3, <3>5, ServerPin
      <2>2. CASE ~ (LockoutDuration(count + 1) > 0)
        <3>1. Moved(h, {"free", "answer"}) /\ (call'[h].stage = "answer" => call'[h].result = "INCORRECT")
              BY <1>7, <2>2, AnswersMoves DEF CountFailure
        <3> QED BY <1>7, <3>1, ServerPin DEF CountFailure, At, device, Moved
      <2> QED BY <2>1, <2>2
<1>8. ASSUME NEW h \in Handler, Lock(h) PROVE PinInv'
      <2>1. Moved(h, {"free", "answer"}) /\ (call'[h].stage = "answer" => call'[h].result = "INCORRECT")
            BY <1>8, AnswersMoves DEF Lock
      <2> QED BY <1>8, <2>1, ServerPin DEF Lock, At, device, Moved
<1>9. ASSUME NEW h \in Handler, Clear(h) PROVE PinInv'
      <2>1. Moved(h, {"issue"})
            BY <1>9, GoesMoves DEF Clear
      <2>2. call[h].stage = "clear" /\ call[h].pin = account /\ account # NoPin
            BY <1>0, <1>9 DEF Clear, At, PinOk
      <2> QED BY <1>9, <2>1, <2>2, ServerPin DEF Clear, device, Moved
<1>10. ASSUME NEW h \in Handler, Issue(h) PROVE PinInv'
      <2>1. Moved(h, {"free", "answer"})
            BY <1>10, AnswersMoves DEF Issue
      <2>2. call[h].stage = "issue" /\ call[h].pin = account /\ account # NoPin
            BY <1>0, <1>10 DEF Issue, At, PinOk
      <2> QED BY <1>10, <2>1, <2>2, ServerPin DEF Issue, device, Moved
<1>11. ASSUME NEW h \in Handler, Exists(h) PROVE PinInv'
      <2>1. CASE account # NoPin
        <3>1. Moved(h, {"free", "answer"}) /\ (call'[h].stage = "answer" => call'[h].result = "UNAVAILABLE")
              BY <1>11, <2>1, AnswersMoves DEF Exists
        <3> QED BY <1>11, <3>1, ServerPin DEF Exists, At, device, Moved
      <2>2. CASE account = NoPin
        <3>1. Moved(h, {"insert"})
              BY <1>11, <2>2, GoesMoves DEF Exists
        <3> QED BY <1>11, <3>1, ServerPin DEF Exists, At, device, Moved
      <2> QED BY <2>1, <2>2
<1>12. ASSUME NEW h \in Handler, Insert(h) PROVE PinInv'
      <2>1. call[h].pin \in Pin /\ call[h].stage = "insert"
            BY <1>0, <1>12 DEF Insert, At, PinOk
      <2>2. CASE account = NoPin
        <3>1. Moved(h, {"issue"}) /\ account' = call[h].pin
              BY <1>12, <2>2, GoesMoves DEF Insert, Inserted
        <3> QED BY <1>12, <2>1, <2>2, <3>1, ServerPin, NobodyAssumption DEF Insert, device, Moved
      <2>3. CASE account # NoPin
        <3>1. /\ Moved(h, {"free", "answer"}) /\ (call'[h].stage = "answer" => call'[h].result = "UNAVAILABLE")
              /\ account' = account
              BY <1>12, <2>3, AnswersMoves DEF Insert, Inserted
        <3> QED BY <1>12, <2>1, <3>1, ServerPin DEF Insert, device, Moved
      <2> QED BY <2>2, <2>3
<1>13. ASSUME NEW h \in Handler, Dies(h) PROVE PinInv'
      <2>1. Moved(h, {"free", "answer"}) /\ (call'[h].stage = "answer" => call'[h].result = "UNAVAILABLE")
            BY <1>13, AnswersMoves DEF Dies
      <2> QED BY <1>13, <2>1, ServerPin DEF Dies, Moved
<1>14. ASSUME NEW h \in Handler, Answer(h) PROVE PinInv'
      <2> DEFINE d == call[h].caller
                 ok == call[h].result = "OK"
      <2>1. /\ call[h].stage = "answer" /\ call'[h] = NoCall
            /\ \A g \in Handler \ {h} : call'[g] = call[g]
            /\ account' = account
            BY <1>14 DEF Answer, At, AccessTypes
      <2>2. /\ \A e \in Device \ {d} : screen'[e] = screen[e] /\ with'[e] = with[e]
            /\ d \in Device => screen'[d] = Rested(screen[d], call[h])
                               /\ with'[d] = IF ok THEN call[h].pin ELSE NoPin
            BY <1>14 DEF Answer, AccessTypes
      <2>3. d \in Device => \/ /\ ok /\ screen'[d].mode = "open" /\ screen'[d].busy = FALSE
                            \/ /\ ~ ok /\ screen'[d].mode = screen[d].mode
                               /\ screen'[d].first = screen[d].first
            BY <1>0, <2>2 DEF Rested, Fresh, ScreenRecord
      <2>4. \A g \in Handler \ {h} : call[g].caller # NoOne => call[g].caller # d
            BY <1>0 DEF CallersOk
      <2>5. \A g \in Handler : call[g].caller \in Device \cup {NoOne}
            BY <1>0, CallFields
      <2>9. call'[h].stage = "free" /\ call'[h].caller = NoOne
            BY <2>1, EmptyRecords
      <2>6. CallersOk'
            BY <1>0, <2>1, <2>2, <2>4, <2>5, <2>9 DEF CallersOk
      <2>7. ASSUME NEW g \in Handler PROVE PinOk(g)'
            BY <1>0, <2>1, <2>9 DEF PinOk
      <2>8. ASSUME NEW e \in Device PROVE ScreenOk(e)'
        <3>1. CASE e # d
              BY <1>0, <2>1, <2>2, <3>1 DEF ScreenOk
        <3>2. CASE e = d /\ ok
              BY <1>0, <2>1, <2>2, <2>3, <3>2 DEF ScreenOk, PinOk
        <3>3. CASE e = d /\ ~ ok
          <4>1. screen[e].busy
                BY <1>0, <3>3, NobodyAssumption DEF CallersOk
          <4> QED BY <1>0, <2>3, <3>3, <4>1 DEF ScreenOk
        <3> QED BY <3>1, <3>2, <3>3
      <2> QED BY <2>6, <2>7, <2>8 DEF PinInv
<1>15. ASSUME NEW d \in Device, Left(d)
       PROVE  \A g \in Handler :
                \/ call'[g] = call[g] /\ call[g].caller # d
                \/ /\ call[g].caller = d /\ call'[g].caller = NoOne
                   /\ \/ call'[g].stage = "free"
                      \/ /\ call'[g].stage = call[g].stage /\ call'[g].pin = call[g].pin
                         /\ call'[g].result = call[g].result
      BY <1>0, <1>15 DEF Left, At, NoCall, CallRecord
<1>16. ASSUME NEW d \in Device, GiveUp(d) \/ Kill(d) PROVE PinInv'
      <2>1. /\ Left(d) /\ \A e \in Device \ {d} : screen'[e] = screen[e] /\ with'[e] = with[e]
            /\ account' = account
            BY <1>16 DEF GiveUp, Kill, AccessTypes
      <2>2. \/ screen'[d].mode \in {"ENTER", "SET"}
            \/ /\ screen[d].busy /\ screen'[d].mode = screen[d].mode
               /\ screen'[d].first = screen[d].first
        <3>1. CASE GiveUp(d)
              BY <1>0, <3>1 DEF GiveUp, AccessTypes, ScreenRecord
        <3>2. CASE Kill(d)
          <4>1. PICK mode \in {"ENTER", "SET"} : screen' = [screen EXCEPT ![d] = Fresh(mode)]
                BY <3>2 DEF Kill
          <4> QED BY <4>1 DEF Fresh, AccessTypes
        <3> QED BY <1>16, <3>1, <3>2
      <2>3. \A g \in Handler : call[g].caller \in Device \cup {NoOne}
            BY <1>0, CallFields
      <2>4. CallersOk'
            BY <1>0, <1>15, <2>1, <2>3 DEF CallersOk
      <2>5. ASSUME NEW g \in Handler PROVE PinOk(g)'
            BY <1>0, <1>15, <2>1 DEF PinOk
      <2>6. ASSUME NEW e \in Device PROVE ScreenOk(e)'
            BY <1>0, <2>1, <2>2 DEF ScreenOk
      <2> QED BY <2>4, <2>5, <2>6 DEF PinInv
<1>17. CASE Tick
      <2>1. /\ \A g \in Handler : /\ call'[g].stage = call[g].stage /\ call'[g].caller \in {call[g].caller, NoOne}
                                  /\ call[g].stage # "free" => /\ call'[g].caller = call[g].caller
                                                               /\ call'[g].pin = call[g].pin
                                                               /\ call'[g].result = call[g].result
            /\ UNCHANGED <<account, screen, with>>
        <3>1. /\ call' = [g \in Handler |->
                             IF At(g, "free") THEN NoCall ELSE [call[g] EXCEPT !.age = @ + 1]]
              /\ UNCHANGED <<account, screen, with>>
              BY <1>17 DEF Tick
        <3> QED BY <1>0, <3>1 DEF At, NoCall, CallRecord
      <2>2. CallersOk'
            BY <1>0, <2>1 DEF CallersOk
      <2>3. ASSUME NEW g \in Handler PROVE PinOk(g)'
            BY <1>0, <2>1 DEF PinOk
      <2>4. ASSUME NEW e \in Device PROVE ScreenOk(e)'
            BY <1>0, <2>1 DEF ScreenOk
      <2> QED BY <2>2, <2>3, <2>4 DEF PinInv
<1>18. CASE UNCHANGED vars
      BY <1>18 DEF vars, table, PinInv, CallersOk, PinOk, ScreenOk
<1> QED BY <1>2, <1>3, <1>4, <1>5, <1>6, <1>7, <1>8, <1>9, <1>10, <1>11, <1>12, <1>13, <1>14,
           <1>16, <1>17, <1>18
        DEF Next, ServerStep

----------------------------------------------------------------------------
(* The lock.                                                                *)

LEMMA LockInit == Init => LockInv
  BY DEF Init, LockInv

\* A handler that is not the one that owes the lock moves, and no table does.
LEMMA LockFrame ==
    ASSUME LockInv, UNCHANGED <<until, owed, last, raced>>, count # 0 => count' # 0,
           last \in Handler /\ call[last].stage = "lock" =>
               /\ call'[last].stage = "lock" /\ call'[last].failed = call[last].failed
               /\ call'[last].age = call[last].age
    PROVE  LockInv'
  BY DEF LockInv, At, LockedFor

LEMMA LockStep == AccessTypes /\ LockInv /\ [Next]_vars => LockInv'
<1> SUFFICES ASSUME AccessTypes, LockInv, [Next]_vars PROVE LockInv'
    OBVIOUS
<1>0. /\ \A h \in Handler : call[h] \in CallRecord
      /\ NoOne \notin Handler /\ Unlocked \in Int
      BY NobodyAssumption, BoundAssumption DEF AccessTypes, Unlocked
<1>1. ASSUME NEW h \in Handler, \A g \in Handler \ {h} : call'[g] = call[g],
             call[h].stage # "lock", UNCHANGED <<until, owed, last, raced>>,
             count # 0 => count' # 0
      PROVE  LockInv'
      BY <1>1, LockFrame
<1>2. ASSUME UNCHANGED <<call, until, owed, last, raced, count>> PROVE LockInv'
      BY <1>2, LockFrame
<1>3. ASSUME NEW d \in Device, NEW h \in Handler,
             SetPin(d, h) \/ \E pin \in Pin : Submit(d, h, pin)
      PROVE  LockInv'
      <2>1. /\ \A g \in Handler \ {h} : call'[g] = call[g]
            /\ call[h].stage = "free" /\ UNCHANGED <<until, owed, last, raced, count>>
            BY <1>3 DEF SetPin, Submit, Send, AccessTypes, table
      <2> QED BY <1>1, <2>1
<1>4. ASSUME NEW d \in Device, Choose(d) \/ Mismatch(d) PROVE LockInv'
      BY <1>2, <1>4 DEF Choose, Mismatch, table
<1>5. ASSUME NEW h \in Handler,
             CheckLockout(h) \/ Verify(h) \/ Issue(h) \/ Exists(h) \/ Insert(h) \/ Answer(h)
      PROVE  LockInv'
      <2>1. call[h].stage # "lock" /\ UNCHANGED <<until, owed, last, raced, count>>
            BY <1>5 DEF CheckLockout, Verify, Issue, Exists, Insert, Answer, At, table
      <2>2. \A g \in Handler \ {h} : call'[g] = call[g]
            BY <1>5 DEF CheckLockout, Verify, Issue, Exists, Insert, Answer, Goes, Answers, AccessTypes
      <2> QED BY <1>1, <2>1, <2>2
<1>6. ASSUME NEW h \in Handler, CountFailure(h) PROVE LockInv'
      <2>1. count' = count + 1 /\ count' # 0 /\ call[h].stage = "count" /\ until' = until
            BY <1>6 DEF CountFailure, At, AccessTypes
      <2>2. CASE LockoutDuration(count + 1) > 0
        <3>1. /\ call' = [call EXCEPT ![h].stage = "lock", ![h].failed = count']
              /\ owed' = Max({LockoutDuration(count + 1) - call[h].age, Unlocked}) /\ last' = h
              BY <1>6, <2>2 DEF CountFailure
        <3>2. call'[h] = [call[h] EXCEPT !.stage = "lock", !.failed = count']
              BY <3>1 DEF AccessTypes
        <3>3. /\ call'[h].stage = "lock" /\ call'[h].failed = count + 1
              /\ call'[h].age = call[h].age
              BY <1>0, <2>1, <3>2 DEF CallRecord
        <3>4. LockedFor(call[h])' = LockoutDuration(count + 1) - call[h].age
              BY <3>3 DEF LockedFor
        <3>5. owed' = Max({LockedFor(call'[h]), Unlocked})
              BY <3>1, <3>4 DEF LockedFor
        <3> QED BY <2>1, <3>1, <3>3, <3>5 DEF LockInv, At, LockedFor, Unlocked
      <2>3. CASE ~ (LockoutDuration(count + 1) > 0)
        <3>1. /\ \A g \in Handler \ {h} : call'[g] = call[g]
              /\ UNCHANGED <<until, owed, last, raced>>
              BY <1>6, <2>3 DEF CountFailure, Answers, AccessTypes
        <3> QED BY <1>1, <2>1, <3>1
      <2> QED BY <2>2, <2>3
<1>7. ASSUME NEW h \in Handler, Lock(h) PROVE LockInv'
      <2> SUFFICES ASSUME h = last, ~ raced PROVE until' = owed' /\ last' = NoOne
          BY <1>7 DEF Lock, LockInv
      <2>1. count # 0 /\ owed = Max({LockedFor(call[h]), Unlocked})
            BY <1>0 DEF LockInv
      <2> QED BY <1>7, <2>1 DEF Lock
<1>8. ASSUME NEW h \in Handler, Clear(h) PROVE LockInv'
      BY <1>8 DEF Clear, LockInv
<1>9. ASSUME NEW h \in Handler, Dies(h) PROVE LockInv'
      <2>1. CASE call[h].stage = "lock"
            BY <1>9, <2>1 DEF Dies, At, LockInv
      <2>2. CASE call[h].stage # "lock"
        <3>1. /\ \A g \in Handler \ {h} : call'[g] = call[g]
              /\ UNCHANGED <<until, owed, last, count>> /\ raced' = raced
              BY <1>9, <2>2 DEF Dies, Answers, At, AccessTypes
        <3> QED BY <1>1, <2>2, <3>1
      <2> QED BY <2>1, <2>2
<1>10. ASSUME NEW d \in Device, GiveUp(d) \/ Kill(d) PROVE LockInv'
      <2>1. Left(d) /\ UNCHANGED <<until, owed, last, raced, count>>
            BY <1>10 DEF GiveUp, Kill, table
      <2>2. \A g \in Handler : call[g].stage = "lock" =>
              /\ call'[g].stage = "lock" /\ call'[g].failed = call[g].failed
              /\ call'[g].age = call[g].age
            BY <1>0, <2>1 DEF Left, At, CallRecord
      <2> QED BY <2>1, <2>2, LockFrame
<1>11. CASE Tick
      <2>1. \A g \in Handler : call[g].stage = "lock" =>
              /\ call'[g].stage = "lock" /\ call'[g].failed = call[g].failed
              /\ call'[g].age = call[g].age + 1
        <3>1. call' = [g \in Handler |->
                          IF At(g, "free") THEN NoCall ELSE [call[g] EXCEPT !.age = @ + 1]]
              BY <1>11 DEF Tick
        <3> QED BY <1>0, <3>1 DEF At, CallRecord
      <2>2. until' = Later(until) /\ owed' = Later(owed) /\ UNCHANGED <<last, raced, count>>
            BY <1>11 DEF Tick
      <2> SUFFICES ASSUME ~ raced, last \in Handler, call[last].stage = "lock", count # 0,
                          owed = Max({LockedFor(call[last]), Unlocked})
                   PROVE  LockInv'
          BY <2>2 DEF LockInv, At
      <2>3. LockedFor(call[last]) \in Int
            BY <1>0, DurationType, CallFields DEF LockedFor
      <2>4. call[last].age \in Int /\ LockoutDuration(call[last].failed) \in Int
            BY <1>0, DurationType, CallFields
      <2>5. LockedFor(call'[last]) = LockedFor(call[last]) - 1
            BY <2>1, <2>4 DEF LockedFor
      <2>6. owed' = Max({LockedFor(call'[last]), Unlocked})
            BY <2>2, <2>3, <2>5, LaterOfMax
      <2> QED BY <2>1, <2>2, <2>6 DEF LockInv, At, LockedFor, Unlocked
<1>12. CASE UNCHANGED vars
      BY <1>2, <1>12 DEF vars, table
<1> QED BY <1>3, <1>4, <1>5, <1>6, <1>7, <1>8, <1>9, <1>10, <1>11, <1>12 DEF Next, ServerStep

LEMMA AccessInvariants == Spec => [](AccessTypes /\ PinInv /\ LockInv)
<1>1. Init => AccessTypes /\ PinInv /\ LockInv
      BY AccessTypesInit, PinInit, LockInit
<1>2. AccessTypes /\ PinInv /\ LockInv /\ [Next]_vars => (AccessTypes /\ PinInv /\ LockInv)'
      BY AccessTypeStep, PinStep, LockStep
<1> QED BY <1>1, <1>2, PTL DEF Spec

\* A device is let in with the account's PIN only, however many devices register
\* the phone or log in at once and whatever is lost on the way.
THEOREM OnlyThePinLetsIn == Spec => []LetInWithThePin
<1>1. PinInv => LetInWithThePin
      BY DEF PinInv, ScreenOk, LetInWithThePin
<1> QED BY <1>1, AccessInvariants, PTL

\* lockout.ts counts a failure and sets the lock in two statements: for any
\* threshold and durations, and any failures, logins and expiries between the two,
\* the lock that stands is the one the last counted failure calls for, unless the
\* second statement of another failure overtook it or its own never ran.
THEOREM LockFollowsLastFailure == Spec => []LockIsLastFailures
<1>1. LockInv => LockIsLastFailures
      BY DEF LockInv, LockIsLastFailures
<1> QED BY <1>1, AccessInvariants, PTL
=============================================================================
