---------------------------- MODULE SessionProofs ----------------------------
(* Proofs about module Session, for any devices, handlers, logins, pairs    *)
(* and failures, and any thresholds of the breaker and the retries.         *)
EXTENDS Session, TLAPS

----------------------------------------------------------------------------
(* Types.                                                                   *)

\* Pairs, but for the bound on their number, which only TLC needs.
Token == Device \X (1..MaxLogins) \X (Nat \ {0})

PassRecord ==
    [pc : {"idle", "choose", "refresh", "work", "clear"},
     pair : Token \cup {NoPair}, tries : Nat]

CallRecord ==
    [kind : {"none", "login", "refresh"}, caller : Device \cup {NoOne},
     family : Families \cup {<<>>}, pair : Token \cup {NoPair},
     stage : {"free", "select", "revoke", "refused", "rotate", "access", "member", "ok"}]

BreakerRecord == [failures : Nat, state : {"CLOSED", "OPEN", "HALF_OPEN"}]

TypeOK ==
    /\ access \subseteq Token /\ live \subseteq Token /\ spent \subseteq Token
    /\ minted \in [Families -> Nat]
    /\ call \in [Handler -> CallRecord]
    /\ store \in [Device -> Token \cup {NoPair}]
    /\ pass \in [Device -> PassRecord]
    /\ asking \subseteq Device
    /\ breaker \in [Device -> BreakerRecord]
    /\ failures \in Nat
    /\ hurt \subseteq Families /\ raced \subseteq Families

----------------------------------------------------------------------------
(* What a handler works on, and who waits for it.                           *)

IsLogin(h) == call[h].kind = "login"
IsRefresh(h) == call[h].kind = "refresh"

\* The request carries a pair: the one to redeem, or the one it has minted.
Carries(h) == IsRefresh(h) \/ (IsLogin(h) /\ call[h].stage \in {"member", "ok"})

\* The stages a request goes through, and the family it belongs to.
CallOk(h) ==
    /\ call[h].kind = "none" => call[h] = NoCall
    /\ call[h].kind # "none" =>
          /\ call[h].family \in Families
          /\ call[h].caller \in {NoOne, call[h].family[1]}
    /\ IsLogin(h) => call[h].stage \in {"access", "member", "ok"}
    /\ IsRefresh(h) => call[h].stage \in {"select", "revoke", "refused", "rotate", "access", "member", "ok"}
    /\ Carries(h) =>
          /\ call[h].pair \in Token /\ Family(call[h].pair) = call[h].family
          /\ call[h].pair[3] <= minted[call[h].family]

\* A refresh whose caller waits is the one refresh his pass waits for, and until
\* it mints a pair it works on the pair of the pass.
WaitOk(h) ==
    IsRefresh(h) /\ call[h].caller # NoOne =>
        LET d == call[h].caller IN
        /\ pass[d].pc = "refresh" /\ Family(pass[d].pair) = call[h].family
        /\ call[h].stage \in {"select", "rotate"} => call[h].pair = pass[d].pair
        /\ \A g \in Handler : IsRefresh(g) /\ call[g].caller = d => g = h

\* What device d has in its store and in its pass was minted for it.
HeldOk(d) ==
    /\ store[d] # NoPair =>
          Owner(store[d]) = d /\ store[d][3] <= minted[Family(store[d])]
    /\ pass[d].pc = "idle" => pass[d] = NoPass
    /\ pass[d].pc # "idle" =>
          /\ pass[d].pair \in Token /\ Owner(pass[d].pair) = d
          /\ pass[d].pair[3] <= minted[Family(pass[d].pair)]
    /\ pass[d].pc = "refresh" => \E h \in Handler : IsRefresh(h) /\ call[h].caller = d

WaitInv ==
    /\ \A h \in Handler : CallOk(h) /\ WaitOk(h)
    /\ \A d \in Device : HeldOk(d)
    /\ \A p \in live \cup spent : p[3] <= minted[Family(p)]

\* A family of which two requests run is a family raced for, and a pair about
\* to be redeemed is not spent yet but in one of those.
RaceInv ==
    /\ \A g, h \in Handler :
          /\ g # h /\ call[g].kind # "none" /\ call[h].kind # "none"
          /\ call[g].family = call[h].family
          => call[h].family \in raced
    /\ \A h \in Handler :
          call[h].stage = "rotate" => call[h].pair \notin spent \/ call[h].family \in raced

LEMMA SessionInit == Init => TypeOK /\ WaitInv /\ RaceInv
<1> SUFFICES ASSUME Init PROVE TypeOK /\ WaitInv /\ RaceInv
    OBVIOUS
<1>1. TypeOK
      BY SizesAssumption DEF Init, TypeOK, NoCall, NoPass, Closed, Token, Families, PassRecord,
                             CallRecord, BreakerRecord
<1>2. WaitInv
      BY DEF Init, WaitInv, CallOk, WaitOk, HeldOk, NoCall, NoPass, IsLogin, IsRefresh, Carries
<1>3. RaceInv
      BY DEF Init, RaceInv, NoCall
<1> QED BY <1>1, <1>2, <1>3

LEMMA BreakerTypes ==
    ASSUME NEW b \in BreakerRecord
    PROVE  RecordFailure(b) \in BreakerRecord /\ RecordSuccess(b) \in BreakerRecord
  BY SizesAssumption DEF BreakerRecord, RecordFailure, RecordSuccess, Closed

\* A request that is under way belongs to a family.
LEMMA Busy ==
    ASSUME TypeOK, WaitInv, NEW h \in Handler, call[h].stage # "free"
    PROVE  /\ IsLogin(h) \/ IsRefresh(h)
           /\ call[h].kind # "none" /\ call[h].family \in Families
<1>1. CallOk(h)
      BY DEF WaitInv
<1>2. call[h] \in CallRecord
      BY DEF TypeOK
<1> QED BY <1>1, <1>2 DEF CallOk, NoCall, IsLogin, IsRefresh, CallRecord

LEMMA SessionTypeStep == TypeOK /\ WaitInv /\ [Next]_vars => TypeOK'
<1> SUFFICES ASSUME TypeOK, WaitInv, [Next]_vars PROVE TypeOK'
    OBVIOUS
<1> USE SizesAssumption
<1>0. /\ NoPass \in PassRecord /\ NoCall \in CallRecord /\ Closed \in BreakerRecord
      /\ \A d \in Device : pass[d] \in PassRecord /\ breaker[d] \in BreakerRecord
      /\ \A h \in Handler : call[h] \in CallRecord
      BY DEF TypeOK, NoPass, NoCall, Closed, PassRecord, CallRecord, BreakerRecord
<1>1. ASSUME NEW d \in Device, Cool(d) PROVE TypeOK'
      BY <1>1, <1>0 DEF Cool, TypeOK, tokens, BreakerRecord
<1>2. ASSUME NEW d \in Device, StartPass(d) PROVE TypeOK'
      BY <1>2, <1>0 DEF StartPass, TypeOK, tokens, PassRecord, NoPass
<1>3. ASSUME NEW d \in Device, UseAccess(d) PROVE TypeOK'
      BY <1>3, <1>0 DEF UseAccess, TypeOK, tokens, PassRecord
<1>4. ASSUME NEW d \in Device, NEW h \in Handler, AskRefresh(d, h) PROVE TypeOK'
      <2>1. pass[d].pair \in Token /\ Owner(pass[d].pair) = d
            BY <1>4 DEF AskRefresh, WaitInv, HeldOk
      <2>2. Family(pass[d].pair) \in Families
            BY <2>1 DEF Family, Families, Token
      <2>3. [kind |-> "refresh", caller |-> d, family |-> Family(pass[d].pair),
             pair |-> pass[d].pair, stage |-> "select"] \in CallRecord
            BY <2>1, <2>2 DEF CallRecord
      <2>4. call' \in [Handler -> CallRecord]
            BY <1>4, <2>3 DEF AskRefresh, TypeOK
      <2>5. pass' \in [Device -> PassRecord]
            BY <1>4, <1>0 DEF AskRefresh, TypeOK, PassRecord
      <2> QED BY <1>4, <2>2, <2>4, <2>5 DEF AskRefresh, TypeOK, tokens
<1>5. ASSUME NEW d \in Device, Work(d) PROVE TypeOK'
      BY <1>5, <1>0, BreakerTypes DEF Work, TypeOK, tokens, PassRecord
<1>6. ASSUME NEW d \in Device, Denied(d) PROVE TypeOK'
      <2>1. RecordFailure(RecordFailure(breaker[d])) \in BreakerRecord
            BY <1>0, BreakerTypes
      <2> QED BY <1>6, <1>0, <2>1 DEF Denied, TypeOK, tokens, PassRecord
<1>7. ASSUME NEW d \in Device, Fails(d) PROVE TypeOK'
      <2>1. /\ RecordFailure(breaker[d]) \in BreakerRecord
            /\ RecordFailure(RecordFailure(breaker[d])) \in BreakerRecord
            BY <1>0, BreakerTypes
      <2>2. breaker' \in [Device -> BreakerRecord]
            BY <1>7, <2>1 DEF Fails, TypeOK
      <2>3. pass' \in [Device -> PassRecord]
            BY <1>7, <1>0 DEF Fails, TypeOK, PassRecord
      <2> QED BY <1>7, <2>2, <2>3 DEF Fails, TypeOK, tokens
<1>8. ASSUME NEW d \in Device, Clear(d) PROVE TypeOK'
      BY <1>8, <1>0 DEF Clear, TypeOK, tokens
<1>9. ASSUME NEW d \in Device, NEW h \in Handler, Login(d, h) PROVE TypeOK'
      <2>1. PICK k \in 1..MaxLogins :
              call' = [call EXCEPT ![h] = [kind |-> "login", caller |-> d, family |-> <<d, k>>,
                                           pair |-> NoPair, stage |-> "access"]]
            BY <1>9 DEF Login
      <2>2. call' \in [Handler -> CallRecord]
            BY <2>1 DEF TypeOK, CallRecord, Families
      <2> QED BY <1>9, <2>2 DEF Login, TypeOK, tokens
<1>10. ASSUME NEW h \in Handler, Select(h) PROVE TypeOK'
      <2>1. PICK stage \in {"refused", "revoke", "rotate"} : call' = [call EXCEPT ![h].stage = stage]
            BY <1>10, Zenon DEF Select, GoTo
      <2>2. call' \in [Handler -> CallRecord]
        <3>1. [call[h] EXCEPT !.stage = stage] \in CallRecord
              BY <1>0 DEF CallRecord
        <3>2. call' = [call EXCEPT ![h] = [call[h] EXCEPT !.stage = stage]]
              BY <2>1
        <3> QED BY <3>1, <3>2 DEF TypeOK
      <2> QED BY <1>10, <2>2 DEF Select, TypeOK, tokens
<1>11. ASSUME NEW h \in Handler, Revoke(h) PROVE TypeOK'
      BY <1>11, <1>0 DEF Revoke, GoTo, TypeOK, CallRecord
<1>12. ASSUME NEW h \in Handler, Rotate(h) PROVE TypeOK'
      BY <1>12, <1>0 DEF Rotate, GoTo, Unrotated, TypeOK, CallRecord
<1>13. ASSUME NEW h \in Handler, IssueAccess(h) PROVE TypeOK'
      <2> DEFINE f == call[h].family
                 p == <<f[1], f[2], minted[f] + 1>>
      <2>1. f \in Families /\ minted[f] \in Nat
            BY <1>13, Busy DEF IssueAccess, Is, TypeOK
      <2>2. p \in Token
            BY <2>1 DEF Token, Families
      <2>3. call' \in [Handler -> CallRecord]
        <3>1. [call[h] EXCEPT !.stage = "member", !.pair = p] \in CallRecord
              BY <1>0, <2>2 DEF CallRecord
        <3>2. call' = [call EXCEPT ![h] = [call[h] EXCEPT !.stage = "member", !.pair = p]]
              BY <1>13 DEF IssueAccess, TypeOK
        <3> QED BY <3>1, <3>2 DEF TypeOK
      <2>4. minted' \in [Families -> Nat]
            BY <1>13, <2>1 DEF IssueAccess, TypeOK
      <2> QED BY <1>13, <2>2, <2>3, <2>4 DEF IssueAccess, TypeOK
<1>14. ASSUME NEW h \in Handler, IssueMember(h) PROVE TypeOK'
      <2>1. call[h].pair \in Token
            BY <1>14, Busy DEF IssueMember, Is, WaitInv, CallOk, Carries
      <2> QED BY <1>14, <1>0, <2>1 DEF IssueMember, GoTo, TypeOK, CallRecord
<1>15. ASSUME NEW h \in Handler, AnswerPair(h) PROVE TypeOK'
      <2>1. store' \in [Device -> Token \cup {NoPair}]
            BY <1>15, <1>0 DEF AnswerPair, Saved, TypeOK, CallRecord
      <2>2. pass' \in [Device -> PassRecord]
        <3>1. ASSUME NEW r \in PassRecord
              PROVE  [r EXCEPT !.pc = "work", !.pair = call[h].pair] \in PassRecord
              BY <1>0, <3>1 DEF CallRecord, PassRecord
        <3>2. \/ pass' = pass
              \/ pass' = [e \in Device |-> IF e = call[h].caller
                                         THEN [pass[e] EXCEPT !.pc = "work", !.pair = call[h].pair]
                                         ELSE pass[e]]
              BY <1>15, Zenon DEF AnswerPair
        <3>3. \A e \in Device :
                [pass[e] EXCEPT !.pc = "work", !.pair = call[h].pair] \in PassRecord
              BY <1>0, <3>1
        <3> QED BY <1>0, <3>2, <3>3 DEF TypeOK
      <2> QED BY <1>15, <1>0, <2>1, <2>2 DEF AnswerPair, TypeOK, tokens
<1>16. ASSUME NEW h \in Handler, AnswerRefused(h) PROVE TypeOK'
      <2>1. pass' \in [Device -> PassRecord]
            BY <1>16, <1>0 DEF AnswerRefused, TypeOK, PassRecord
      <2> QED BY <1>16, <1>0, <2>1, BreakerTypes DEF AnswerRefused, TypeOK, tokens
<1>17. ASSUME NEW p \in Pairs, ExpireAccess(p) PROVE TypeOK'
      BY <1>17 DEF ExpireAccess, TypeOK
<1>18. ASSUME NEW p \in Pairs, ExpireRefresh(p) PROVE TypeOK'
      BY <1>18 DEF ExpireRefresh, TypeOK, Pairs, Family, Families
<1>19. ASSUME NEW d \in Device, Logout(d) PROVE TypeOK'
      BY <1>19 DEF Logout, TypeOK
<1>20. ASSUME NEW H \in SUBSET Handler, call' = Abandoned(H) PROVE call' \in [Handler -> CallRecord]
      BY <1>20, <1>0 DEF Abandoned, CallRecord
<1>21. ASSUME NEW d \in Device PROVE FamiliesOf(Waiting(d, "refresh")) \subseteq Families
      BY DEF FamiliesOf, Waiting, WaitInv, CallOk
<1>22. ASSUME NEW d \in Device, RefreshLost(d) PROVE TypeOK'
      <2>1. call' \in [Handler -> CallRecord]
            BY <1>22, <1>20 DEF RefreshLost, Waiting
      <2> QED BY <1>22, <1>0, <1>21, <2>1, BreakerTypes DEF RefreshLost, TypeOK, tokens
<1>23. ASSUME NEW d \in Device, LoginLost(d) PROVE TypeOK'
      <2>1. call' \in [Handler -> CallRecord]
            BY <1>23, <1>20 DEF LoginLost, Waiting
      <2> QED BY <1>23, <2>1 DEF LoginLost, TypeOK, tokens
<1>24. ASSUME NEW d \in Device, Kill(d) PROVE TypeOK'
      <2>1. call' \in [Handler -> CallRecord]
            BY <1>24, <1>20 DEF Kill, Waiting
      <2>2. /\ pass' \in [Device -> PassRecord] /\ breaker' \in [Device -> BreakerRecord]
            /\ hurt' \subseteq Families /\ asking' \subseteq Device /\ failures' \in Nat
            BY <1>24, <1>0, <1>21 DEF Kill, TypeOK
      <2> QED BY <1>24, <2>1, <2>2 DEF Kill, TypeOK, tokens
<1>25. ASSUME NEW h \in Handler, HandlerDies(h) PROVE TypeOK'
      <2>1. call[h].kind # "none"
            BY <1>25 DEF HandlerDies, WaitInv, CallOk
      <2>2. call[h].family \in Families
            BY <2>1 DEF WaitInv, CallOk
      <2>3. pass' \in [Device -> PassRecord]
            BY <1>25, <1>0 DEF HandlerDies, TypeOK
      <2>4. breaker' \in [Device -> BreakerRecord]
            BY <1>25, <1>0, BreakerTypes DEF HandlerDies, TypeOK
      <2> QED BY <1>25, <1>0, <2>2, <2>3, <2>4 DEF HandlerDies, TypeOK, tokens
<1>26. CASE UNCHANGED vars
      BY <1>26 DEF vars, tokens, TypeOK
<1> QED BY <1>1, <1>2, <1>3, <1>4, <1>5, <1>6, <1>7, <1>8, <1>9, <1>10, <1>11, <1>12, <1>13,
           <1>14, <1>15, <1>16, <1>17, <1>18, <1>19, <1>22, <1>23, <1>24, <1>25, <1>26
        DEF Next, PassStep, HandlerStep

----------------------------------------------------------------------------
(* WaitInv is inductive: a lemma for each way in which a step can move the  *)
(* passes and the requests, then the steps.                                 *)

\* The pass of d, or nothing at all, moves, and no request does.
LEMMA PassMoves ==
    ASSUME TypeOK, TypeOK', WaitInv, UNCHANGED <<call, minted>>, NEW d \in Device,
           live' \cup spent' \subseteq live \cup spent,
           \A e \in Device \ {d} : pass'[e] = pass[e] /\ store'[e] = store[e],
           store'[d] \in {store[d], NoPair},
           \/ pass'[d] = pass[d]
           \/ /\ pass[d].pc # "refresh"
              /\ \/ pass'[d] = NoPass
                 \/ pass'[d].pc \in {"choose", "work", "clear"} /\ pass'[d].pair \in Token
                    /\ \/ pass[d].pc # "idle" /\ pass'[d].pair = pass[d].pair
                       \/ store[d] # NoPair /\ pass'[d].pair = store[d]
    PROVE  WaitInv'
<1>1. \A p \in (live \cup spent)' : p[3] <= (minted[Family(p)])'
      BY DEF WaitInv, Family
<1>2. ASSUME NEW h \in Handler PROVE CallOk(h)' /\ WaitOk(h)'
      <2>1. CallOk(h) /\ WaitOk(h)
            BY DEF WaitInv
      <2>2. IsRefresh(h) /\ call[h].caller # NoOne => pass'[call[h].caller] = pass[call[h].caller]
            BY <2>1 DEF WaitOk, TypeOK, CallRecord
      <2> QED BY <2>1, <2>2 DEF CallOk, WaitOk, IsLogin, IsRefresh, Carries, Family
<1>3. ASSUME NEW e \in Device PROVE HeldOk(e)'
      <2>1. HeldOk(e)
            BY DEF WaitInv
      <2>2. CASE e # d
            BY <2>1, <2>2 DEF HeldOk, Family, Owner, IsRefresh
      <2>3. CASE e = d
            BY <2>1, <2>3 DEF HeldOk, Family, Owner, IsRefresh, NoPass
      <2> QED BY <2>2, <2>3
<1> QED BY <1>1, <1>2, <1>3 DEF WaitInv

\* Request h goes on to a later stage, with the pair it has.
LEMMA StageMoves ==
    ASSUME TypeOK, TypeOK', WaitInv, UNCHANGED <<minted, store, pass>>, NEW h \in Handler,
           call' = [call EXCEPT ![h].stage = call'[h].stage],
           call[h].stage # "free",
           call'[h].stage \in {"revoke", "refused", "rotate", "access", "ok"},
           IsLogin(h) => call[h].stage = "member" /\ call'[h].stage = "ok",
           call'[h].stage = "rotate" => call[h].stage = "select",
           \A p \in live' \cup spent' : p \in live \cup spent \/ (Carries(h) /\ p = call[h].pair)
    PROVE  WaitInv'
<1>0. /\ call'[h].kind = call[h].kind /\ call'[h].caller = call[h].caller
      /\ call'[h].family = call[h].family /\ call'[h].pair = call[h].pair
      /\ \A g \in Handler \ {h} : call'[g] = call[g]
      BY DEF TypeOK, CallRecord
<1>1. \A g \in Handler : CallOk(g) /\ WaitOk(g)
      BY DEF WaitInv
<1>2. \A p \in (live \cup spent)' : p[3] <= (minted[Family(p)])'
      BY <1>1 DEF WaitInv, Family, CallOk
<1>3. ASSUME NEW g \in Handler PROVE CallOk(g)'
      <2>1. CASE g = h
            BY <1>0, <1>1, <2>1, Busy DEF CallOk, IsLogin, IsRefresh, Carries, Family
      <2>2. CASE g # h
            BY <1>0, <1>1, <2>2 DEF CallOk, IsLogin, IsRefresh, Carries, Family
      <2> QED BY <2>1, <2>2
<1>4. \A g \in Handler : IsRefresh(g)' = IsRefresh(g) /\ call'[g].caller = call[g].caller
      BY <1>0 DEF IsRefresh
<1>5. ASSUME NEW g \in Handler PROVE WaitOk(g)'
      BY <1>0, <1>1, <1>4 DEF WaitOk, Family
<1>6. ASSUME NEW e \in Device PROVE HeldOk(e)'
      BY <1>4 DEF WaitInv, HeldOk, Family, Owner
<1> QED BY <1>2, <1>3, <1>5, <1>6 DEF WaitInv

\* Request h is over: the device that waits for it goes on, if one does, with the
\* pair of the request or with what it had.
LEMMA RequestEnds ==
    ASSUME TypeOK, TypeOK', WaitInv, UNCHANGED <<minted, live, spent>>, NEW h \in Handler,
           call' = [call EXCEPT ![h] = NoCall],
           \A e \in Device :
               /\ \/ store'[e] = store[e]
                  \/ e = call[h].caller /\ Carries(h) /\ store'[e] = call[h].pair
               /\ \/ ~ (IsRefresh(h) /\ e = call[h].caller) /\ pass'[e] = pass[e]
                  \/ /\ IsRefresh(h) /\ e = call[h].caller
                     /\ \/ pass'[e] = NoPass
                        \/ /\ pass'[e].pc \in {"work", "clear"}
                           /\ pass'[e].pair \in {pass[e].pair, call[h].pair}
    PROVE  WaitInv'
<1>0. /\ call'[h] = NoCall /\ \A g \in Handler \ {h} : call'[g] = call[g]
      /\ ~ IsRefresh(h)'
      BY DEF TypeOK, NoCall, IsRefresh
<1>1. \A g \in Handler : CallOk(g) /\ WaitOk(g)
      BY DEF WaitInv
<1>2. \A p \in (live \cup spent)' : p[3] <= (minted[Family(p)])'
      BY DEF WaitInv, Family
<1>3. ASSUME NEW g \in Handler PROVE CallOk(g)'
      <2>1. CASE g = h
            BY <1>0, <2>1 DEF CallOk, NoCall, IsLogin, IsRefresh, Carries
      <2>2. CASE g # h
            BY <1>0, <1>1, <2>2 DEF CallOk, IsLogin, IsRefresh, Carries, Family
      <2> QED BY <2>1, <2>2
<1>4. ASSUME NEW g \in Handler PROVE WaitOk(g)'
      <2> SUFFICES ASSUME g # h, IsRefresh(g), call[g].caller # NoOne PROVE WaitOk(g)'
          BY <1>0 DEF WaitOk, IsRefresh
      <2> DEFINE d == call[g].caller
      <2>1. d \in Device
            BY DEF TypeOK, CallRecord
      <2>2. ~ (IsRefresh(h) /\ d = call[h].caller)
            BY <1>1 DEF WaitOk
      <2>3. pass'[d] = pass[d]
            BY <2>1, <2>2
      <2> QED BY <1>0, <1>1, <2>3 DEF WaitOk, IsRefresh, Family
<1>5. ASSUME NEW e \in Device PROVE HeldOk(e)'
      <2>1. HeldOk(e)
            BY DEF WaitInv
      <2>2. Carries(h) /\ e = call[h].caller
            => Owner(call[h].pair) = e /\ call[h].pair[3] <= minted[Family(call[h].pair)]
               /\ call[h].pair \in Token
            BY <1>1, NamesAssumption DEF CallOk, Family, Owner, Carries, IsRefresh, IsLogin
      <2>3. (store[e] # NoPair => Owner(store[e]) = e /\ store[e][3] <= minted[Family(store[e])])'
            BY <2>1, <2>2 DEF HeldOk, Family, Owner
      <2>4. CASE IsRefresh(h) /\ e = call[h].caller
            <3>1. pass[e].pc = "refresh"
                  BY <1>1, <2>4, NamesAssumption DEF WaitOk
            <3> QED BY <2>1, <2>2, <2>3, <2>4, <3>1 DEF HeldOk, Family, Owner, NoPass, Carries
      <2>5. CASE ~ (IsRefresh(h) /\ e = call[h].caller)
            <3>1. pass'[e] = pass[e]
                  BY <2>5
            <3>2. (pass[e].pc = "refresh" => \E g \in Handler : IsRefresh(g) /\ call[g].caller = e)'
                  BY <1>0, <2>1, <2>5, <3>1 DEF HeldOk, IsRefresh
            <3> QED BY <2>1, <2>3, <3>1, <3>2 DEF HeldOk, Family, Owner
      <2> QED BY <2>4, <2>5
<1> QED BY <1>2, <1>3, <1>4, <1>5 DEF WaitInv

\* Device d no longer waits for the requests in H: all its refreshes, or none.
LEMMA CallerGivesUp ==
    ASSUME TypeOK, TypeOK', WaitInv, UNCHANGED <<minted, live, spent, store>>, NEW d \in Device,
           NEW H \in SUBSET Handler, call' = Abandoned(H), \A h \in H : call[h].caller = d,
           \/ pass' = pass /\ \A h \in H : ~ IsRefresh(h)
           \/ pass' = [pass EXCEPT ![d] = NoPass] /\ Waiting(d, "refresh") \subseteq H
    PROVE  WaitInv'
<1>0. \A g \in Handler :
        /\ call'[g].kind = call[g].kind /\ call'[g].family = call[g].family
        /\ call'[g].pair = call[g].pair /\ call'[g].stage = call[g].stage
        /\ call'[g].caller = IF g \in H THEN NoOne ELSE call[g].caller
        /\ call[g] = NoCall => call'[g] = NoCall
      BY DEF TypeOK, CallRecord, Abandoned, NoCall
<1>1. \A g \in Handler : CallOk(g) /\ WaitOk(g)
      BY DEF WaitInv
<1>2. \A p \in (live \cup spent)' : p[3] <= (minted[Family(p)])'
      BY DEF WaitInv, Family
<1>3. ASSUME NEW g \in Handler PROVE CallOk(g)'
      BY <1>0, <1>1 DEF CallOk, IsLogin, IsRefresh, Carries, Family
<1>4. ASSUME NEW g \in Handler PROVE WaitOk(g)'
      <2> SUFFICES ASSUME g \notin H, IsRefresh(g), call[g].caller # NoOne PROVE WaitOk(g)'
          BY <1>0 DEF WaitOk, IsRefresh
      <2>1. call[g].caller \in Device
            BY DEF TypeOK, CallRecord
      <2>2. pass'[call[g].caller] = pass[call[g].caller]
            BY <2>1 DEF TypeOK, Waiting, IsRefresh
      <2> QED BY <1>0, <1>1, <2>1, <2>2, NamesAssumption DEF WaitOk, IsRefresh, Family
<1>5. ASSUME NEW e \in Device PROVE HeldOk(e)'
      <2>1. HeldOk(e)
            BY DEF WaitInv
      <2>2. CASE pass'[e] = pass[e] /\ (e # d \/ \A h \in H : ~ IsRefresh(h))
            <3>1. (pass[e].pc = "refresh" => \E g \in Handler : IsRefresh(g) /\ call[g].caller = e)'
                  BY <1>0, <2>1, <2>2 DEF HeldOk, IsRefresh
            <3> QED BY <2>1, <2>2, <3>1 DEF HeldOk, Family, Owner
      <2>3. CASE pass'[e] = NoPass
            BY <2>1, <2>3 DEF HeldOk, NoPass, Family, Owner
      <2> QED BY <2>2, <2>3 DEF TypeOK
<1> QED BY <1>2, <1>3, <1>4, <1>5 DEF WaitInv

LEMMA WaitStep == TypeOK /\ WaitInv /\ [Next]_vars => WaitInv'
<1> SUFFICES ASSUME TypeOK, WaitInv, [Next]_vars PROVE WaitInv'
    OBVIOUS
<1>0. TypeOK'
      BY SessionTypeStep
<1>1. ASSUME NEW d \in Device, Cool(d) PROVE WaitInv'
      BY <1>0, <1>1, PassMoves DEF Cool, tokens
<1>2. ASSUME NEW d \in Device, StartPass(d) PROVE WaitInv'
      <2>1. /\ pass'[d].pc = "choose" /\ pass'[d].pair = store[d] /\ store[d] \in Token
            /\ \A e \in Device \ {d} : pass'[e] = pass[e]
            BY <1>2 DEF StartPass, TypeOK, NoPass
      <2> QED BY <1>0, <1>2, <2>1, PassMoves DEF StartPass, tokens, NoPass
<1>3. ASSUME NEW d \in Device,
             UseAccess(d) \/ Work(d) \/ Denied(d) \/ Fails(d) \/ Clear(d)
      PROVE  WaitInv'
      <2>1. /\ pass[d].pc \in {"choose", "work", "clear"} /\ pass[d].pair \in Token
            /\ UNCHANGED <<call, minted, live, spent>>
            BY <1>3 DEF UseAccess, Work, Denied, Fails, Clear, tokens, WaitInv, HeldOk
      <2>2. /\ \A e \in Device \ {d} : pass'[e] = pass[e] /\ store'[e] = store[e]
            /\ store'[d] \in {store[d], NoPair}
            BY <1>3 DEF UseAccess, Work, Denied, Fails, Clear, TypeOK
      <2>3. \/ pass'[d] = NoPass
            \/ pass'[d].pc \in {"choose", "work", "clear"} /\ pass'[d].pair = pass[d].pair
            BY <1>3, <2>1 DEF UseAccess, Work, Denied, Fails, Clear, TypeOK, PassRecord
      <2> QED BY <1>0, <2>1, <2>2, <2>3, PassMoves
<1>4. ASSUME NEW d \in Device, NEW h \in Handler, AskRefresh(d, h) PROVE WaitInv'
      <2> DEFINE p == pass[d].pair
      <2>1. \A g \in Handler : CallOk(g) /\ WaitOk(g)
            BY DEF WaitInv
      <2>2. /\ p \in Token /\ Owner(p) = d /\ p[3] <= minted[Family(p)] /\ Family(p) \in Families
            BY <1>4 DEF AskRefresh, WaitInv, HeldOk, Token, Family, Families
      <2>3. /\ call'[h] = [kind |-> "refresh", caller |-> d, family |-> Family(p), pair |-> p,
                           stage |-> "select"]
            /\ \A g \in Handler \ {h} : call'[g] = call[g]
            /\ pass'[d].pc = "refresh" /\ pass'[d].pair = p
            /\ \A e \in Device \ {d} : pass'[e] = pass[e]
            /\ UNCHANGED <<live, spent, minted, store>>
            BY <1>4 DEF AskRefresh, TypeOK, PassRecord, tokens
      <2>4. pass[d].pc = "choose" /\ call[h] = NoCall
            BY <1>4 DEF AskRefresh
      <2>5. ASSUME NEW g \in Handler PROVE CallOk(g)'
            <3>1. CASE g = h
                  BY <2>2, <2>3, <3>1 DEF CallOk, IsLogin, IsRefresh, Carries, Family, Owner
            <3>2. CASE g # h
                  BY <2>1, <2>3, <3>2 DEF CallOk, IsLogin, IsRefresh, Carries, Family
            <3> QED BY <3>1, <3>2
      <2>6. \A g \in Handler : IsRefresh(g) => call[g].caller # d
            BY <2>1, <2>4, NamesAssumption DEF WaitOk
      <2>7. ASSUME NEW g \in Handler PROVE WaitOk(g)'
            <3>1. CASE g = h
                  BY <2>3, <2>6, <3>1 DEF WaitOk, IsRefresh, Family
            <3>2. CASE g # h
              <4>1. IsRefresh(g) /\ call[g].caller # NoOne
                    => pass'[call[g].caller] = pass[call[g].caller]
                    BY <2>3, <2>6 DEF TypeOK, CallRecord
              <4> QED BY <2>1, <2>3, <2>6, <3>2, <4>1 DEF WaitOk, IsRefresh, Family
            <3> QED BY <3>1, <3>2
      <2>8. ASSUME NEW e \in Device PROVE HeldOk(e)'
            <3>1. HeldOk(e)
                  BY DEF WaitInv
            <3>2. CASE e = d
                  BY <2>2, <2>3, <3>1, <3>2 DEF HeldOk, IsRefresh, Family, Owner
            <3>3. CASE e # d
                  BY <2>3, <2>4, <3>1, <3>3 DEF HeldOk, IsRefresh, NoCall, Family, Owner
            <3> QED BY <3>2, <3>3
      <2>9. \A q \in (live \cup spent)' : q[3] <= (minted[Family(q)])'
            BY <2>3 DEF WaitInv, Family
      <2> QED BY <2>5, <2>7, <2>8, <2>9 DEF WaitInv
<1>5. ASSUME NEW d \in Device, NEW h \in Handler, Login(d, h) PROVE WaitInv'
      <2>1. PICK k \in 1..MaxLogins :
              call' = [call EXCEPT ![h] = [kind |-> "login", caller |-> d, family |-> <<d, k>>,
                                           pair |-> NoPair, stage |-> "access"]]
            BY <1>5 DEF Login
      <2>2. /\ call'[h].kind = "login" /\ call'[h].caller = d /\ call'[h].family = <<d, k>>
            /\ call'[h].stage = "access"
            /\ \A g \in Handler \ {h} : call'[g] = call[g]
            /\ UNCHANGED <<live, spent, minted, store, pass>> /\ call[h] = NoCall
            BY <1>5, <2>1 DEF Login, TypeOK, tokens
      <2>3. ASSUME NEW g \in Handler PROVE CallOk(g)' /\ WaitOk(g)'
            <3>1. CallOk(g) /\ WaitOk(g)
                  BY DEF WaitInv
            <3>2. CASE g = h
                  BY <2>2, <3>2 DEF CallOk, WaitOk, IsLogin, IsRefresh, Carries, Families
            <3>3. CASE g # h
                  BY <2>2, <3>1, <3>3 DEF CallOk, WaitOk, IsLogin, IsRefresh, Carries, Family
            <3> QED BY <3>2, <3>3
      <2>4. ASSUME NEW e \in Device PROVE HeldOk(e)'
            BY <2>2 DEF WaitInv, HeldOk, IsRefresh, NoCall, Family, Owner
      <2> QED BY <2>2, <2>3, <2>4 DEF WaitInv, Family
<1>6. ASSUME NEW h \in Handler, Select(h) PROVE WaitInv'
      <2>1. PICK s \in {"refused", "revoke", "rotate"} : call' = [call EXCEPT ![h].stage = s]
            BY <1>6, Zenon DEF Select, GoTo
      <2>2. /\ ~ IsLogin(h) /\ call[h].stage = "select" /\ call'[h].stage = s
            /\ call' = [call EXCEPT ![h].stage = call'[h].stage]
            BY <1>6, <2>1 DEF Select, Is, WaitInv, CallOk, TypeOK, CallRecord
      <2>3. UNCHANGED <<live, spent, minted, store, pass>>
            BY <1>6 DEF Select, tokens
      <2> QED BY <1>0, <2>1, <2>2, <2>3, StageMoves
<1>7. ASSUME NEW h \in Handler, Revoke(h) PROVE WaitInv'
      <2>1. ~ IsLogin(h) /\ call[h].stage = "revoke"
            BY <1>7 DEF Revoke, Is, WaitInv, CallOk
      <2>2. live' \cup spent' \subseteq live \cup spent
            BY <1>7 DEF Revoke
      <2>3. /\ call'[h].stage = "refused" /\ call' = [call EXCEPT ![h].stage = call'[h].stage]
            /\ UNCHANGED <<minted, store, pass>>
            BY <1>7 DEF Revoke, GoTo, TypeOK, CallRecord
      <2> QED BY <1>0, <2>1, <2>2, <2>3, StageMoves
<1>8. ASSUME NEW h \in Handler, Rotate(h) PROVE WaitInv'
      <2>1. ~ IsLogin(h) /\ call[h].stage = "rotate"
            BY <1>8 DEF Rotate, Is, WaitInv, CallOk
      <2>2. live' \cup spent' \subseteq live \cup spent
            BY <1>8 DEF Rotate, Unrotated
      <2>3. /\ call'[h].stage = "access" /\ call' = [call EXCEPT ![h].stage = call'[h].stage]
            /\ UNCHANGED <<minted, store, pass>>
            BY <1>8 DEF Rotate, GoTo, TypeOK, CallRecord
      <2> QED BY <1>0, <2>1, <2>2, <2>3, StageMoves
<1>9. ASSUME NEW h \in Handler, IssueMember(h) PROVE WaitInv'
      <2>1. Carries(h) /\ call[h].stage = "member"
            BY <1>9, Busy DEF IssueMember, Is, Carries
      <2>2. /\ call'[h].stage = "ok" /\ call' = [call EXCEPT ![h].stage = call'[h].stage]
            /\ UNCHANGED <<minted, store, pass>>
            BY <1>9 DEF IssueMember, GoTo, TypeOK, CallRecord
      <2>3. live' = live \cup {call[h].pair} /\ spent' = spent
            BY <1>9 DEF IssueMember
      <2> QED BY <1>0, <2>1, <2>2, <2>3, StageMoves
<1>10. ASSUME NEW h \in Handler, IssueAccess(h) PROVE WaitInv'
      <2> DEFINE f == call[h].family
                 p == <<f[1], f[2], minted[f] + 1>>
      <2>1. \A g \in Handler : CallOk(g) /\ WaitOk(g)
            BY DEF WaitInv
      <2>2. f \in Families /\ minted[f] \in Nat /\ (IsLogin(h) \/ IsRefresh(h))
            BY <1>10, Busy DEF IssueAccess, Is, TypeOK
      <2>3. p \in Token /\ Family(p) = f /\ p[3] = minted[f] + 1
            BY <2>2 DEF Token, Families, Family
      <2>4. /\ call'[h].stage = "member" /\ call'[h].pair = p
            /\ call'[h].kind = call[h].kind /\ call'[h].caller = call[h].caller
            /\ call'[h].family = f
            /\ \A g \in Handler \ {h} : call'[g] = call[g]
            /\ UNCHANGED <<live, spent, store, pass>>
            BY <1>10 DEF IssueAccess, TypeOK, CallRecord
      <2>5. /\ minted'[f] = minted[f] + 1
            /\ \A x \in Families : minted'[x] \in Nat /\ minted[x] \in Nat /\ minted[x] <= minted'[x]
            BY <1>10, <2>2 DEF IssueAccess, TypeOK
      <2>6. \A q \in Token : /\ Family(q) \in Families /\ q[3] \in Nat
                             /\ q[3] <= minted[Family(q)] => q[3] <= minted'[Family(q)]
            <3> SUFFICES ASSUME NEW q \in Token
                         PROVE  Family(q) \in Families /\ q[3] \in Nat
                BY <2>5
            <3> QED BY DEF Token, Family, Families
      <2>7. ASSUME NEW g \in Handler PROVE CallOk(g)'
            <3>1. CASE g = h
                  BY <2>1, <2>2, <2>3, <2>4, <2>5, <3>1
                  DEF CallOk, IsLogin, IsRefresh, Carries, Family, NoCall
            <3>2. CASE g # h
              <4>1. Carries(g) => LET q == call[g].pair
                                  IN  q \in Token /\ Family(q) = call[g].family /\ q[3] <= minted[Family(q)]
                    BY <2>1 DEF CallOk
              <4>2. Carries(g) => call[g].pair[3] <= minted'[call[g].family]
                    BY <2>6, <4>1
              <4> QED BY <2>1, <2>4, <3>2, <4>2 DEF CallOk, IsLogin, IsRefresh, Carries, Family
            <3> QED BY <3>1, <3>2
      <2>8. ASSUME NEW g \in Handler PROVE WaitOk(g)'
            BY <2>1, <2>4 DEF WaitOk, IsRefresh, Family
      <2>9. ASSUME NEW e \in Device PROVE HeldOk(e)'
            <3>1. store[e] # NoPair => store[e] \in Token
                  BY DEF TypeOK
            <3>2. (pass[e].pc = "refresh" => \E g \in Handler : IsRefresh(g) /\ call[g].caller = e)'
                  BY <2>4 DEF WaitInv, HeldOk, IsRefresh
            <3>3. HeldOk(e)
                  BY DEF WaitInv
            <3>4. /\ store[e] # NoPair => store[e][3] <= minted'[Family(store[e])]
                  /\ pass[e].pc # "idle" => pass[e].pair[3] <= minted'[Family(pass[e].pair)]
                  BY <2>6, <3>1, <3>3 DEF HeldOk
            <3> QED BY <2>4, <3>2, <3>3, <3>4 DEF HeldOk, Family, Owner
      <2>10. \A q \in (live \cup spent)' : q[3] <= (minted[Family(q)])'
            <3>1. \A q \in live \cup spent : q[3] <= minted'[Family(q)]
                  BY <2>6 DEF WaitInv, TypeOK
            <3> QED BY <2>4, <3>1 DEF Family
      <2> QED BY <2>7, <2>8, <2>9, <2>10 DEF WaitInv
<1>11. ASSUME NEW h \in Handler, AnswerPair(h) PROVE WaitInv'
      <2>1. Carries(h) /\ (IsLogin(h) \/ IsRefresh(h)) /\ ~ (IsLogin(h) /\ IsRefresh(h))
            BY <1>11, Busy DEF AnswerPair, Is, Carries, IsLogin, IsRefresh
      <2>2. \A e \in Device : \/ store'[e] = store[e]
                              \/ e = call[h].caller /\ store'[e] = call[h].pair
        <3>1. store' = [e \in Device |-> IF e = call[h].caller THEN call[h].pair ELSE store[e]]
              BY <1>11, Zenon DEF AnswerPair, Saved
        <3> QED BY <3>1
      <2>3. ASSUME NEW e \in Device
            PROVE  \/ ~ (IsRefresh(h) /\ e = call[h].caller) /\ pass'[e] = pass[e]
                   \/ /\ IsRefresh(h) /\ e = call[h].caller /\ pass'[e].pc = "work"
                      /\ pass'[e].pair = call[h].pair
        <3>1. CASE IsLogin(h)
              BY <1>11, <2>1, <3>1, Zenon DEF AnswerPair, IsLogin
        <3>2. CASE ~ IsLogin(h)
          <4>1. pass' = [x \in Device |->
                            IF x = call[h].caller
                            THEN [pass[x] EXCEPT !.pc = "work", !.pair = call[h].pair] ELSE pass[x]]
                BY <1>11, <3>2, Zenon DEF AnswerPair, IsLogin
          <4> QED BY <2>1, <3>2, <4>1 DEF TypeOK, PassRecord
        <3> QED BY <3>1, <3>2
      <2> QED BY <1>0, <1>11, <2>1, <2>2, <2>3, RequestEnds DEF AnswerPair, tokens
<1>12. ASSUME NEW h \in Handler, AnswerRefused(h) PROVE WaitInv'
      <2>1. IsRefresh(h)
            BY <1>12, Busy DEF AnswerRefused, Is, WaitInv, CallOk
      <2>2. \A e \in Device : \/ e # call[h].caller /\ pass'[e] = pass[e]
                              \/ /\ e = call[h].caller /\ pass'[e].pc = "clear"
                                 /\ pass'[e].pair = pass[e].pair
            BY <1>12 DEF AnswerRefused, TypeOK, PassRecord
      <2> QED BY <1>0, <1>12, <2>1, <2>2, RequestEnds DEF AnswerRefused, tokens
<1>13. ASSUME NEW h \in Handler, HandlerDies(h) PROVE WaitInv'
      <2>1. IsLogin(h) \/ IsRefresh(h)
            <3>1. call[h].kind # "none"
                  BY <1>13 DEF HandlerDies, WaitInv, CallOk
            <3> QED BY <3>1 DEF TypeOK, CallRecord, IsLogin, IsRefresh
      <2>2. \A e \in Device : \/ ~ (IsRefresh(h) /\ e = call[h].caller) /\ pass'[e] = pass[e]
                              \/ IsRefresh(h) /\ e = call[h].caller /\ pass'[e] = NoPass
        <3>1. CASE IsLogin(h)
              BY <1>13, <3>1 DEF HandlerDies, IsLogin, IsRefresh
        <3>2. CASE ~ IsLogin(h)
          <4>1. pass' = [x \in Device |-> IF x = call[h].caller THEN NoPass ELSE pass[x]]
                BY <1>13, <3>2, Zenon DEF HandlerDies, IsLogin
          <4> QED BY <2>1, <3>2, <4>1
        <3> QED BY <3>1, <3>2
      <2> QED BY <1>0, <1>13, <2>2, RequestEnds DEF HandlerDies, tokens
<1>14. ASSUME NEW p \in Pairs, ExpireAccess(p) \/ ExpireRefresh(p) PROVE WaitInv'
      BY <1>14 DEF ExpireAccess, ExpireRefresh, WaitInv, CallOk, WaitOk, HeldOk, Carries, IsLogin,
                   IsRefresh, Family, Owner
<1>15. ASSUME NEW d \in Device, Logout(d) PROVE WaitInv'
      BY <1>15 DEF Logout, WaitInv, CallOk, WaitOk, HeldOk, Carries, IsLogin, IsRefresh, Family, Owner
<1>16. ASSUME NEW d \in Device, RefreshLost(d) PROVE WaitInv'
      <2>1. /\ call' = Abandoned(Waiting(d, "refresh")) /\ pass' = [pass EXCEPT ![d] = NoPass]
            /\ UNCHANGED <<minted, live, spent, store>>
            BY <1>16 DEF RefreshLost, tokens
      <2>2. /\ Waiting(d, "refresh") \in SUBSET Handler
            /\ \A h \in Waiting(d, "refresh") : call[h].caller = d
            BY DEF Waiting
      <2> QED BY <1>0, <2>1, <2>2, CallerGivesUp
<1>17. ASSUME NEW d \in Device, LoginLost(d) PROVE WaitInv'
      BY <1>0, <1>17, CallerGivesUp DEF LoginLost, Waiting, tokens, IsRefresh
<1>18. ASSUME NEW d \in Device, Kill(d) PROVE WaitInv'
      <2> DEFINE H == Waiting(d, "refresh") \cup Waiting(d, "login")
      <2>1. /\ call' = Abandoned(H) /\ pass' = [pass EXCEPT ![d] = NoPass]
            /\ UNCHANGED <<minted, live, spent, store>>
            BY <1>18 DEF Kill, tokens
      <2>2. /\ H \in SUBSET Handler /\ Waiting(d, "refresh") \subseteq H
            /\ \A h \in H : call[h].caller = d
            BY DEF Waiting
      <2> HIDE DEF H
      <2> QED BY <1>0, <2>1, <2>2, CallerGivesUp
<1>19. CASE UNCHANGED vars
      BY <1>19 DEF vars, tokens, WaitInv, CallOk, WaitOk, HeldOk, Carries, IsLogin, IsRefresh,
                   Family, Owner
<1> QED BY <1>1, <1>2, <1>3, <1>4, <1>5, <1>6, <1>7, <1>8, <1>9, <1>10, <1>11, <1>12, <1>13,
           <1>14, <1>15, <1>16, <1>17, <1>18, <1>19
        DEF Next, PassStep, HandlerStep

\* No request starts, none comes to redeem a pair, and no pair about to be
\* redeemed is spent.
LEMMA RaceFrame ==
    ASSUME TypeOK, TypeOK', RaceInv, raced \subseteq raced',
           \A h \in Handler :
               /\ call'[h].kind # "none" => call[h].kind # "none" /\ call'[h].family = call[h].family
               /\ call'[h].stage = "rotate" =>
                     /\ call[h].stage = "rotate" /\ call'[h].family = call[h].family
                     /\ call'[h].pair = call[h].pair
                     /\ call[h].pair \in spent' => call[h].pair \in spent \/ call[h].family \in raced
    PROVE  RaceInv'
<1>1. ASSUME NEW g \in Handler, NEW h \in Handler, g # h, call'[g].kind # "none",
             call'[h].kind # "none", call'[g].family = call'[h].family
      PROVE  call'[h].family \in raced'
      <2>1. call[g].kind # "none" /\ call[h].kind # "none" /\ call[g].family = call[h].family
            BY <1>1
      <2>2. call[h].family \in raced
            BY <1>1, <2>1 DEF RaceInv
      <2> QED BY <1>1, <2>2
<1>2. ASSUME NEW h \in Handler, call'[h].stage = "rotate"
      PROVE  call'[h].pair \notin spent' \/ call'[h].family \in raced'
      BY <1>2 DEF RaceInv
<1> QED BY <1>1, <1>2 DEF RaceInv

LEMMA RaceStep == TypeOK /\ WaitInv /\ RaceInv /\ [Next]_vars => RaceInv'
<1> SUFFICES ASSUME TypeOK, WaitInv, RaceInv, [Next]_vars PROVE RaceInv'
    OBVIOUS
<1>0. TypeOK'
      BY SessionTypeStep
<1>1. ASSUME UNCHANGED <<call, raced>>, spent' \subseteq spent PROVE RaceInv'
      BY <1>0, <1>1, RaceFrame
<1>2. ASSUME NEW d \in Device, NEW h \in Handler, AskRefresh(d, h) PROVE RaceInv'
      <2> DEFINE f == Family(pass[d].pair)
      <2>1. /\ call'[h].family = f /\ call'[h].kind = "refresh" /\ call'[h].stage = "select"
            /\ call[h].kind = "none"
            /\ \A g \in Handler \ {h} : call'[g] = call[g]
            /\ spent' = spent
            BY <1>2 DEF AskRefresh, TypeOK, NoCall, tokens
      <2>2. raced' = IF \E g \in Handler : call[g].family = f THEN raced \cup {f} ELSE raced
            BY <1>2, Zenon DEF AskRefresh
      <2>3. raced \subseteq raced' /\ \A g \in Handler : call[g].family = f => f \in raced'
            BY <2>2
      <2> HIDE DEF f
      <2> QED BY <2>1, <2>3 DEF RaceInv
<1>3. ASSUME NEW d \in Device, NEW h \in Handler, Login(d, h) PROVE RaceInv'
      <2>1. PICK k \in 1..MaxLogins :
              /\ call' = [call EXCEPT ![h] = [kind |-> "login", caller |-> d, family |-> <<d, k>>,
                                              pair |-> NoPair, stage |-> "access"]]
              /\ \A g \in Handler : call[g].family # <<d, k>>
            BY <1>3 DEF Login
      <2>2. /\ call'[h].family = <<d, k>> /\ call'[h].stage = "access"
            /\ \A g \in Handler \ {h} : call'[g] = call[g]
            /\ UNCHANGED <<spent, raced>>
            BY <1>3, <2>1 DEF Login, TypeOK, tokens
      <2> QED BY <2>1, <2>2 DEF RaceInv
<1>4. ASSUME NEW h \in Handler, Select(h) PROVE RaceInv'
      <2>1. /\ \A g \in Handler \ {h} : call'[g] = call[g]
            /\ call'[h].kind = call[h].kind /\ call'[h].family = call[h].family
            /\ call'[h].pair = call[h].pair
            /\ UNCHANGED <<spent, raced>>
            BY <1>4 DEF Select, GoTo, TypeOK, CallRecord, tokens
      <2>2. call'[h].stage = "rotate" => call[h].pair \notin spent
            BY <1>4 DEF Select, GoTo, TypeOK, CallRecord, Unusable
      <2> QED BY <2>1, <2>2 DEF RaceInv
<1>5. ASSUME NEW h \in Handler, Rotate(h) PROVE RaceInv'
      <2>1. /\ \A g \in Handler \ {h} : call'[g] = call[g]
            /\ call'[h].kind = call[h].kind /\ call'[h].family = call[h].family
            /\ call'[h].stage = "access"
            /\ spent' \subseteq spent \cup {call[h].pair} /\ raced' = raced
            BY <1>5 DEF Rotate, GoTo, TypeOK, CallRecord
      <2>2. IsRefresh(h) /\ call[h].kind # "none"
            BY <1>5, Busy DEF Rotate, Is, WaitInv, CallOk
      <2>3. ASSUME NEW g \in Handler \ {h}, call[g].stage = "rotate", call[g].pair = call[h].pair
            PROVE  call[g].family \in raced
        <3>1. IsRefresh(g) /\ call[g].kind # "none"
              BY <2>3, Busy DEF WaitInv, CallOk
        <3>2. call[g].family = call[h].family
              BY <2>2, <2>3, <3>1 DEF WaitInv, CallOk, Carries
        <3> QED BY <2>2, <3>1, <3>2 DEF RaceInv
      <2> QED BY <1>0, <2>1, <2>3, RaceFrame
<1>6. ASSUME NEW h \in Handler,
             Revoke(h) \/ IssueAccess(h) \/ IssueMember(h) \/ AnswerPair(h) \/ AnswerRefused(h)
             \/ HandlerDies(h)
      PROVE  RaceInv'
      <2>1. \A g \in Handler \ {h} : call'[g] = call[g]
            BY <1>6 DEF Revoke, IssueAccess, IssueMember, AnswerPair, AnswerRefused, HandlerDies,
                        GoTo, TypeOK
      <2>2. \/ call'[h] = NoCall
            \/ /\ call'[h].kind = call[h].kind /\ call'[h].family = call[h].family
               /\ call'[h].stage \in {"refused", "member", "ok"}
        <3>1. CASE AnswerPair(h) \/ AnswerRefused(h) \/ HandlerDies(h)
              BY <3>1 DEF AnswerPair, AnswerRefused, HandlerDies, TypeOK
        <3>2. CASE Revoke(h) \/ IssueMember(h)
              BY <3>2 DEF Revoke, IssueMember, GoTo, TypeOK, CallRecord
        <3>3. CASE IssueAccess(h)
              BY <3>3 DEF IssueAccess, TypeOK, CallRecord
        <3> QED BY <1>6, <3>1, <3>2, <3>3
      <2>3. spent' \subseteq spent /\ raced' = raced
            BY <1>6 DEF Revoke, IssueAccess, IssueMember, AnswerPair, AnswerRefused, HandlerDies,
                        tokens
      <2> QED BY <1>0, <2>1, <2>2, <2>3, RaceFrame DEF NoCall
<1>7. ASSUME NEW H \in SUBSET Handler, call' = Abandoned(H), spent' = spent, raced' = raced
      PROVE  RaceInv'
      <2>1. \A g \in Handler :
              /\ call'[g].kind = call[g].kind /\ call'[g].family = call[g].family
              /\ call'[g].pair = call[g].pair /\ call'[g].stage = call[g].stage
            BY <1>7 DEF TypeOK, CallRecord, Abandoned
      <2> QED BY <1>0, <1>7, <2>1, RaceFrame
<1>8. ASSUME NEW d \in Device, RefreshLost(d) \/ LoginLost(d) \/ Kill(d) PROVE RaceInv'
      <2>1. /\ {Waiting(d, "refresh"), Waiting(d, "login"),
                Waiting(d, "refresh") \cup Waiting(d, "login")} \subseteq SUBSET Handler
            /\ \/ call' = Abandoned(Waiting(d, "refresh"))
               \/ call' = Abandoned(Waiting(d, "login"))
               \/ call' = Abandoned(Waiting(d, "refresh") \cup Waiting(d, "login"))
            /\ spent' = spent /\ raced' = raced
            BY <1>8 DEF RefreshLost, LoginLost, Kill, Waiting, tokens
      <2> QED BY <1>7, <2>1
<1>9. ASSUME NEW d \in Device,
             \/ Cool(d) \/ StartPass(d) \/ UseAccess(d) \/ Work(d) \/ Denied(d) \/ Fails(d)
             \/ Clear(d) \/ Logout(d)
      PROVE  RaceInv'
      BY <1>1, <1>9 DEF Cool, StartPass, UseAccess, Work, Denied, Fails, Clear, Logout, tokens
<1>10. ASSUME NEW p \in Pairs, ExpireAccess(p) \/ ExpireRefresh(p) PROVE RaceInv'
      BY <1>1, <1>10 DEF ExpireAccess, ExpireRefresh
<1>11. CASE UNCHANGED vars
      BY <1>1, <1>11 DEF vars, tokens
<1> QED BY <1>2, <1>3, <1>4, <1>5, <1>6, <1>8, <1>9, <1>10, <1>11
        DEF Next, PassStep, HandlerStep

----------------------------------------------------------------------------
(* OpenIsQuiet and RedeemedOnce.                                            *)

LEMMA QuietStep == TypeOK /\ WaitInv /\ OpenIsQuiet /\ [Next]_vars => OpenIsQuiet'
<1> SUFFICES ASSUME TypeOK, WaitInv, OpenIsQuiet, [Next]_vars, NEW e \in Device,
                    breaker'[e].state = "OPEN"
             PROVE  pass'[e].pc \in {"idle", "clear"}
    BY DEF OpenIsQuiet
<1> DEFINE Quiet == pass'[e].pc \in {"idle", "clear"}
<1>1. ASSUME breaker'[e] = breaker[e], pass'[e] = pass[e] PROVE Quiet
      BY <1>1 DEF OpenIsQuiet
<1>2. ASSUME NEW d \in Device, Cool(d) PROVE Quiet
      BY <1>2, <1>1 DEF Cool, TypeOK
<1>3. ASSUME NEW d \in Device, StartPass(d) PROVE Quiet
      BY <1>3, <1>1 DEF StartPass, TypeOK, CanAttempt
<1>4. ASSUME NEW d \in Device, UseAccess(d) PROVE Quiet
      BY <1>4, <1>1 DEF UseAccess, TypeOK, OpenIsQuiet
<1>5. ASSUME NEW d \in Device, NEW h \in Handler, AskRefresh(d, h) PROVE Quiet
      BY <1>5, <1>1 DEF AskRefresh, TypeOK, OpenIsQuiet
<1>6. ASSUME NEW d \in Device, Work(d) PROVE Quiet
      BY <1>6, <1>1 DEF Work, TypeOK, RecordSuccess, Closed
<1>7. ASSUME NEW d \in Device, Denied(d) PROVE Quiet
      BY <1>7, <1>1 DEF Denied, TypeOK, PassRecord
<1>8. ASSUME NEW d \in Device, Fails(d) PROVE Quiet
      <2>1. CASE e = d
        <3>1. CASE Retries(RecordFailure(breaker[d]), pass[d].tries)
              BY <1>8, <2>1, <3>1 DEF Fails, TypeOK, Retries, CanAttempt
        <3>2. CASE ~ Retries(RecordFailure(breaker[d]), pass[d].tries)
              BY <1>8, <2>1, <3>2 DEF Fails, TypeOK, NoPass
        <3> QED BY <3>1, <3>2
      <2>2. CASE e # d
            BY <1>8, <2>2, <1>1 DEF Fails, TypeOK
      <2> QED BY <2>1, <2>2
<1>9. ASSUME NEW d \in Device, Clear(d) PROVE Quiet
      BY <1>9, <1>1 DEF Clear, TypeOK, NoPass
<1>10. ASSUME NEW h \in Handler, AnswerPair(h) PROVE Quiet
      <2>1. breaker' = breaker
            BY <1>10 DEF AnswerPair
      <2>2. CASE pass'[e] = pass[e]
            BY <1>1, <2>1, <2>2
      <2>3. CASE pass'[e] # pass[e]
        <3>1. IsRefresh(h) /\ call[h].caller = e
              BY <1>10, <2>3, Busy DEF AnswerPair, Is, IsLogin
        <3>2. pass[e].pc = "refresh"
              BY <3>1, NamesAssumption DEF WaitInv, WaitOk
        <3> QED BY <2>1, <3>2 DEF OpenIsQuiet
      <2> QED BY <2>2, <2>3
<1>11. ASSUME NEW h \in Handler, AnswerRefused(h) PROVE Quiet
      BY <1>11, <1>1 DEF AnswerRefused, TypeOK, PassRecord
<1>12. ASSUME NEW h \in Handler, HandlerDies(h) PROVE Quiet
      BY <1>12, <1>1 DEF HandlerDies, TypeOK, NoPass
<1>13. ASSUME NEW d \in Device, RefreshLost(d) \/ Kill(d) PROVE Quiet
      BY <1>13, <1>1 DEF RefreshLost, Kill, TypeOK, NoPass
<1>14. ASSUME UNCHANGED <<pass, breaker>> PROVE Quiet
      BY <1>1, <1>14
<1>15. ASSUME NEW d \in Device, Logout(d) \/ LoginLost(d) \/ (\E h \in Handler : Login(d, h))
       PROVE  Quiet
      BY <1>14, <1>15 DEF Logout, LoginLost, Login
<1>16. ASSUME NEW h \in Handler,
              Select(h) \/ Revoke(h) \/ Rotate(h) \/ IssueAccess(h) \/ IssueMember(h)
       PROVE  Quiet
      BY <1>14, <1>16 DEF Select, Revoke, Rotate, IssueAccess, IssueMember
<1>17. ASSUME NEW p \in Pairs, ExpireAccess(p) \/ ExpireRefresh(p) PROVE Quiet
      BY <1>14, <1>17 DEF ExpireAccess, ExpireRefresh
<1>18. CASE UNCHANGED vars
      BY <1>14, <1>18 DEF vars
<1> QED BY <1>2, <1>3, <1>4, <1>5, <1>6, <1>7, <1>8, <1>9, <1>10, <1>11, <1>12, <1>13, <1>15,
           <1>16, <1>17, <1>18
        DEF Next, PassStep, HandlerStep

LEMMA SessionInvariants == Spec => [](TypeOK /\ WaitInv /\ RaceInv)
<1>1. TypeOK /\ WaitInv /\ RaceInv /\ [Next]_vars => (TypeOK /\ WaitInv /\ RaceInv)'
      BY SessionTypeStep, WaitStep, RaceStep
<1> QED BY <1>1, SessionInit, PTL DEF Spec

\* Every variable stays in its type, whatever devices and handlers there are.
THEOREM SessionTypes == Spec => []TypeOK
  BY SessionInvariants, PTL

\* circuitBreaker.ts: while the circuit is open the device sends nothing, a pass
\* that was under way when it opened included.
THEOREM OpenCircuitIsQuiet == Spec => []OpenIsQuiet
<1>1. Init => OpenIsQuiet
      BY DEF Init, OpenIsQuiet, Closed
<1> QED BY <1>1, SessionInvariants, QuietStep, PTL DEF Spec

\* tokens.ts: a refresh token can only ever be redeemed once, unless two requests
\* of its family ran at once; however many requests the server works on.
THEOREM RefreshRedeemedOnce == Spec => RedeemedOnce
<1>1. RaceInv => \A h \in Handler :
                   Is(h, "rotate") /\ call'[h].stage = "access"
                   => call[h].pair \notin spent \/ call[h].family \in raced
      BY DEF RaceInv, Is
<1>2. RaceInv => [\A h \in Handler :
                   Is(h, "rotate") /\ call'[h].stage = "access"
                   => call[h].pair \notin spent \/ call[h].family \in raced]_vars
      BY <1>1
<1> QED BY <1>2, SessionInvariants, PTL DEF RedeemedOnce

----------------------------------------------------------------------------
(* Which pairs are good.                                                    *)

\* No device and no other handler has the pair h has minted.
FreshOk(h) ==
    call[h].stage \in {"member", "ok"} =>
        /\ \A d \in Device : /\ store[d] = call[h].pair => store[d] = NoPair
                             /\ pass[d].pc # "idle" => pass[d].pair # call[h].pair
        /\ \A g \in Handler : g # h /\ Carries(g) => call[g].pair # call[h].pair
        /\ call[h].pair \notin spent

\* A login's family is its own.
LoginOk(h) ==
    IsLogin(h) =>
        /\ \A g \in Handler : g # h /\ call[g].kind # "none" => call[g].family # call[h].family
        /\ \A d \in Device : /\ store[d] # NoPair => Family(store[d]) # call[h].family
                             /\ pass[d].pc # "idle" => Family(pass[d].pair) # call[h].family
        /\ call[h].stage = "access" => minted[call[h].family] = 0

\* In a family nothing has happened to, a refresh nobody waits for is not to be
\* found, none is refused, and the pair to redeem and the pair to answer are live.
RefreshOk(h) ==
    call[h].kind # "none" /\ call[h].family \notin hurt =>
        /\ IsRefresh(h) => call[h].caller # NoOne /\ call[h].stage \notin {"revoke", "refused"}
        /\ call[h].stage \in {"select", "rotate", "ok"} => call[h].pair \in live

\* What a device holds is live, but for the pair it is redeeming, and its pass
\* works with the pair it has stored, unless a login has stored another.
AliveOk(d) ==
    /\ store[d] # NoPair /\ Family(store[d]) \notin hurt
       => store[d] \in live \/ (pass[d].pc = "refresh" /\ pass[d].pair = store[d])
    /\ pass[d].pc \in {"choose", "work"} /\ Family(pass[d].pair) \notin hurt
       => pass[d].pair \in live
    /\ /\ pass[d].pc \in {"choose", "work", "refresh"} /\ store[d] # NoPair
       /\ Family(pass[d].pair) = Family(store[d]) /\ Family(store[d]) \notin hurt
       => pass[d].pair = store[d]

AliveInv ==
    /\ \A h \in Handler : FreshOk(h) /\ LoginOk(h) /\ RefreshOk(h)
    /\ \A d \in Device : AliveOk(d)
    /\ live \cap spent = {}

LEMMA AliveInit == Init => AliveInv
  BY DEF Init, AliveInv, FreshOk, LoginOk, RefreshOk, AliveOk, NoCall, NoPass, IsLogin

\* A step in which things only go wrong: tokens vanish and their families are
\* hurt, requests end or go on with what they have, passes end or go on likewise.
\* A pass that ends while it is redeeming leaves its family hurt.
LEMMA Losses ==
    ASSUME TypeOK, WaitInv, AliveInv, UNCHANGED minted,
           live' \subseteq live, spent' \subseteq spent, hurt \subseteq hurt',
           \A p \in live \ live' : Family(p) \in hurt',
           \A h \in Handler :
               \/ call'[h] = NoCall
               \/ /\ call'[h].kind = call[h].kind /\ call'[h].family = call[h].family
                  /\ call'[h].pair = call[h].pair
                  /\ call'[h].caller # call[h].caller /\ IsRefresh(h) => call[h].family \in hurt'
                  /\ \/ call'[h].stage = call[h].stage
                     \/ call'[h].stage = "rotate" /\ call[h].stage = "select"
                     \/ /\ IsRefresh(h) /\ call[h].family \in hurt'
                        /\ call'[h].stage \in {"revoke", "refused"},
           \A e \in Device :
               /\ store'[e] \in {store[e], NoPair}
               /\ \/ pass'[e] = pass[e]
                  \/ pass'[e] = NoPass \/ (pass'[e].pc = "clear" /\ pass'[e].pair = pass[e].pair)
                  \/ /\ pass[e].pc \in {"choose", "work"} /\ pass'[e].pc \in {"choose", "work"}
                     /\ pass'[e].pair = pass[e].pair
               /\ pass[e].pc = "refresh" /\ pass'[e].pc # "refresh"
                  => Family(pass[e].pair) \in hurt' \/ store'[e] = NoPair,
           \A e \in Device : pass'[e].pc # "idle" => pass[e].pc # "idle"
    PROVE  AliveInv'
<1>1. \A h \in Handler : FreshOk(h) /\ LoginOk(h) /\ RefreshOk(h)
      BY DEF AliveInv
<1>2. \A h \in Handler : call'[h].kind # "none" =>
        /\ call'[h].kind = call[h].kind /\ call'[h].family = call[h].family
        /\ call'[h].pair = call[h].pair
        /\ Carries(h)' => Carries(h)
        /\ call'[h].stage \in {"member", "ok", "access"} => call'[h].stage = call[h].stage
      BY DEF NoCall, Carries, IsLogin, IsRefresh
<1>3. \A h \in Handler : call'[h].stage # "free" => call'[h].kind # "none" /\ call[h].kind # "none"
      <2> SUFFICES ASSUME NEW h \in Handler, call'[h].stage # "free" PROVE call'[h].kind # "none" /\ call[h].kind # "none"
          OBVIOUS
      <2>1. call'[h] # NoCall
            BY DEF NoCall
      <2>2. CallOk(h)
            BY DEF WaitInv
      <2>3. call[h].kind = "none" => FALSE
            BY <2>1, <2>2 DEF CallOk, NoCall, IsRefresh
      <2> QED BY <2>1, <2>3
<1>4. ASSUME NEW h \in Handler PROVE FreshOk(h)'
      <2> SUFFICES ASSUME call'[h].stage \in {"member", "ok"} PROVE FreshOk(h)'
          BY DEF FreshOk
      <2>1. call'[h].kind # "none" /\ call'[h].stage = call[h].stage /\ call'[h].pair = call[h].pair
            BY <1>2, <1>3
      <2>2. \A g \in Handler : Carries(g)' => Carries(g) /\ call'[g].pair = call[g].pair
            BY <1>2 DEF Carries, IsLogin, IsRefresh
      <2>3. FreshOk(h)
            BY <1>1
      <2>4. \A e \in Device : pass'[e].pc # "idle" => pass'[e].pair = pass[e].pair
            BY DEF NoPass
      <2> QED BY <2>1, <2>2, <2>3, <2>4 DEF FreshOk
<1>5. ASSUME NEW h \in Handler PROVE LoginOk(h)'
      <2> SUFFICES ASSUME IsLogin(h)' PROVE LoginOk(h)'
          BY DEF LoginOk
      <2>1. IsLogin(h) /\ call'[h].family = call[h].family /\ LoginOk(h)
            BY <1>1, <1>2 DEF IsLogin
      <2>2. call'[h].stage = "access" => call[h].stage = "access"
            BY <1>2 DEF IsLogin
      <2>3. \A e \in Device : pass'[e].pc # "idle" => pass'[e].pair = pass[e].pair
            BY DEF NoPass
      <2>4. \A g \in Handler : call'[g].kind # "none"
                               => call[g].kind # "none" /\ call'[g].family = call[g].family
            BY <1>2
      <2> QED BY <2>1, <2>2, <2>3, <2>4 DEF LoginOk, Family
<1>6. ASSUME NEW h \in Handler PROVE RefreshOk(h)'
      <2> SUFFICES ASSUME call'[h].kind # "none", call'[h].family \notin hurt' PROVE RefreshOk(h)'
          BY DEF RefreshOk
      <2>1. /\ call'[h].kind = call[h].kind /\ call'[h].family = call[h].family
            /\ call'[h].pair = call[h].pair /\ call[h].family \notin hurt
            BY <1>2
      <2>2. call'[h] # NoCall
            BY DEF NoCall
      <2>3. /\ IsRefresh(h) => call'[h].caller = call[h].caller
            /\ \/ call'[h].stage = call[h].stage
               \/ call'[h].stage = "rotate" /\ call[h].stage = "select"
            BY <2>1, <2>2
      <2>4. call[h].pair \in live /\ Carries(h) => call[h].pair \in live'
            <3>1. Carries(h) => Family(call[h].pair) = call[h].family
                  BY DEF WaitInv, CallOk
            <3> QED BY <3>1, <2>1
      <2>5. call[h].stage \in {"select", "rotate", "ok"} => Carries(h)
            BY Busy DEF WaitInv, CallOk, Carries
      <2>6. RefreshOk(h)
            BY <1>1
      <2> QED BY <2>1, <2>3, <2>4, <2>5, <2>6 DEF RefreshOk, IsRefresh
<1>7. ASSUME NEW e \in Device PROVE AliveOk(e)'
      <2>1. AliveOk(e)
            BY DEF AliveInv
      <2>2. \A p \in live : Family(p) \notin hurt' => p \in live'
            OBVIOUS
      <2>3. (store[e] # NoPair /\ Family(store[e]) \notin hurt
             => store[e] \in live \/ (pass[e].pc = "refresh" /\ pass[e].pair = store[e]))'
            <3> SUFFICES ASSUME store'[e] # NoPair, Family(store'[e]) \notin hurt'
                         PROVE  store'[e] \in live' \/ (pass'[e].pc = "refresh" /\ pass'[e].pair = store'[e])
                BY DEF Family
            <3>1. store'[e] = store[e] /\ Family(store[e]) \notin hurt
                  OBVIOUS
            <3>2. CASE store[e] \in live
                  BY <2>2, <3>1, <3>2
            <3>3. CASE pass[e].pc = "refresh" /\ pass[e].pair = store[e]
                  BY <3>1, <3>3 DEF NoPass
            <3> QED BY <2>1, <3>1, <3>2, <3>3 DEF AliveOk
      <2>4. (pass[e].pc \in {"choose", "work"} /\ Family(pass[e].pair) \notin hurt
             => pass[e].pair \in live)'
            BY <2>1, <2>2 DEF AliveOk, Family, NoPass
      <2>5. (/\ pass[e].pc \in {"choose", "work", "refresh"} /\ store[e] # NoPair
             /\ Family(pass[e].pair) = Family(store[e]) /\ Family(store[e]) \notin hurt
             => pass[e].pair = store[e])'
            BY <2>1 DEF AliveOk, Family, NoPass
      <2> QED BY <2>3, <2>4, <2>5 DEF AliveOk
<1>8. (live \cap spent = {})'
      BY DEF AliveInv
<1> QED BY <1>4, <1>5, <1>6, <1>7, <1>8 DEF AliveInv

\* What the steps that hand tokens on leave as it was.
LEMMA AliveStep == TypeOK /\ WaitInv /\ AliveInv /\ [Next]_vars => AliveInv'
<1> SUFFICES ASSUME TypeOK, WaitInv, AliveInv, [Next]_vars PROVE AliveInv'
    OBVIOUS
<1>0. /\ \A h \in Handler : FreshOk(h) /\ LoginOk(h) /\ RefreshOk(h) /\ CallOk(h) /\ WaitOk(h)
      /\ \A e \in Device : AliveOk(e) /\ HeldOk(e)
      /\ live \cap spent = {}
      BY DEF AliveInv, WaitInv
<1>1. ASSUME NEW d \in Device, StartPass(d) PROVE AliveInv'
      <2>1. /\ pass[d].pc = "idle" /\ store[d] # NoPair
            /\ pass'[d].pc = "choose" /\ pass'[d].pair = store[d]
            /\ \A e \in Device \ {d} : pass'[e] = pass[e]
            /\ UNCHANGED <<access, live, spent, minted, call, store, hurt>>
            BY <1>1 DEF StartPass, TypeOK, PassRecord, NoPass, tokens
      <2>2. ASSUME NEW h \in Handler PROVE FreshOk(h)' /\ LoginOk(h)' /\ RefreshOk(h)'
            BY <1>0, <2>1 DEF FreshOk, LoginOk, RefreshOk, Carries, IsLogin, IsRefresh, Family
      <2>3. ASSUME NEW e \in Device PROVE AliveOk(e)'
            BY <1>0, <2>1 DEF AliveOk, Family
      <2> QED BY <1>0, <2>1, <2>2, <2>3 DEF AliveInv
<1>2. ASSUME NEW d \in Device, NEW h \in Handler, AskRefresh(d, h) PROVE AliveInv'
      <2> DEFINE p == pass[d].pair
      <2>1. /\ call'[h] = [kind |-> "refresh", caller |-> d, family |-> Family(p), pair |-> p,
                           stage |-> "select"]
            /\ \A g \in Handler \ {h} : call'[g] = call[g]
            /\ pass[d].pc = "choose" /\ pass'[d].pc = "refresh" /\ pass'[d].pair = p
            /\ \A e \in Device \ {d} : pass'[e] = pass[e]
            /\ UNCHANGED <<live, spent, minted, store, hurt>>
            BY <1>2 DEF AskRefresh, TypeOK, PassRecord, tokens
      <2>2. ASSUME NEW g \in Handler PROVE FreshOk(g)'
            BY <1>0, <2>1 DEF FreshOk, Carries, IsLogin, IsRefresh, Family
      <2>3. ASSUME NEW g \in Handler PROVE LoginOk(g)'
            BY <1>0, <2>1 DEF LoginOk, IsLogin, Family
      <2>4. ASSUME NEW g \in Handler PROVE RefreshOk(g)'
            <3>1. CASE g = h
              <4>1. Family(p) \notin hurt => p \in live
                    BY <1>0, <2>1 DEF AliveOk
              <4>2. d # NoOne
                    BY NamesAssumption
              <4> QED BY <2>1, <3>1, <4>1, <4>2 DEF RefreshOk
            <3>2. CASE g # h
                  BY <1>0, <2>1, <3>2 DEF RefreshOk, IsRefresh
            <3> QED BY <3>1, <3>2
      <2>5. ASSUME NEW e \in Device PROVE AliveOk(e)'
            BY <1>0, <2>1 DEF AliveOk, Family
      <2> QED BY <1>0, <2>1, <2>2, <2>3, <2>4, <2>5 DEF AliveInv
<1>3. ASSUME NEW d \in Device, NEW h \in Handler, Login(d, h) PROVE AliveInv'
      <2>1. PICK k \in 1..MaxLogins :
              /\ minted[<<d, k>>] = 0
              /\ \A g \in Handler : call[g].family # <<d, k>>
              /\ call' = [call EXCEPT ![h] = [kind |-> "login", caller |-> d, family |-> <<d, k>>,
                                              pair |-> NoPair, stage |-> "access"]]
            BY <1>3 DEF Login
      <2>2. /\ call'[h] = [kind |-> "login", caller |-> d, family |-> <<d, k>>,
                           pair |-> NoPair, stage |-> "access"]
            /\ \A g \in Handler \ {h} : call'[g] = call[g]
            /\ UNCHANGED <<live, spent, minted, store, pass, hurt>>
            BY <1>3, <2>1 DEF Login, TypeOK, tokens
      <2>3. \A q \in Token : q[3] <= minted[Family(q)] => Family(q) # <<d, k>>
        <3> SUFFICES ASSUME NEW q \in Token, q[3] <= 0 PROVE FALSE
            BY <2>1
        <3> QED BY DEF Token
      <2>4. \A e \in Device : /\ store[e] # NoPair => Family(store[e]) # <<d, k>>
                              /\ pass[e].pc # "idle" => Family(pass[e].pair) # <<d, k>>
            BY <1>0, <2>3 DEF HeldOk, TypeOK
      <2>5. ASSUME NEW g \in Handler PROVE FreshOk(g)'
            BY <1>0, <2>2 DEF FreshOk, Carries, IsLogin, IsRefresh
      <2>6. ASSUME NEW g \in Handler PROVE LoginOk(g)'
            <3>1. CASE g = h
                  BY <2>1, <2>2, <2>4, <3>1 DEF LoginOk, IsLogin, Family
            <3>2. CASE g # h
                  BY <1>0, <2>1, <2>2, <3>2 DEF LoginOk, IsLogin, Family
            <3> QED BY <3>1, <3>2
      <2>7. ASSUME NEW g \in Handler PROVE RefreshOk(g)'
            BY <1>0, <2>2 DEF RefreshOk, IsRefresh
      <2>8. ASSUME NEW e \in Device PROVE AliveOk(e)'
            BY <1>0, <2>2 DEF AliveOk, Family
      <2> QED BY <1>0, <2>2, <2>5, <2>6, <2>7, <2>8 DEF AliveInv
<1>4. ASSUME NEW h \in Handler, Rotate(h) PROVE AliveInv'
      <2> DEFINE p == call[h].pair
                 f == call[h].family
      <2>1. /\ call'[h].kind = call[h].kind /\ call'[h].caller = call[h].caller
            /\ call'[h].family = f /\ call'[h].pair = p
            /\ call[h].stage = "rotate" /\ call'[h].stage = "access"
            /\ \A g \in Handler \ {h} : call'[g] = call[g]
            /\ UNCHANGED <<minted, store, pass, hurt>>
            /\ live' = live \ {p} /\ spent' \subseteq spent \cup {p}
            BY <1>4 DEF Rotate, Unrotated, Is, GoTo, TypeOK, CallRecord
      <2>2. IsRefresh(h) /\ Carries(h) /\ Family(p) = f /\ call[h].kind # "none"
            BY <1>0, <2>1, Busy DEF CallOk, Carries
      <2>9. f[1] = p[1]
            BY <2>2 DEF Family
      <2>3. f \notin hurt => /\ call[h].caller = f[1] /\ call[h].caller \in Device
                             /\ pass[f[1]].pc = "refresh" /\ pass[f[1]].pair = p
            <3> SUFFICES ASSUME f \notin hurt
                         PROVE  /\ call[h].caller = f[1] /\ call[h].caller \in Device
                                /\ pass[f[1]].pc = "refresh" /\ pass[f[1]].pair = p
                OBVIOUS
            <3>1. call[h].caller # NoOne /\ call[h].caller \in Device
                  BY <1>0, <2>2 DEF RefreshOk, TypeOK, CallRecord
            <3>2. call[h].caller = f[1]
                  BY <1>0, <2>2, <3>1 DEF CallOk
            <3> QED BY <1>0, <2>1, <2>2, <3>1, <3>2 DEF WaitOk
      <2>4. ASSUME NEW g \in Handler PROVE FreshOk(g)'
            BY <1>0, <2>1, <2>2 DEF FreshOk, Carries, IsLogin, IsRefresh
      <2>5. ASSUME NEW g \in Handler PROVE LoginOk(g)'
            <3>1. IsLogin(g)' => IsLogin(g) /\ g # h /\ call'[g] = call[g]
                  BY <2>1, <2>2 DEF IsLogin, IsRefresh
            <3>2. \A x \in Handler : call'[x].kind = call[x].kind /\ call'[x].family = call[x].family
                  BY <2>1
            <3> QED BY <1>0, <2>1, <3>1, <3>2 DEF LoginOk, Family
      <2>6. ASSUME NEW g \in Handler PROVE RefreshOk(g)'
            <3>1. CASE g = h
                  BY <1>0, <2>1, <3>1 DEF RefreshOk, IsRefresh
            <3>2. CASE g # h
              <4>1. ASSUME call[g].kind # "none", call[g].family \notin hurt,
                           call[g].stage \in {"select", "rotate", "ok"}, call[g].pair = p
                    PROVE  FALSE
                <5>1. CASE call[g].stage = "ok"
                      BY <1>0, <2>2, <3>2, <4>1, <5>1 DEF FreshOk
                <5>2. CASE call[g].stage # "ok"
                  <6>1. IsRefresh(g)
                        BY <1>0, <4>1, <5>2, Busy DEF CallOk
                  <6>2. call[g].family = f
                        BY <1>0, <2>2, <4>1, <6>1 DEF CallOk, Carries
                  <6>3. call[g].caller = f[1]
                        BY <1>0, <4>1, <6>1, <6>2 DEF CallOk, RefreshOk
                  <6> QED BY <1>0, <2>2, <2>3, <3>2, <4>1, <6>1, <6>2, <6>3, NamesAssumption DEF WaitOk
                <5> QED BY <5>1, <5>2
              <4> QED BY <1>0, <2>1, <3>2, <4>1 DEF RefreshOk, IsRefresh
            <3> QED BY <3>1, <3>2
      <2>7. ASSUME NEW e \in Device PROVE AliveOk(e)'
            <3>1. store[e] = p /\ store[e] # NoPair /\ f \notin hurt
                  => pass[e].pc = "refresh" /\ pass[e].pair = store[e]
              <4> SUFFICES ASSUME store[e] = p, store[e] # NoPair, f \notin hurt
                           PROVE  e = f[1]
                  BY <2>3
              <4> QED BY <1>0, <2>9 DEF HeldOk, Owner
            <3>2. pass[e].pc \in {"choose", "work"} /\ pass[e].pair = p => f \in hurt
              <4> SUFFICES ASSUME pass[e].pc \in {"choose", "work"}, pass[e].pair = p PROVE e = f[1]
                  BY <2>3
              <4> QED BY <1>0, <2>9 DEF HeldOk, Owner
            <3> QED BY <1>0, <2>1, <2>2, <3>1, <3>2 DEF AliveOk, Family
      <2>8. (live \cap spent = {})'
            BY <1>0, <2>1
      <2> QED BY <2>4, <2>5, <2>6, <2>7, <2>8 DEF AliveInv
<1>5. ASSUME NEW h \in Handler, IssueAccess(h) PROVE AliveInv'
      <2> DEFINE f == call[h].family
                 p == <<f[1], f[2], minted[f] + 1>>
      <2>1. call[h].stage = "access" /\ f \in Families /\ minted[f] \in Nat /\ call[h].kind # "none"
            BY <1>5, Busy DEF IssueAccess, Is, TypeOK
      <2>2. Family(p) = f /\ ~ (p[3] <= minted[f])
            BY <2>1 DEF Family, Families
      <2>3. /\ call'[h].stage = "member" /\ call'[h].pair = p
            /\ call'[h].kind = call[h].kind /\ call'[h].caller = call[h].caller
            /\ call'[h].family = f
            /\ \A g \in Handler \ {h} : call'[g] = call[g]
            /\ \A x \in Families \ {f} : minted'[x] = minted[x]
            /\ UNCHANGED <<live, spent, store, pass, hurt>>
            BY <1>5 DEF IssueAccess, TypeOK, CallRecord
      <2> HIDE DEF f, p
      <2>4. /\ \A e \in Device : /\ store[e] = p => store[e] = NoPair
                                 /\ pass[e].pc # "idle" => pass[e].pair # p
            /\ \A g \in Handler : Carries(g) => call[g].pair # p
            /\ p \notin spent
            BY <1>0, <2>2 DEF HeldOk, CallOk, WaitInv
      <2>5. ASSUME NEW g \in Handler PROVE FreshOk(g)'
            <3>1. CASE g = h
                  BY <2>3, <2>4, <3>1 DEF FreshOk, Carries, IsLogin, IsRefresh
            <3>2. CASE g # h
              <4>1. call[g].stage \in {"member", "ok"} => Carries(g)
                    BY Busy DEF Carries
              <4> QED BY <1>0, <2>3, <2>4, <3>2, <4>1 DEF FreshOk, Carries, IsLogin, IsRefresh
            <3> QED BY <3>1, <3>2
      <2>6. ASSUME NEW g \in Handler PROVE LoginOk(g)'
            <3>1. CASE g = h
              <4>1. \A x \in Handler : call'[x].kind = call[x].kind /\ call'[x].family = call[x].family
                    BY <2>3 DEF f
              <4> QED BY <1>0, <2>3, <3>1, <4>1 DEF LoginOk, IsLogin, Family
            <3>2. CASE g # h
              <4>1. IsLogin(g) => call[g].family # f /\ call[g].family \in Families
                    BY <1>0, <2>1, <3>2 DEF LoginOk, CallOk, IsLogin, f
              <4> QED BY <1>0, <2>3, <3>2, <4>1 DEF LoginOk, IsLogin, Family, f
            <3> QED BY <3>1, <3>2
      <2>7. ASSUME NEW g \in Handler PROVE RefreshOk(g)'
            BY <1>0, <2>3 DEF RefreshOk, IsRefresh, f
      <2>8. ASSUME NEW e \in Device PROVE AliveOk(e)'
            BY <1>0, <2>3 DEF AliveOk, Family
      <2> QED BY <1>0, <2>3, <2>5, <2>6, <2>7, <2>8 DEF AliveInv
<1>6. ASSUME NEW h \in Handler, IssueMember(h) PROVE AliveInv'
      <2>1. /\ call'[h].stage = "ok" /\ call[h].stage = "member" /\ call'[h].pair = call[h].pair
            /\ call'[h].kind = call[h].kind /\ call'[h].caller = call[h].caller
            /\ call'[h].family = call[h].family
            /\ \A g \in Handler \ {h} : call'[g] = call[g]
            /\ live' = live \cup {call[h].pair}
            /\ UNCHANGED <<spent, minted, store, pass, hurt>>
            BY <1>6 DEF IssueMember, Is, GoTo, TypeOK, CallRecord
      <2>2. ASSUME NEW g \in Handler PROVE FreshOk(g)'
            BY <1>0, <2>1 DEF FreshOk, Carries, IsLogin, IsRefresh
      <2>3. ASSUME NEW g \in Handler PROVE LoginOk(g)'
            BY <1>0, <2>1 DEF LoginOk, IsLogin, Family
      <2>4. ASSUME NEW g \in Handler PROVE RefreshOk(g)'
            BY <1>0, <2>1 DEF RefreshOk, IsRefresh
      <2>5. ASSUME NEW e \in Device PROVE AliveOk(e)'
            BY <1>0, <2>1 DEF AliveOk, Family
      <2>6. (live \cap spent = {})'
            BY <1>0, <2>1 DEF FreshOk
      <2> QED BY <2>2, <2>3, <2>4, <2>5, <2>6 DEF AliveInv
<1>7. ASSUME NEW h \in Handler, AnswerPair(h) PROVE AliveInv'
      <2> DEFINE d == call[h].caller
                 p == call[h].pair
                 f == call[h].family
      <2>1. call[h].stage = "ok" /\ Carries(h) /\ call[h].kind # "none" /\ Family(p) = f
            BY <1>0, <1>7, Busy DEF AnswerPair, Is, Carries, CallOk
      <2>2. store' = [e \in Device |-> IF e = d THEN p ELSE store[e]]
            BY <1>7, Zenon DEF AnswerPair, Saved
      <2>3. \/ IsLogin(h) /\ pass' = pass
            \/ /\ IsRefresh(h) /\ ~ IsLogin(h)
               /\ pass' = [e \in Device |-> IF e = d THEN [pass[e] EXCEPT !.pc = "work", !.pair = p]
                                            ELSE pass[e]]
        <3>1. CASE IsLogin(h)
              BY <1>7, <3>1, Zenon DEF AnswerPair, IsLogin
        <3>2. CASE ~ IsLogin(h)
          <4>1. IsRefresh(h)
                BY <2>1, <3>2, Busy
          <4> QED BY <1>7, <3>2, <4>1, Zenon DEF AnswerPair, IsLogin
        <3> QED BY <3>1, <3>2
      <2>4. /\ call'[h] = NoCall /\ \A g \in Handler \ {h} : call'[g] = call[g]
            /\ UNCHANGED <<live, spent, minted, hurt>>
            BY <1>7 DEF AnswerPair, TypeOK, tokens
      <2>5. \A e \in Device :
              /\ store'[e] = store[e] \/ (e = d /\ store'[e] = p)
              /\ \/ pass'[e] = pass[e]
                 \/ e = d /\ IsRefresh(h) /\ pass'[e].pc = "work" /\ pass'[e].pair = p
                          /\ store'[e] = p
              /\ e = d => store'[e] = p
              /\ e = d => \/ pass'[e] = pass[e] /\ IsLogin(h)
                          \/ pass'[e].pc = "work" /\ pass'[e].pair = p
        <3>1. CASE IsLogin(h) /\ pass' = pass
              BY <2>2, <3>1
        <3>2. CASE /\ IsRefresh(h)
                   /\ pass' = [e \in Device |-> IF e = d THEN [pass[e] EXCEPT !.pc = "work", !.pair = p]
                                                ELSE pass[e]]
          <4>1. \A e \in Device : IF e = d THEN pass'[e].pc = "work" /\ pass'[e].pair = p
                                           ELSE pass'[e] = pass[e]
                BY <3>2 DEF TypeOK, PassRecord
          <4> QED BY <2>2, <3>2, <4>1
        <3> QED BY <2>3, <3>1, <3>2
      <2>6. f \notin hurt => p \in live
            BY <1>0, <2>1 DEF RefreshOk
      <2>7. ~ IsLogin(h)' /\ ~ IsRefresh(h)' /\ ~ Carries(h)' /\ call'[h].stage = "free"
            BY <2>4 DEF NoCall, IsLogin, IsRefresh, Carries
      <2> HIDE DEF d, p, f
      <2>8. ASSUME NEW g \in Handler PROVE FreshOk(g)'
            <3> SUFFICES ASSUME g # h, call[g].stage \in {"member", "ok"} PROVE FreshOk(g)'
                BY <2>4, <2>7 DEF FreshOk
            <3>1. FreshOk(g) /\ call[g].pair # p
                  BY <1>0, <2>1 DEF FreshOk, p
            <3>2. \A x \in Handler : Carries(x)' => Carries(x) /\ x # h /\ call'[x] = call[x]
                  BY <2>4, <2>7 DEF Carries, IsLogin, IsRefresh
            <3> QED BY <2>4, <2>5, <3>1, <3>2 DEF FreshOk
      <2>9. ASSUME NEW g \in Handler PROVE LoginOk(g)'
            <3> SUFFICES ASSUME g # h, IsLogin(g) PROVE LoginOk(g)'
                BY <2>4, <2>7 DEF LoginOk, IsLogin
            <3>1. LoginOk(g) /\ call[g].family # f
                  BY <1>0, <2>1 DEF LoginOk, f
            <3>2. \A x \in Handler : call'[x].kind # "none" => x # h /\ call'[x] = call[x]
                  BY <2>4 DEF NoCall
            <3>3. /\ call'[g] = call[g] /\ minted' = minted
                  /\ \A e \in Device : /\ store'[e] # NoPair => Family(store'[e]) # call[g].family
                                       /\ pass'[e].pc # "idle" => Family(pass'[e].pair) # call[g].family
                  BY <2>1, <2>4, <2>5, <3>1 DEF LoginOk, p, f
            <3> QED BY <3>1, <3>2, <3>3 DEF LoginOk, Family
      <2>10. ASSUME NEW g \in Handler PROVE RefreshOk(g)'
            BY <1>0, <2>4 DEF RefreshOk, IsRefresh, NoCall
      <2>11. ASSUME NEW e \in Device PROVE AliveOk(e)'
            <3>1. CASE e # d
                  BY <1>0, <2>4, <2>5, <3>1 DEF AliveOk, Family
            <3>2. CASE e = d /\ pass'[e] = pass[e] /\ IsLogin(h)
              <4>1. pass[e].pc # "idle" => Family(pass[e].pair) # f
                    BY <1>0, <3>2 DEF LoginOk, f
              <4> QED BY <1>0, <2>1, <2>4, <2>5, <2>6, <3>2, <4>1 DEF AliveOk, Family, p, f
            <3>3. CASE e = d /\ pass'[e].pc = "work" /\ pass'[e].pair = p
                  BY <2>1, <2>4, <2>5, <2>6, <3>3 DEF AliveOk, Family, p, f
            <3> QED BY <2>5, <3>1, <3>2, <3>3
      <2> QED BY <1>0, <2>4, <2>8, <2>9, <2>10, <2>11 DEF AliveInv
<1>8. ASSUME NEW h \in Handler, Select(h) PROVE AliveInv'
      <2>1. /\ call[h].stage = "select" /\ call'[h].kind = call[h].kind
            /\ call'[h].family = call[h].family
            /\ call'[h].pair = call[h].pair /\ call'[h].caller = call[h].caller
            /\ call'[h].stage \in {"rotate", "revoke", "refused"}
            /\ \A g \in Handler \ {h} : call'[g] = call[g]
            /\ UNCHANGED <<live, spent, minted, store, pass, hurt>>
            BY <1>8 DEF Select, Is, GoTo, TypeOK, CallRecord, tokens
      <2>2. call'[h].stage # "rotate" => call[h].family \in hurt
            <3> SUFFICES ASSUME call[h].family \notin hurt PROVE call'[h].stage = "rotate"
                OBVIOUS
            <3>1. IsRefresh(h) /\ Carries(h) /\ call[h].kind # "none"
                  BY <1>0, <2>1, Busy DEF CallOk, Carries
            <3>2. call[h].pair \in live \ spent
                  BY <1>0, <2>1, <3>1 DEF RefreshOk
            <3>3. Owner(call[h].pair) = call[h].family[1]
                  BY <1>0, <3>1 DEF CallOk, Family, Owner
            <3> QED BY <1>8, <3>2, <3>3 DEF Select, GoTo, Unusable, TypeOK, CallRecord
      <2>3. IsRefresh(h)
            BY <1>0, <2>1, Busy DEF CallOk
      <2> QED BY <2>1, <2>2, <2>3, Losses
<1>9. ASSUME NEW h \in Handler, Revoke(h) PROVE AliveInv'
      <2>1. /\ call[h].stage = "revoke" /\ call'[h].stage = "refused"
            /\ call'[h].kind = call[h].kind
            /\ call'[h].family = call[h].family
            /\ call'[h].pair = call[h].pair /\ call'[h].caller = call[h].caller
            /\ \A g \in Handler \ {h} : call'[g] = call[g]
            /\ UNCHANGED <<minted, store, pass, hurt>>
            BY <1>9 DEF Revoke, Is, GoTo, TypeOK, CallRecord
      <2>2. IsRefresh(h) /\ call[h].family \in hurt
            BY <1>0, <2>1, Busy DEF CallOk, RefreshOk
      <2>3. live' \subseteq live /\ spent' \subseteq spent
            /\ \A p \in live \ live' : Family(p) \in hurt'
            BY <1>9, <2>2 DEF Revoke, InFamily
      <2> QED BY <2>1, <2>2, <2>3, Losses
<1>10. ASSUME NEW h \in Handler, call[h].kind # "none",
              AnswerRefused(h) \/ HandlerDies(h)
       PROVE  AliveInv'
      <2>1. /\ call'[h] = NoCall /\ \A g \in Handler \ {h} : call'[g] = call[g]
            /\ UNCHANGED <<live, spent, minted, store>> /\ hurt \subseteq hurt'
            BY <1>10 DEF AnswerRefused, HandlerDies, TypeOK, tokens
      <2>2. IsRefresh(h) => call[h].family \in hurt'
        <3>1. CASE AnswerRefused(h)
              BY <1>0, <1>10, <3>1 DEF AnswerRefused, Is, RefreshOk
        <3>2. CASE HandlerDies(h)
              BY <3>2 DEF HandlerDies, IsRefresh
        <3> QED BY <1>10, <3>1, <3>2
      <2>3. AnswerRefused(h) => IsRefresh(h)
            BY <1>0, Busy DEF AnswerRefused, Is, CallOk
      <2>4. \A e \in Device :
              \/ pass'[e] = pass[e]
              \/ /\ IsRefresh(h) /\ call[h].caller = e
                 /\ pass'[e] = NoPass \/ (pass'[e].pc = "clear" /\ pass'[e].pair = pass[e].pair)
        <3>1. CASE AnswerRefused(h)
              BY <2>3, <3>1 DEF AnswerRefused, TypeOK, PassRecord
        <3>2. CASE HandlerDies(h)
          <4>1. IsRefresh(h) \/ IsLogin(h)
                BY <1>10 DEF TypeOK, CallRecord, IsLogin, IsRefresh
          <4> QED BY <3>2, <4>1 DEF HandlerDies, IsLogin
        <3> QED BY <1>10, <3>1, <3>2
      <2>5. \A e \in Device : pass'[e] # pass[e]
              => pass[e].pc = "refresh" /\ Family(pass[e].pair) \in hurt'
            BY <1>0, <2>2, <2>4, NamesAssumption DEF WaitOk
      <2> QED BY <2>1, <2>4, <2>5, Losses DEF NoPass
<1>11. ASSUME NEW d \in Device, RefreshLost(d) \/ LoginLost(d) \/ Kill(d) PROVE AliveInv'
      <2>1. PICK H \in SUBSET Handler :
              /\ call' = Abandoned(H)
              /\ \A h \in H : IsRefresh(h) => call[h].family \in hurt'
            <3>1. \A kind \in {"refresh", "login"} : Waiting(d, kind) \in SUBSET Handler
                  BY DEF Waiting
            <3>2. \A h \in Waiting(d, "login") : ~ IsRefresh(h)
                  BY DEF Waiting, IsRefresh
            <3>3. \A h \in Waiting(d, "refresh") : call[h].family \in FamiliesOf(Waiting(d, "refresh"))
                  BY DEF FamiliesOf
            <3>4. CASE RefreshLost(d)
                  BY <3>1, <3>3, <3>4 DEF RefreshLost
            <3>5. CASE LoginLost(d)
                  BY <3>1, <3>2, <3>5 DEF LoginLost
            <3>6. CASE Kill(d)
                  BY <3>1, <3>2, <3>3, <3>6 DEF Kill
            <3> QED BY <1>11, <3>4, <3>5, <3>6
      <2>2. \A h \in Handler :
              /\ call'[h].kind = call[h].kind /\ call'[h].family = call[h].family
              /\ call'[h].pair = call[h].pair /\ call'[h].stage = call[h].stage
              /\ call'[h].caller # call[h].caller /\ IsRefresh(h) => call[h].family \in hurt'
            BY <2>1 DEF Abandoned, TypeOK, CallRecord
      <2>3. /\ UNCHANGED <<live, spent, minted, store>> /\ hurt \subseteq hurt'
            /\ \A e \in Device : pass'[e] \in {pass[e], NoPass}
            /\ \A e \in Device \ {d} : pass'[e] = pass[e]
            BY <1>11 DEF RefreshLost, LoginLost, Kill, TypeOK, tokens
      <2>4. pass'[d] # pass[d] /\ pass[d].pc = "refresh" => Family(pass[d].pair) \in hurt'
            <3> SUFFICES ASSUME pass'[d] # pass[d], pass[d].pc = "refresh"
                         PROVE  Family(pass[d].pair) \in hurt'
                OBVIOUS
            <3>1. PICK h \in Handler : IsRefresh(h) /\ call[h].caller = d
                  BY <1>0 DEF HeldOk
            <3>2. call[h].family = Family(pass[d].pair)
                  BY <1>0, <3>1, NamesAssumption DEF WaitOk
            <3>3. hurt' = hurt \cup FamiliesOf(Waiting(d, "refresh"))
                  BY <1>11 DEF RefreshLost, LoginLost, Kill
            <3> QED BY <3>1, <3>2, <3>3 DEF FamiliesOf, Waiting, IsRefresh
      <2> QED BY <2>2, <2>3, <2>4, Losses DEF NoPass
<1>12. ASSUME NEW d \in Device,
              \/ Cool(d) \/ UseAccess(d) \/ Work(d) \/ Denied(d) \/ Fails(d) \/ Clear(d)
       PROVE  AliveInv'
      <2>1. UNCHANGED <<call, live, spent, minted, hurt>>
            BY <1>12 DEF Cool, UseAccess, Work, Denied, Fails, Clear, tokens
      <2>2. \A e \in Device :
              /\ store'[e] \in {store[e], NoPair}
              /\ \/ pass'[e] = pass[e]
                 \/ /\ pass[e].pc \notin {"idle", "refresh"}
                    /\ \/ pass'[e] = NoPass
                       \/ pass'[e].pc = "clear" /\ pass'[e].pair = pass[e].pair
                       \/ /\ pass[e].pc \in {"choose", "work"} /\ pass'[e].pc \in {"choose", "work"}
                          /\ pass'[e].pair = pass[e].pair
            BY <1>12 DEF Cool, UseAccess, Work, Denied, Fails, Clear, TypeOK, PassRecord
      <2> QED BY <2>1, <2>2, Losses DEF NoPass
<1>13. ASSUME UNCHANGED <<call, minted, store, pass>>, live' \subseteq live, spent' \subseteq spent,
              hurt \subseteq hurt', \A p \in live \ live' : Family(p) \in hurt'
       PROVE  AliveInv'
      BY <1>13, Losses
<1>14. ASSUME NEW d \in Device, Logout(d) PROVE AliveInv'
      <2>1. \A p \in live : Family(p) \in Families
            BY DEF TypeOK, Token, Family, Families
      <2> QED BY <1>13, <1>14, <2>1 DEF Logout, TypeOK
<1>15. ASSUME NEW p \in Pairs, ExpireAccess(p) \/ ExpireRefresh(p) PROVE AliveInv'
      BY <1>13, <1>15 DEF ExpireAccess, ExpireRefresh
<1>16. CASE UNCHANGED vars
      BY <1>13, <1>16 DEF vars, tokens
<1>17. \A h \in Handler : AnswerRefused(h) \/ HandlerDies(h) => call[h].kind # "none"
      BY <1>0 DEF AnswerRefused, HandlerDies, Is, CallOk, NoCall
<1> QED BY <1>1, <1>2, <1>3, <1>4, <1>5, <1>6, <1>7, <1>8, <1>9, <1>10, <1>11, <1>12, <1>14,
           <1>15, <1>16, <1>17
        DEF Next, PassStep, HandlerStep

\* The refresh token a device has stored is live, or the device is redeeming it,
\* unless its family lost an answer or its tokens: passes, logins and rotations
\* side by side, of any devices and on any handlers, leave none with a dead one.
THEOREM StoredTokenSurvives == Spec => []SessionSurvives
<1>1. AliveInv => SessionSurvives
      BY DEF AliveInv, AliveOk, SessionSurvives
<1> QED BY <1>1, AliveInit, AliveStep, SessionInvariants, PTL DEF Spec
=============================================================================
