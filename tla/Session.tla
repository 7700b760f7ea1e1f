------------------------------ MODULE Session ------------------------------
(* The tokens of a shop's devices: server/src/auth/tokens.ts and            *)
(* routes/auth.ts on the server, and on a device the token store, the token *)
(* handling of SyncEngine (sync/syncEngine.ts), its circuit breaker         *)
(* (circuitBreaker.ts) and its retries (backoff.ts).                        *)
(*                                                                          *)
(* A login starts a family of token pairs; a refresh redeems the refresh    *)
(* token of one pair for the next pair of its family.  The pair <<d, k, n>> *)
(* is one of the k-th family of device d; n tells apart the pairs of a      *)
(* family.  Every statement of the server is a step of its own, and what a  *)
(* device no longer waits for goes on.                                      *)
EXTENDS Integers, FiniteSets

CONSTANTS
    Device,        \* the devices of one shop; each has its own fingerprint
    Handler,       \* login and refresh requests the server may be running together
    NoOne,         \* nobody waits for this handler's answer
    NoPair,        \* an empty token store
    Threshold,     \* failureThreshold of the breaker
    MaxAttempts,   \* maxAttempts of the backoff policy
    MaxLogins,     \* bound: logins of a device
    MaxPairs,      \* bound: pairs of a family
    MaxFailures    \* bound: requests that fail, answers that are lost, kills

Families == Device \X (1..MaxLogins)
Pairs == Device \X (1..MaxLogins) \X (1..MaxPairs)
Owner(p) == p[1]
Family(p) == <<p[1], p[2]>>

ASSUME NamesAssumption == NoOne \notin Device /\ NoPair \notin Pairs
ASSUME SizesAssumption ==
    /\ Threshold \in Nat \ {0} /\ MaxAttempts \in Nat
    /\ {MaxLogins, MaxPairs, MaxFailures} \subseteq Nat

VARIABLES
    access,      \* table tokens: the pairs whose ACCESS row is there and not expired
    live,        \* table tokens: those whose REFRESH row has rotated_at null
    spent,       \* table tokens: those whose REFRESH row has rotated_at set
    minted,      \* how many pairs each family ever had (0: no login yet)
    call,        \* call[h]: the request handler h works on
    store,       \* store[d]: the pair in d's TokenStore
    pass,        \* pass[d]: SyncEngine's pass in flight
    asking,      \* the devices whose PIN screen waits for a login
    breaker,     \* breaker[d]: its CircuitBreaker
    failures,    \* how often something failed
    hurt,        \* families that lost an answer, or their tokens (history)
    raced        \* families of which two requests ran at once (history)

tokens == <<access, live, spent, minted>>
vars == <<tokens, call, store, pass, asking, breaker, failures, hurt, raced>>

NoPass == [pc |-> "idle", pair |-> NoPair, tries |-> 0]
NoCall == [kind |-> "none", caller |-> NoOne, family |-> <<>>, pair |-> NoPair, stage |-> "free"]
Closed == [failures |-> 0, state |-> "CLOSED"]

Init ==
    /\ access = {} /\ live = {} /\ spent = {}
    /\ minted = [f \in Families |-> 0]
    /\ call = [h \in Handler |-> NoCall]
    /\ store = [d \in Device |-> NoPair]
    /\ pass = [d \in Device |-> NoPass]
    /\ asking = {}
    /\ breaker = [d \in Device |-> Closed]
    /\ failures = 0
    /\ hurt = {}
    /\ raced = {}

----------------------------------------------------------------------------
(* The circuit breaker.                                                     *)

CanAttempt(b) == b.state # "OPEN"

\* recordFailure(): at the threshold and past it every failure stamps openedAt
\* anew.  Past the threshold the count makes no difference and stays.
RecordFailure(b) ==
    [failures |-> IF b.failures < Threshold THEN b.failures + 1 ELSE b.failures,
     state |-> IF b.failures + 1 >= Threshold THEN "OPEN" ELSE b.state]

\* Mutant of RecordSuccess: openedAt is kept.
CountReset(b) == [b EXCEPT !.failures = 0]

RecordSuccess(b) == Closed

\* resetAfterMs have passed since openedAt.
Cool(d) ==
    /\ breaker[d].state = "OPEN"
    /\ breaker' = [breaker EXCEPT ![d].state = "HALF_OPEN"]
    /\ UNCHANGED <<tokens, call, store, pass, asking, failures, hurt, raced>>

----------------------------------------------------------------------------
(* A pass of the sync engine.                                               *)

\* runPass(): canAttempt(), then the tokens as they are now.
StartPass(d) ==
    /\ pass[d] = NoPass /\ CanAttempt(breaker[d]) /\ store[d] # NoPair
    /\ pass' = [pass EXCEPT ![d] = [NoPass EXCEPT !.pc = "choose", !.pair = store[d]]]
    /\ UNCHANGED <<tokens, call, store, asking, breaker, failures, hurt, raced>>

\* validAccessToken(): by this device's clock, whatever it shows, the access
\* token has half a minute left, ...
UseAccess(d) ==
    /\ pass[d].pc = "choose"
    /\ pass' = [pass EXCEPT ![d].pc = "work"]
    /\ UNCHANGED <<tokens, call, store, asking, breaker, failures, hurt, raced>>

\* The requests that may yet mint a pair of f.
Minting(f) == {h \in Handler : call[h].family = f /\ call[h].stage \in {"select", "rotate", "access"}}

\* ... or the refresh token has to be redeemed.
AskRefresh(d, h) ==
    LET p == pass[d].pair
    IN  /\ pass[d].pc = "choose" /\ call[h] = NoCall
        /\ p \in live => minted[Family(p)] + Cardinality(Minting(Family(p))) < MaxPairs
        /\ call' = [call EXCEPT ![h] = [kind |-> "refresh", caller |-> d,
                                        family |-> Family(p), pair |-> p, stage |-> "select"]]
        /\ pass' = [pass EXCEPT ![d].pc = "refresh"]
        /\ raced' = IF \E g \in Handler : call[g].family = Family(p)
                    THEN raced \cup {Family(p)} ELSE raced
        /\ UNCHANGED <<tokens, store, asking, breaker, failures, hurt>>

\* A push or a pull is answered; the pass goes on or is over.
Work(d) ==
    /\ pass[d].pc = "work" /\ pass[d].pair \in access
    /\ breaker' = [breaker EXCEPT ![d] = RecordSuccess(@)]
    /\ \/ pass' = [pass EXCEPT ![d].tries = 0]
       \/ pass' = [pass EXCEPT ![d] = NoPass]
    /\ UNCHANGED <<tokens, call, store, asking, failures, hurt, raced>>

\* requireShop() does not find the access token: 401, counted by withRetry and
\* by runPass, which then clears the store.
Denied(d) ==
    /\ pass[d].pc = "work" /\ pass[d].pair \notin access
    /\ breaker' = [breaker EXCEPT ![d] = RecordFailure(RecordFailure(@))]
    /\ pass' = [pass EXCEPT ![d].pc = "clear"]
    /\ UNCHANGED <<tokens, call, store, asking, failures, hurt, raced>>

\* Mutant of Retries: the breaker is not asked.
RetriesRegardless(b, tries) == tries < MaxAttempts

\* withRetry: whether the operation is tried again after this failure.
Retries(b, tries) == tries < MaxAttempts /\ CanAttempt(b)

\* A push or a pull fails otherwise: it is tried again, or runPass counts the
\* failure once more and the pass is over.
Fails(d) ==
    LET b == RecordFailure(breaker[d])
    IN  /\ pass[d].pc = "work" /\ failures < MaxFailures
        /\ IF Retries(b, pass[d].tries)
           THEN /\ breaker' = [breaker EXCEPT ![d] = b]
                /\ pass' = [pass EXCEPT ![d].tries = @ + 1]
           ELSE /\ breaker' = [breaker EXCEPT ![d] = RecordFailure(b)]
                /\ pass' = [pass EXCEPT ![d] = NoPass]
        /\ failures' = failures + 1
        /\ UNCHANGED <<tokens, call, store, asking, hurt, raced>>

\* tokens.clear(), whatever the store holds by now.
Clear(d) ==
    /\ pass[d].pc = "clear"
    /\ store' = [store EXCEPT ![d] = NoPair]
    /\ pass' = [pass EXCEPT ![d] = NoPass]
    /\ UNCHANGED <<tokens, call, asking, breaker, failures, hurt, raced>>

\* The PIN screen sends a login (or the first registration) with the right PIN.
Login(d, h) ==
    /\ d \notin asking /\ call[h] = NoCall
    /\ asking' = asking \cup {d}
    /\ \E k \in 1..MaxLogins :
          /\ minted[<<d, k>>] = 0 /\ \A j \in 1..(k - 1) : minted[<<d, j>>] # 0
          /\ \A g \in Handler : call[g].family # <<d, k>>
          /\ call' = [call EXCEPT ![h] = [kind |-> "login", caller |-> d, family |-> <<d, k>>,
                                          pair |-> NoPair, stage |-> "access"]]
    /\ UNCHANGED <<tokens, store, pass, breaker, failures, hurt, raced>>

----------------------------------------------------------------------------
(* The handlers.                                                            *)

Is(h, stage) == call[h].stage = stage
GoTo(h, stage) == call' = [call EXCEPT ![h].stage = stage]

\* Mutant of Unusable: a rotated token is as good as a live one.
Accepted(h, p) == Owner(p) # call[h].family[1]

\* The row of p was redeemed already, or issued to another fingerprint.
Unusable(h, p) == p \in spent \/ Owner(p) # call[h].family[1]

\* rotateRefreshToken: the SELECT, and what the row says.
Select(h) ==
    LET p == call[h].pair
    IN  /\ Is(h, "select")
        /\ GoTo(h, IF p \notin live \cup spent THEN "refused"
                   ELSE IF Unusable(h, p) THEN "revoke" ELSE "rotate")
        /\ UNCHANGED <<tokens, store, pass, asking, breaker, failures, hurt, raced>>

InFamily(f) == {p \in Pairs : Family(p) = f}

\* revokeFamily: access tokens have no family_id and stay.
Revoke(h) ==
    /\ Is(h, "revoke")
    /\ live' = live \ InFamily(call[h].family)
    /\ spent' = spent \ InFamily(call[h].family)
    /\ GoTo(h, "refused")
    /\ UNCHANGED <<access, minted, store, pass, asking, breaker, failures, hurt, raced>>

\* What the UPDATE leaves unrotated.
Unrotated(p) == live \ {p}

\* UPDATE tokens SET rotated_at: a row that is gone is not missed.
Rotate(h) ==
    LET p == call[h].pair
    IN  /\ Is(h, "rotate")
        /\ live' = Unrotated(p)
        /\ spent' = IF p \in live \cup spent THEN spent \cup {p} ELSE spent
        /\ GoTo(h, "access")
        /\ UNCHANGED <<access, minted, store, pass, asking, breaker, failures, hurt, raced>>

\* issueAccessToken, then ...
IssueAccess(h) ==
    LET f == call[h].family
        p == <<f[1], f[2], minted[f] + 1>>
    IN  /\ Is(h, "access")
        /\ minted' = [minted EXCEPT ![f] = @ + 1]
        /\ access' = access \cup {p}
        /\ call' = [call EXCEPT ![h].stage = "member", ![h].pair = p]
        /\ UNCHANGED <<live, spent, store, pass, asking, breaker, failures, hurt, raced>>

\* ... issueFamilyMember.
IssueMember(h) ==
    /\ Is(h, "member")
    /\ live' = live \cup {call[h].pair}
    /\ GoTo(h, "ok")
    /\ UNCHANGED <<access, spent, minted, store, pass, asking, breaker, failures, hurt, raced>>

\* Mutant of Saved: the new access token is put beside the old refresh token.
SavedPartly(old, new) == IF old = NoPair THEN new ELSE old

\* tokens.set(): the whole answer replaces what was there.
Saved(old, new) == new

\* The new pair goes out; to a caller that has given up, into the void.
AnswerPair(h) ==
    LET c == call[h]
        d == c.caller
    IN  /\ Is(h, "ok")
        /\ call' = [call EXCEPT ![h] = NoCall]
        /\ store' = [e \in Device |-> IF e = d THEN Saved(store[e], c.pair) ELSE store[e]]
        /\ IF c.kind = "login"
           THEN asking' = asking \ {d} /\ UNCHANGED pass
           ELSE /\ pass' = [e \in Device |->
                               IF e = d THEN [pass[e] EXCEPT !.pc = "work", !.pair = c.pair]
                               ELSE pass[e]]
                /\ UNCHANGED asking
        /\ UNCHANGED <<tokens, breaker, failures, hurt, raced>>

\* 401 to a refresh: runPass counts a failure and clears the store.
AnswerRefused(h) ==
    LET d == call[h].caller
    IN  /\ Is(h, "refused")
        /\ call' = [call EXCEPT ![h] = NoCall]
        /\ pass' = [e \in Device |-> IF e = d THEN [pass[e] EXCEPT !.pc = "clear"] ELSE pass[e]]
        /\ breaker' = [e \in Device |->
                          IF e = d THEN RecordFailure(breaker[e]) ELSE breaker[e]]
        /\ UNCHANGED <<tokens, store, asking, failures, hurt, raced>>

----------------------------------------------------------------------------
(* Time, logout and failures.                                               *)

ExpireAccess(p) ==
    /\ p \in access
    /\ access' = access \ {p}
    /\ UNCHANGED <<live, spent, minted, call, store, pass, asking, breaker, failures, hurt, raced>>

\* Thirty days: the row of the refresh token is there and of no use.
ExpireRefresh(p) ==
    /\ p \in live \cup spent /\ failures < MaxFailures
    /\ live' = live \ {p}
    /\ spent' = spent \ {p}
    /\ failures' = failures + 1
    /\ hurt' = IF p \in live THEN hurt \cup {Family(p)} ELSE hurt
    /\ UNCHANGED <<access, minted, call, store, pass, asking, breaker, raced>>

\* POST /v1/auth/logout with the access token of d: every token of the shop.
Logout(d) ==
    /\ store[d] \in access /\ failures < MaxFailures
    /\ access' = {} /\ live' = {} /\ spent' = {}
    /\ failures' = failures + 1
    /\ hurt' = Families
    /\ UNCHANGED <<minted, call, store, pass, asking, breaker, raced>>

\* Nobody waits any more for the requests in H.
Abandoned(H) ==
    [h \in Handler |-> IF h \in H THEN [call[h] EXCEPT !.caller = NoOne] ELSE call[h]]
Waiting(d, kind) == {h \in Handler : call[h].caller = d /\ call[h].kind = kind}
FamiliesOf(H) == {call[h].family : h \in H}

\* A refresh times out or its answer is lost: no ApiError, nothing is cleared.
RefreshLost(d) ==
    /\ pass[d].pc = "refresh" /\ failures < MaxFailures
    /\ call' = Abandoned(Waiting(d, "refresh"))
    /\ pass' = [pass EXCEPT ![d] = NoPass]
    /\ breaker' = [breaker EXCEPT ![d] = RecordFailure(@)]
    /\ failures' = failures + 1
    /\ hurt' = hurt \cup FamiliesOf(Waiting(d, "refresh"))
    /\ UNCHANGED <<tokens, store, asking, raced>>

\* A login times out: UNAVAILABLE, and the PIN screen is back.
LoginLost(d) ==
    /\ d \in asking /\ failures < MaxFailures
    /\ call' = Abandoned(Waiting(d, "login"))
    /\ asking' = asking \ {d}
    /\ failures' = failures + 1
    /\ UNCHANGED <<tokens, store, pass, breaker, hurt, raced>>

\* A statement of the handler throws: 500, and what it did stays.
HandlerDies(h) ==
    LET d == call[h].caller
    IN  /\ call[h] # NoCall /\ failures < MaxFailures
        /\ call' = [call EXCEPT ![h] = NoCall]
        /\ failures' = failures + 1
        /\ IF call[h].kind = "login"
           THEN asking' = asking \ {d} /\ UNCHANGED <<pass, breaker, hurt>>
           ELSE /\ pass' = [e \in Device |-> IF e = d THEN NoPass ELSE pass[e]]
                /\ breaker' = [e \in Device |->
                                  IF e = d THEN RecordFailure(breaker[e]) ELSE breaker[e]]
                /\ hurt' = hurt \cup {call[h].family}
                /\ UNCHANGED asking
        /\ UNCHANGED <<tokens, store, raced>>

\* The app is killed: the token store is all that survives.
Kill(d) ==
    /\ pass[d] # NoPass \/ d \in asking
    /\ failures < MaxFailures
    /\ call' = Abandoned(Waiting(d, "refresh") \cup Waiting(d, "login"))
    /\ pass' = [pass EXCEPT ![d] = NoPass]
    /\ asking' = asking \ {d}
    /\ breaker' = [breaker EXCEPT ![d] = Closed]
    /\ failures' = failures + 1
    /\ hurt' = hurt \cup FamiliesOf(Waiting(d, "refresh"))
    /\ UNCHANGED <<tokens, store, raced>>

----------------------------------------------------------------------------
PassStep(d) ==
    \/ StartPass(d) \/ UseAccess(d) \/ Work(d) \/ Denied(d) \/ Clear(d)
    \/ \E h \in Handler : AskRefresh(d, h)

HandlerStep(h) ==
    \/ Select(h) \/ Revoke(h) \/ Rotate(h) \/ IssueAccess(h) \/ IssueMember(h)
    \/ AnswerPair(h) \/ AnswerRefused(h)

Next ==
    \/ \E d \in Device :
          \/ PassStep(d) \/ Fails(d) \/ Cool(d)
          \/ \E h \in Handler : Login(d, h)
          \/ Logout(d) \/ RefreshLost(d) \/ LoginLost(d) \/ Kill(d)
    \/ \E h \in Handler : HandlerStep(h) \/ HandlerDies(h)
    \/ \E p \in Pairs : ExpireAccess(p) \/ ExpireRefresh(p)

Spec == Init /\ [][Next]_vars

\* The background task keeps starting passes, the server works on what it was
\* sent, and time passes for the breaker.
Fairness ==
    /\ \A d \in Device : WF_vars(PassStep(d)) /\ WF_vars(Cool(d))
    /\ \A h \in Handler : WF_vars(HandlerStep(h))

FairSpec == Spec /\ Fairness

----------------------------------------------------------------------------
\* The refresh token a device has stored can be redeemed, or the device is
\* redeeming it right now; rotation, passes and logins side by side, and what
\* other devices do, never leave it with a dead one.  Only a lost answer, a
\* logout or thirty days do.
SessionSurvives ==
    \A d \in Device :
        store[d] # NoPair /\ Family(store[d]) \notin hurt
        => \/ store[d] \in live
           \/ pass[d].pc = "refresh" /\ pass[d].pair = store[d]

\* tokens.ts: a refresh token can only ever be redeemed once.  It is so unless
\* a device gave up on a refresh and sent another while the first still ran.
RedeemedOnce ==
    [][\A h \in Handler :
          Is(h, "rotate") /\ call'[h].stage = "access"
          => call[h].pair \notin spent \/ call[h].family \in raced]_vars

\* While the circuit is open nothing is sent, a pass that was under way included.
OpenIsQuiet ==
    \A d \in Device : breaker[d].state = "OPEN" => pass[d].pc \in {"idle", "clear"}

\* circuitBreaker.ts: the half-open probe closes the circuit "without the user
\* doing anything", unless the session ended.
CircuitCloses ==
    \A d \in Device :
        breaker[d].state = "OPEN" ~> breaker[d].state = "CLOSED" \/ store[d] = NoPair
=============================================================================
