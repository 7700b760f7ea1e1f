---------------------------- MODULE LedgerProofs ----------------------------
(* Proofs about the clock of module Hlc and the fold of module Ledger, for  *)
(* every clock and every log.                                               *)
EXTENDS Ledger, FiniteSetTheorems, WellFoundedInduction, TLAPS

----------------------------------------------------------------------------
(* Induction: on naturals and on the subsets of a finite set.               *)

\* A non-empty set of naturals has a least element.
LEMMA LeastNat ==
    ASSUME NEW T \in SUBSET Nat, T # {}
    PROVE  \E n \in T : \A m \in T : n <= m
  <1> DEFINE R == OpToRel(<, Nat)
  <1>1. PICK n \in T : \A m \in T : <<m, n>> \notin R
    <2> HIDE DEF R
    <2> QED BY NatLessThanWellFounded, WFMin DEF R
  <1>2. ASSUME NEW m \in T PROVE n <= m
    <2>1. <<m, n>> \notin R BY <1>1
    <2>2. m < n => <<m, n>> \in R BY DEF OpToRel
    <2> HIDE DEF R
    <2> QED BY <2>1, <2>2
  <1> QED BY <1>2

\* Of a set of subsets of a finite set, one has no proper subset among them.
LEMMA LeastSubset ==
    ASSUME NEW L, IsFiniteSet(L), NEW B \in SUBSET SUBSET L, B # {}
    PROVE  \E S \in B : \A U \in SUBSET S : U \in B => U = S
  <1> DEFINE R == StrictSubsetOrdering(L)
  <1>1. IsWellFoundedOn(R, SUBSET L)
    BY FS_StrictSubsetOrderingWellFounded, FS_FiniteSubsetsOfFinite
  <1>2. PICK S \in B : \A U \in B : <<U, S>> \notin R
    <2> HIDE DEF R
    <2> QED BY <1>1, WFMin
  <1>3. ASSUME NEW U \in SUBSET S, U \in B PROVE U = S
    <2>1. <<U, S>> \notin R BY <1>2, <1>3
    <2>2. U # S => <<U, S>> \in R BY <1>3 DEF StrictSubsetOrdering
    <2> HIDE DEF R
    <2> QED BY <2>1, <2>2
  <1> QED BY <1>3

----------------------------------------------------------------------------
(* The loop.                                                                *)

\* The states a loop goes through are a function of the turn.
IsRun(g, N, s, voided) ==
    g = [n \in 0..N |-> IF n = 0 THEN EmptyState ELSE Turn(g[n - 1], s[n], voided)]

LEMMA RunExists ==
    ASSUME NEW s, NEW voided, NEW N \in Nat
    PROVE  \E g : IsRun(g, N, s, voided)
  <1> DEFINE Bad == {n \in Nat : ~\E g : IsRun(g, n, s, voided)}
  <1>1. SUFFICES ASSUME Bad # {} PROVE FALSE
    OBVIOUS
  <1>2. PICK n \in Bad : \A m \in Bad : n <= m
    <2> HIDE DEF Bad
    <2> SUFFICES Bad \in SUBSET Nat BY <1>1, LeastNat
    <2> QED BY DEF Bad
  <1>3. n # 0
    <2>1. IsRun([k \in 0..0 |-> EmptyState], 0, s, voided)
      BY DEF IsRun
    <2> QED BY <2>1, <1>2
  <1>4. n \in Nat \ {0} /\ n - 1 \in Nat /\ n - 1 \notin Bad
    BY <1>2, <1>3
  <1>5. PICK g : IsRun(g, n - 1, s, voided)
    BY <1>4
  <1> DEFINE h == [k \in 0..n |-> IF k = n THEN Turn(g[n - 1], s[n], voided) ELSE g[k]]
  <1>6. IsRun(h, n, s, voided)
    <2>1. ASSUME NEW k \in 0..n
          PROVE  h[k] = IF k = 0 THEN EmptyState ELSE Turn(h[k - 1], s[k], voided)
      <3>1. CASE k = n
        BY <3>1, <1>4
      <3>2. CASE k # n
        <4>1. k \in 0..(n - 1) /\ h[k] = g[k] /\ (k # 0 => h[k - 1] = g[k - 1])
          BY <3>2, <1>4
        <4>2. g[k] = IF k = 0 THEN EmptyState ELSE Turn(g[k - 1], s[k], voided)
          <5> HIDE DEF h
          <5> QED BY <4>1, <1>5 DEF IsRun
        <4> HIDE DEF h
        <4> QED BY <4>1, <4>2
      <3> QED BY <3>1, <3>2
    <2>2. h = [k \in 0..n |-> h[k]]
      OBVIOUS
    <2> HIDE DEF h
    <2> QED BY <2>1, <2>2 DEF IsRun
  <1> QED BY <1>6, <1>2

LEMMA LoopRuns ==
    ASSUME NEW s, NEW voided, Len(s) \in Nat
    PROVE  IsRun(Loop(s, voided), Len(s), s, voided)
BY RunExists DEF Loop, IsRun

LEMMA LoopSteps ==
    ASSUME NEW s, NEW voided, Len(s) \in Nat
    PROVE  /\ Loop(s, voided)[0] = EmptyState
           /\ \A n \in 1..Len(s) :
                Loop(s, voided)[n] = Turn(Loop(s, voided)[n - 1], s[n], voided)
  <1> DEFINE g == Loop(s, voided)
  <1>1. g = [n \in 0..Len(s) |-> IF n = 0 THEN EmptyState ELSE Turn(g[n - 1], s[n], voided)]
    BY LoopRuns DEF IsRun
  <1> HIDE DEF g
  <1>2. \A n \in 0..Len(s) : g[n] = IF n = 0 THEN EmptyState ELSE Turn(g[n - 1], s[n], voided)
    BY <1>1
  <1>3. g[0] = EmptyState /\ \A n \in 1..Len(s) : g[n] = Turn(g[n - 1], s[n], voided)
    BY <1>2
  <1> QED BY <1>3 DEF g

\* Loops over lists with the same beginning go through the same states there.
LEMMA LoopsAgree ==
    ASSUME NEW s, NEW t, NEW voided, Len(s) \in Nat, Len(t) \in Nat,
           NEW k \in Nat, k <= Len(s), k <= Len(t), \A i \in 1..k : s[i] = t[i]
    PROVE  Loop(s, voided)[k] = Loop(t, voided)[k]
  <1> DEFINE g == Loop(s, voided)
             h == Loop(t, voided)
             Bad == {n \in 0..k : g[n] # h[n]}
  <1>0. /\ g[0] = EmptyState /\ \A n \in 1..Len(s) : g[n] = Turn(g[n - 1], s[n], voided)
        /\ h[0] = EmptyState /\ \A n \in 1..Len(t) : h[n] = Turn(h[n - 1], t[n], voided)
    BY LoopSteps
  <1> HIDE DEF g, h
  <1>1. SUFFICES ASSUME Bad # {} PROVE FALSE
    BY DEF g, h
  <1>2. PICK n \in Bad : \A m \in Bad : n <= m
    <2>1. Bad \in SUBSET Nat OBVIOUS
    <2> HIDE DEF Bad
    <2> QED BY <1>1, <2>1, LeastNat
  <1>3. n \in 1..k
    BY <1>0, <1>2
  <1>4. n - 1 \in 0..k /\ n - 1 \notin Bad
    BY <1>2, <1>3
  <1>5. g[n - 1] = h[n - 1]
    BY <1>4
  <1>6. n \in 1..Len(s) /\ n \in 1..Len(t) /\ s[n] = t[n]
    BY <1>3
  <1>7. g[n] = h[n]
    BY <1>0, <1>5, <1>6
  <1> QED BY <1>7, <1>2

----------------------------------------------------------------------------
(* The order of a log.                                                      *)

\* What compareByHlc needs of a log: its stamps are clock readings, and no two
\* events carry the same one.
Stamped(log) ==
    /\ IsFiniteSet(log)
    /\ \A e \in log : e.hlc \in [l : Nat, c : Nat, dev : Nat]
    /\ \A e, f \in log : e.hlc = f.hlc => e = f

LEMMA StampedPart ==
    ASSUME NEW log, Stamped(log), NEW part \in SUBSET log
    PROVE  Stamped(part)
BY FS_Subset DEF Stamped

LEMMA BeforeIsOrder ==
    ASSUME NEW log, Stamped(log)
    PROVE  /\ \A e \in log : ~Before(e, e)
           /\ \A e, f \in log : Before(e, f) => ~Before(f, e)
           /\ \A e, f \in log : e = f \/ Before(e, f) \/ Before(f, e)
           /\ \A e, f, g \in log : Before(e, f) /\ Before(f, g) => Before(e, g)
  <1> DEFINE H == [l : Nat, c : Nat, dev : Nat]
  <1>1. \A a \in H : ~StampLess(a, a)
    BY DEF StampLess, StateLess
  <1>2. \A a, b \in H : StampLess(a, b) => ~StampLess(b, a)
    BY DEF StampLess, StateLess
  <1>3. \A a, b \in H : a = b \/ StampLess(a, b) \/ StampLess(b, a)
    BY DEF StampLess, StateLess
  <1>4. \A a, b, d \in H : StampLess(a, b) /\ StampLess(b, d) => StampLess(a, d)
    BY DEF StampLess, StateLess
  <1>5. \A e \in log : e.hlc \in H
    BY DEF Stamped
  <1>6. \A e, f \in log : e.hlc = f.hlc => e = f
    BY DEF Stamped
  <1> HIDE DEF H
  <1> QED BY <1>1, <1>2, <1>3, <1>4, <1>5, <1>6 DEF Before

\* m is the last event of the log.
IsLast(log, m) == m \in log /\ \A f \in log \ {m} : Before(f, m)

LEMMA LastExists ==
    ASSUME NEW log, Stamped(log), log # {}
    PROVE  \E m : IsLast(log, m)
  <1> DEFINE Bad == {S \in SUBSET log : S # {} /\ ~\E m : IsLast(S, m)}
  <1>1. SUFFICES ASSUME Bad # {} PROVE FALSE
    OBVIOUS
  <1>2. PICK S \in Bad : \A U \in SUBSET S : U \in Bad => U = S
    <2>1. Bad \in SUBSET SUBSET log OBVIOUS
    <2> HIDE DEF Bad
    <2> QED BY <1>1, <2>1, LeastSubset DEF Stamped
  <1>3. PICK e \in S : TRUE
    BY <1>2
  <1>4. S \ {e} \notin Bad
    BY <1>2, <1>3
  <1>5. S \ {e} # {}
    <2>1. S = {e} => IsLast(S, e) BY DEF IsLast
    <2> QED BY <2>1, <1>2, <1>3
  <1>6. PICK m : IsLast(S \ {e}, m)
    BY <1>4, <1>5, <1>2
  <1>7. S \in SUBSET log /\ m \in log /\ e \in log /\ m # e
    BY <1>2, <1>3, <1>6 DEF IsLast
  <1>8. IsLast(S, m) \/ IsLast(S, e)
    <2>1. CASE Before(e, m)
      BY <2>1, <1>3, <1>6 DEF IsLast
    <2>2. CASE Before(m, e)
      <3>1. \A f \in S \ {e} : f = m \/ Before(f, m)
        BY <1>6 DEF IsLast
      <3>2. \A f \in S \ {e} : Before(f, e)
        BY <3>1, <2>2, <1>7, BeforeIsOrder
      <3> QED BY <3>2, <1>3 DEF IsLast
    <2> QED BY <2>1, <2>2, <1>7, BeforeIsOrder
  <1> QED BY <1>8, <1>2

LEMMA SortedLen ==
    ASSUME NEW log, IsFiniteSet(log)
    PROVE  /\ Cardinality(log) \in Nat
           /\ Len(Sorted(log)) = Cardinality(log)
  <1>1. Cardinality(log) \in Nat
    BY FS_CardinalityType
  <1> QED BY <1>1 DEF Sorted

\* How many events of the log come before e.
Rank(log, e) == Cardinality({f \in log : Before(f, e)})

LEMMA SortedAt ==
    ASSUME NEW log, NEW i \in 1..Cardinality(log)
    PROVE  Sorted(log)[i] = CHOOSE e \in log : Rank(log, e) = i - 1
BY Zenon DEF Sorted, Rank

\* The last event is the only one that as many events precede as there are others.
LEMMA Ranks ==
    ASSUME NEW log, Stamped(log), NEW m, IsLast(log, m)
    PROVE  LET rest == log \ {m}
               n == Cardinality(rest)
           IN  /\ IsFiniteSet(rest) /\ n \in Nat /\ Cardinality(log) = n + 1 /\ m \in log
               /\ Rank(log, m) = n
               /\ \A e \in rest : /\ Rank(log, e) = Rank(rest, e)
                                  /\ Rank(log, e) \in Nat /\ Rank(log, e) < n
  <1> DEFINE rest == log \ {m}
             n == Cardinality(rest)
  <1>1. /\ IsFiniteSet(log) /\ IsFiniteSet(rest) /\ n \in Nat
        /\ Cardinality(log) = n + 1 /\ m \in log
    <2>1. IsFiniteSet(log) /\ m \in log
      BY DEF Stamped, IsLast
    <2>2. IsFiniteSet(rest) /\ n = Cardinality(log) - 1
      BY <2>1, FS_RemoveElement
    <2>3. Cardinality(log) \in Nat /\ n \in Nat
      BY <2>1, <2>2, FS_CardinalityType
    <2> HIDE DEF rest, n
    <2> QED BY <2>1, <2>2, <2>3
  <1>2. Rank(log, m) = n
    <2>1. {f \in log : Before(f, m)} = rest
      BY BeforeIsOrder DEF IsLast
    <2> QED BY <2>1 DEF Rank
  <1>3. ASSUME NEW e \in rest
        PROVE  Rank(log, e) = Rank(rest, e) /\ Rank(log, e) \in Nat /\ Rank(log, e) < n
    <2>1. ~Before(m, e) /\ ~Before(e, e)
      BY BeforeIsOrder DEF IsLast
    <2>2. {f \in log : Before(f, e)} = {f \in rest : Before(f, e)}
      BY <2>1
    <2>3. {f \in rest : Before(f, e)} \in SUBSET (rest \ {e})
      BY <2>1
    <2>4. IsFiniteSet(rest \ {e}) /\ Cardinality(rest \ {e}) = n - 1
      BY <1>1, FS_RemoveElement
    <2>5. Rank(rest, e) <= n - 1 /\ Rank(rest, e) \in Nat
      <3> HIDE DEF rest, n
      <3> QED BY <2>3, <2>4, FS_Subset, FS_CardinalityType DEF Rank
    <2>6. Rank(log, e) = Rank(rest, e)
      BY <2>2 DEF Rank
    <2> HIDE DEF rest, n
    <2> QED BY <2>5, <2>6, <1>1
  <1> QED BY <1>1, <1>2, <1>3

\* Sorting puts the last event last, and the others as if it were not there.
LEMMA SortedLast ==
    ASSUME NEW log, Stamped(log), NEW m, IsLast(log, m)
    PROVE  /\ Cardinality(log) = Cardinality(log \ {m}) + 1
           /\ Sorted(log)[Cardinality(log)] = m
           /\ \A i \in 1..Cardinality(log \ {m}) : Sorted(log)[i] = Sorted(log \ {m})[i]
  <1> DEFINE rest == log \ {m}
             n == Cardinality(rest)
  <1>1. /\ n \in Nat /\ Cardinality(log) = n + 1 /\ m \in log
        /\ Rank(log, m) = n
        /\ \A e \in rest : /\ Rank(log, e) = Rank(rest, e)
                           /\ Rank(log, e) \in Nat /\ Rank(log, e) < n
    BY Ranks
  <1>2. log = rest \cup {m} /\ m \notin rest
    BY <1>1
  <1> HIDE DEF rest, n
  <1>3. Sorted(log)[n + 1] = m
    <2>1. Sorted(log)[n + 1] = CHOOSE e \in log : Rank(log, e) = n
      <3>1. n + 1 \in 1..Cardinality(log) /\ (n + 1) - 1 = n
        BY <1>1
      <3> QED BY <3>1, SortedAt
    <2>2. ASSUME NEW e \in log, e # m PROVE Rank(log, e) # n
      <3>1. e \in rest
        BY <2>2, <1>2
      <3>2. Rank(log, e) \in Nat /\ Rank(log, e) < n
        BY <3>1, <1>1
      <3> QED BY <3>2, <1>1
    <2> QED BY <2>1, <2>2, <1>1
  <1>4. ASSUME NEW i \in 1..n
        PROVE  Sorted(log)[i] = Sorted(rest)[i]
    <2>1. Sorted(log)[i] = CHOOSE e \in log : Rank(log, e) = i - 1
      <3>1. i \in 1..Cardinality(log)
        BY <1>1
      <3> QED BY <3>1, SortedAt
    <2>2. Sorted(rest)[i] = CHOOSE e \in rest : Rank(rest, e) = i - 1
      BY SortedAt DEF n
    <2>3. \A e : (e \in log /\ Rank(log, e) = i - 1) <=> (e \in rest /\ Rank(rest, e) = i - 1)
      <3>1. ASSUME NEW e \in rest PROVE e \in log /\ Rank(log, e) = Rank(rest, e)
        BY <1>1, <1>2
      <3>2. n # i - 1
        BY <1>1
      <3>3. \A e \in log : e \in rest \/ e = m
        BY <1>2
      <3> QED BY <3>1, <3>2, <3>3, <1>1
    <2> QED BY <2>1, <2>2, <2>3, Zenon
  <1> QED BY <1>1, <1>3, <1>4 DEF rest, n

----------------------------------------------------------------------------
(* The fold, one event at a time.                                           *)

\* The fold of a log with a set of voided ids of its own.
FoldWith(log, voided) == Loop(Sorted(log), voided)[Cardinality(log)]

LEMMA FoldOfNothing ==
    ASSUME NEW voided
    PROVE  FoldWith({}, voided) = EmptyState
  <1>1. Cardinality({}) = 0 /\ IsFiniteSet({})
    BY FS_EmptySet
  <1>2. Len(Sorted({})) = 0
    BY <1>1, SortedLen
  <1> QED BY <1>1, <1>2, LoopSteps DEF FoldWith

\* What the fold of a log adds to that of the log without its last event.
LEMMA FoldStep ==
    ASSUME NEW log, Stamped(log), NEW m, IsLast(log, m), NEW voided
    PROVE  FoldWith(log, voided) = Turn(FoldWith(log \ {m}, voided), m, voided)
  <1> DEFINE rest == log \ {m}
             n == Cardinality(rest)
  <1>1. IsFiniteSet(log) /\ IsFiniteSet(rest)
    BY FS_RemoveElement DEF Stamped
  <1>2. /\ n \in Nat /\ Cardinality(log) = n + 1
        /\ Len(Sorted(log)) = n + 1 /\ Len(Sorted(rest)) = n
    BY <1>1, SortedLen, SortedLast
  <1>3. Loop(Sorted(log), voided)[n] = Loop(Sorted(rest), voided)[n]
    BY <1>2, SortedLast, LoopsAgree
  <1>4. Loop(Sorted(log), voided)[n + 1]
          = Turn(Loop(Sorted(log), voided)[n], Sorted(log)[n + 1], voided)
    BY <1>2, LoopSteps
  <1>5. Sorted(log)[n + 1] = m
    BY <1>2, SortedLast
  <1> QED BY <1>2, <1>3, <1>4, <1>5 DEF FoldWith

----------------------------------------------------------------------------
(* A customer's part of the fold.                                           *)

\* The switch reads the customer of the events it has a case for.
Typed(log) == \A e \in log : e.type \in OfCustomer => HasCustomer(e)

\* The two states hold the same of customer c.
SameOf(s, t, c) ==
    /\ c \in DOMAIN s.customers <=> c \in DOMAIN t.customers
    /\ c \in DOMAIN s.customers => s.customers[c] = t.customers[c]
    /\ c \in DOMAIN s.balances <=> c \in DOMAIN t.balances
    /\ c \in DOMAIN s.balances => s.balances[c] = t.balances[c]

LEMMA SameRows ==
    ASSUME NEW s, NEW t, NEW c, SameOf(s, t, c)
    PROVE  CustomerRow(s, c) = CustomerRow(t, c) /\ BalanceRow(s, c) = BalanceRow(t, c)
BY DEF SameOf, CustomerRow, BalanceRow

LEMMA PutAlike ==
    ASSUME NEW f, NEW g, NEW k, NEW v, NEW c,
           c \in DOMAIN f <=> c \in DOMAIN g,
           c \in DOMAIN f => f[c] = g[c]
    PROVE  /\ c \in DOMAIN Put(f, k, v) <=> c \in DOMAIN Put(g, k, v)
           /\ c \in DOMAIN Put(f, k, v) => Put(f, k, v)[c] = Put(g, k, v)[c]
           /\ k # c => /\ c \in DOMAIN Put(f, k, v) <=> c \in DOMAIN f
                       /\ c \in DOMAIN f => Put(f, k, v)[c] = f[c]
BY DEF Put

\* Who is concerned by an event of the switch.
Concerns(e, c) == e.type \in OfCustomer /\ e.customer = c

\* An event leaves alone what is held of those it does not concern.
LEMMA TurnElsewhere ==
    ASSUME NEW s, NEW e, NEW voided, NEW c, ~Concerns(e, c)
    PROVE  SameOf(Turn(s, e, voided), s, c)
  <1>1. SUFFICES ASSUME Turn(s, e, voided) = Apply(s, e)
                 PROVE  SameOf(Apply(s, e), s, c)
    BY DEF Turn, SameOf
  <1>2. CASE e.type \in Entries
    <2>1. e.customer # c /\ e.type \notin OfCustomer \ Entries
      BY <1>2 DEF Concerns, OfCustomer
    <2>2. Apply(s, e).customers = s.customers
      BY <2>1 DEF Apply
    <2>3. PICK v : ApplyBalanceDelta(s.balances, e) = Put(s.balances, e.customer, v)
      BY DEF ApplyBalanceDelta
    <2>4. Apply(s, e).balances = Put(s.balances, e.customer, v)
      BY <1>2, <2>3 DEF Apply
    <2> QED BY <2>1, <2>2, <2>4 DEF SameOf, Put
  <1>3. CASE e.type \in OfCustomer \ Entries
    <2>1. e.customer # c
      BY <1>3 DEF Concerns
    <2>2. Apply(s, e).balances = s.balances
      BY <1>3 DEF Apply
    <2>3. Apply(s, e).customers = ApplyCustomer(s.customers, e)
      BY <1>3 DEF Apply
    <2>4. /\ c \in DOMAIN ApplyCustomer(s.customers, e) <=> c \in DOMAIN s.customers
          /\ c \in DOMAIN s.customers => ApplyCustomer(s.customers, e)[c] = s.customers[c]
      BY <2>1, <1>3 DEF ApplyCustomer, Put, OfCustomer, Entries
    <2> QED BY <2>2, <2>3, <2>4 DEF SameOf
  <1>4. CASE e.type \notin OfCustomer
    BY <1>4 DEF Apply, OfCustomer, SameOf
  <1> QED BY <1>2, <1>3, <1>4

\* What an event makes of a customer depends on what is held of that customer,
\* and on whether the event is voided.
LEMMA TurnAlike ==
    ASSUME NEW s, NEW t, NEW e, NEW V, NEW W, NEW c, SameOf(s, t, c),
           Concerns(e, c) => (e.id \in V <=> e.id \in W)
    PROVE  SameOf(Turn(s, e, V), Turn(t, e, W), c)
  <1>1. CASE ~Concerns(e, c)
    <2>1. SameOf(Turn(s, e, V), s, c) /\ SameOf(Turn(t, e, W), t, c)
      BY <1>1, TurnElsewhere
    <2> QED BY <2>1 DEF SameOf
  <1>2. CASE Concerns(e, c)
    <2>1. \/ Turn(s, e, V) = s /\ Turn(t, e, W) = t
          \/ Turn(s, e, V) = Apply(s, e) /\ Turn(t, e, W) = Apply(t, e)
      BY <1>2 DEF Turn
    <2>2. SameOf(Apply(s, e), Apply(t, e), c)
      <3>1. CASE e.type \in Entries
        <4>1. ApplyBalanceDelta(s.balances, e)[c] = ApplyBalanceDelta(t.balances, e)[c]
          BY <1>2 DEF ApplyBalanceDelta, Put, SameOf, Concerns
        <4>2. c \in DOMAIN ApplyBalanceDelta(s.balances, e)
              /\ c \in DOMAIN ApplyBalanceDelta(t.balances, e)
          BY <1>2 DEF ApplyBalanceDelta, Put, Concerns
        <4> QED BY <3>1, <4>1, <4>2 DEF Apply, SameOf
      <3>2. CASE e.type \in OfCustomer \ Entries
        <4> DEFINE f == s.customers  g == t.customers
        <4>1. /\ c \in DOMAIN ApplyCustomer(f, e) <=> c \in DOMAIN ApplyCustomer(g, e)
              /\ c \in DOMAIN ApplyCustomer(f, e) =>
                    ApplyCustomer(f, e)[c] = ApplyCustomer(g, e)[c]
          <5>1. /\ e.customer = c
                /\ c \in DOMAIN f <=> c \in DOMAIN g
                /\ c \in DOMAIN f => f[c] = g[c]
            BY <1>2 DEF SameOf, Concerns
          <5> HIDE DEF f, g
          <5>2. CASE e.type = "CUSTOMER_ADDED"
            BY <5>1, <5>2 DEF ApplyCustomer, Put
          <5>3. CASE e.type = "CUSTOMER_RENAMED"
            BY <5>1, <5>3 DEF ApplyCustomer
          <5>4. CASE e.type = "CUSTOMER_ARCHIVED"
            BY <5>1, <5>4 DEF ApplyCustomer
          <5> QED BY <5>2, <5>3, <5>4, <3>2 DEF OfCustomer
        <4> QED BY <3>2, <4>1 DEF Apply, SameOf
      <3> QED BY <3>1, <3>2, <1>2 DEF Concerns
    <2> QED BY <2>1, <2>2
  <1> QED BY <1>1, <1>2

\* A part of a log that has all the events that concern a customer holds the
\* same of that customer, whatever else it leaves out.
LEMMA PartHoldsTheSame ==
    ASSUME NEW log, Stamped(log), NEW part \in SUBSET log, NEW V, NEW W, NEW c,
           \A e \in log : Concerns(e, c) => e \in part /\ (e.id \in V <=> e.id \in W)
    PROVE  SameOf(FoldWith(part, W), FoldWith(log, V), c)
  <1> DEFINE Good(S) == SameOf(FoldWith(S \cap part, W), FoldWith(S, V), c)
             Bad == {S \in SUBSET log : ~Good(S)}
  <1>1. SUFFICES ASSUME Bad # {} PROVE FALSE
    <2>1. log \notin Bad /\ log \cap part = part
      BY <1>1
    <2> QED BY <2>1
  <1>2. PICK S \in Bad : \A U \in SUBSET S : U \in Bad => U = S
    <2>1. Bad \in SUBSET SUBSET log OBVIOUS
    <2> HIDE DEF Bad
    <2> QED BY <1>1, <2>1, LeastSubset DEF Stamped
  <1>3. S \in SUBSET log /\ ~Good(S) /\ Stamped(S)
    BY <1>2, StampedPart
  <1>4. CASE S = {}
    <2>1. S \cap part = {}
      BY <1>4
    <2>2. SameOf(EmptyState, EmptyState, c)
      BY DEF SameOf
    <2> QED BY <1>3, <1>4, <2>1, <2>2, FoldOfNothing
  <1>5. CASE S # {}
    <2>1. PICK m : IsLast(S, m)
      BY <1>3, <1>5, LastExists
    <2>2. m \in S /\ m \in log
      BY <2>1, <1>3 DEF IsLast
    <2> DEFINE U == S \ {m}
    <2>3. Good(U)
      <3>1. U \in SUBSET S /\ U # S /\ U \in SUBSET log
        BY <2>2, <1>3
      <3> QED BY <3>1, <1>2
    <2>4. FoldWith(S, V) = Turn(FoldWith(U, V), m, V)
      BY <1>3, <2>1, FoldStep
    <2>5. CASE m \in part
      <3>1. IsLast(S \cap part, m) /\ Stamped(S \cap part) /\ (S \cap part) \ {m} = U \cap part
        <4>1. S \cap part \in SUBSET S
          OBVIOUS
        <4> QED BY <2>1, <2>5, <1>3, <4>1, StampedPart DEF IsLast
      <3>2. FoldWith(S \cap part, W) = Turn(FoldWith(U \cap part, W), m, W)
        BY <3>1, FoldStep
      <3>3. Concerns(m, c) => (m.id \in W <=> m.id \in V)
        BY <2>2
      <3>4. SameOf(FoldWith(S \cap part, W), FoldWith(S, V), c)
        <4> HIDE DEF U
        <4> QED BY <2>3, <2>4, <3>2, <3>3, TurnAlike DEF U
      <3> QED BY <3>4, <1>3
    <2>6. CASE m \notin part
      <3>1. S \cap part = U \cap part
        BY <2>6
      <3>2. ~Concerns(m, c)
        BY <2>2, <2>6
      <3>3. SameOf(Turn(FoldWith(U, V), m, V), FoldWith(U, V), c)
        BY <3>2, TurnElsewhere
      <3>4. SameOf(FoldWith(U \cap part, W), FoldWith(U, V), c)
        BY <2>3
      <3>5. SameOf(FoldWith(S \cap part, W), FoldWith(S, V), c)
        BY <2>4, <3>1, <3>3, <3>4 DEF SameOf
      <3> QED BY <3>5, <1>3
    <2> QED BY <2>5, <2>6
  <1> QED BY <1>4, <1>5

\* What getEventsForCustomer returns folds to what the whole log folds to, as far
\* as the customer's two rows go: why append and merge may re-fold one customer.
THEOREM PartIsWhole ==
    ASSUME NEW log, Stamped(log), Typed(log), NEW c
    PROVE  LET part == Fold(EventsForCustomer(log, c))
               whole == Fold(log)
           IN  /\ CustomerRow(part, c) = CustomerRow(whole, c)
               /\ BalanceRow(part, c) = BalanceRow(whole, c)
  <1> DEFINE part == EventsForCustomer(log, c)
             V == VoidedIds(log)
             W == VoidedIds(part)
  <1>1. part \in SUBSET log
    BY DEF EventsForCustomer
  <1>2. ASSUME NEW e \in log, Concerns(e, c)
        PROVE  e \in part /\ (e.id \in V <=> e.id \in W)
    <2>1. HasCustomer(e) /\ e.customer = c
      BY <1>2 DEF Concerns, Typed
    <2>2. e \in part
      BY <2>1 DEF EventsForCustomer
    <2>3. \A v \in log : v.type = "ENTRY_VOIDED" /\ v.target = e.id => v \in part
      BY <2>1 DEF EventsForCustomer
    <2>4. e.id \in V <=> \E v \in log : v.type = "ENTRY_VOIDED" /\ v.target = e.id
      BY DEF VoidedIds
    <2>5. e.id \in W <=> \E v \in part : v.type = "ENTRY_VOIDED" /\ v.target = e.id
      BY DEF VoidedIds
    <2> HIDE DEF part, V, W
    <2> QED BY <2>2, <2>3, <2>4, <2>5, <1>1
  <1>3. Fold(log) = FoldWith(log, V) /\ Fold(part) = FoldWith(part, W)
    BY DEF Fold, FoldWith
  <1>4. SameOf(FoldWith(part, W), FoldWith(log, V), c)
    <2> HIDE DEF part, V, W
    <2> QED BY <1>1, <1>2, PartHoldsTheSame
  <1> HIDE DEF part, V, W
  <1> QED BY <1>3, <1>4, SameRows DEF part

\* An event that does not affect c is not among the events of c.
LEMMA UnaffectedPart ==
    ASSUME NEW log, NEW e, e.type = "ENTRY_VOIDED" => ~HasCustomer(e),
           NEW c, c \notin Owners(log \cup {e}, e)
    PROVE  EventsForCustomer(log \cup {e}, c) = EventsForCustomer(log, c)
  <1> DEFINE direct == {f \in log : HasCustomer(f) /\ f.customer = c}
  <1>1. {f \in log \cup {e} : HasCustomer(f) /\ f.customer = c} = direct
    BY DEF Owners
  <1>2. e.type = "ENTRY_VOIDED" => ~\E f \in direct : f.id = e.target
    <2> SUFFICES ASSUME e.type = "ENTRY_VOIDED", NEW f \in direct, f.id = e.target PROVE FALSE
      OBVIOUS
    <2>1. ~HasCustomer(e) OBVIOUS
    <2> QED BY <2>1 DEF Owners
  <1> HIDE DEF direct
  <1>3. {f \in log \cup {e} : f.type = "ENTRY_VOIDED" /\ \E g \in direct : g.id = f.target}
        = {f \in log : f.type = "ENTRY_VOIDED" /\ \E g \in direct : g.id = f.target}
    BY <1>2
  <1> QED BY <1>1, <1>3 DEF EventsForCustomer, direct

----------------------------------------------------------------------------
(* The two tick functions of module Hlc.                                    *)

\* tick returns a clock strictly ahead of the one it was given.
LEMMA TickAdvances ==
    ASSUME NEW s \in HlcState, NEW now \in Nat
    PROVE  /\ Tick(s, now) \in HlcState
           /\ StateLess(s, Tick(s, now))
BY DEF Tick, HlcState, StateLess, Larger

\* tickReceive returns a clock strictly ahead of its own and of the remote one.
LEMMA ReceiveAdvances ==
    ASSUME NEW s \in HlcState, NEW r \in HlcState, NEW now \in Nat
    PROVE  /\ TickReceive(s, r, now) \in HlcState
           /\ StateLess(s, TickReceive(s, r, now))
           /\ StateLess(r, TickReceive(s, r, now))
<1> DEFINE l == Larger(Larger(s.l, r.l), now)
           c == IF l = s.l /\ l = r.l THEN Larger(s.c, r.c) + 1
                ELSE IF l = s.l THEN s.c + 1
                ELSE IF l = r.l THEN r.c + 1 ELSE 0
<1>1. /\ s.l \in Nat /\ s.c \in Nat /\ r.l \in Nat /\ r.c \in Nat
      BY DEF HlcState
<1>2. l \in Nat /\ l >= s.l /\ l >= r.l
      BY <1>1 DEF Larger
<1>3. c \in Nat /\ (l = s.l => c > s.c) /\ (l = r.l => c > r.c)
      BY <1>1, <1>2 DEF Larger
<1>4. TickReceive(s, r, now) = [l |-> l, c |-> c]
      BY DEF TickReceive
<1> HIDE DEF l, c
<1> QED BY <1>1, <1>2, <1>3, <1>4 DEF HlcState, StateLess
=============================================================================
