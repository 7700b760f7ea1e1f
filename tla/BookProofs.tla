----------------------------- MODULE BookProofs -----------------------------
(* Proofs about module Books: the folds of the customers and of the stock,  *)
(* and a customer's history, give what the reference says, for every log.   *)
EXTENDS Books, LedgerProofs

----------------------------------------------------------------------------
(* Sums over finite sets.                                                   *)

\* h is the sum of g over every subset of S, one element after another.
SumRun(h, g, S) ==
    h = [s \in SUBSET S |-> IF s = {} THEN 0
                            ELSE LET x == CHOOSE x \in s : TRUE IN g[x] + h[s \ {x}]]

Sum(g, S) == (CHOOSE h : SumRun(h, g, S))[S]

LEMMA SumRunAt ==
    ASSUME NEW h, NEW g, NEW S, SumRun(h, g, S), NEW s \in SUBSET S
    PROVE  /\ s = {} => h[s] = 0
           /\ s # {} => \E x \in s : /\ x = CHOOSE y \in s : TRUE
                                     /\ s \ {x} \in SUBSET S
                                     /\ h[s] = g[x] + h[s \ {x}]
  <1> DEFINE x == CHOOSE y \in s : TRUE
  <1>1. h[s] = IF s = {} THEN 0 ELSE g[x] + h[s \ {x}]
    BY DEF SumRun
  <1>2. s # {} => x \in s
    OBVIOUS
  <1> HIDE DEF x
  <1>3. s # {} => s \ {x} \in SUBSET S
    OBVIOUS
  <1> QED BY <1>1, <1>2, <1>3 DEF x

\* Runs over two sets agree on what is a part of both.
LEMMA SumRunsAgree ==
    ASSUME NEW h, NEW k, NEW g, NEW f, NEW S, NEW T, SumRun(h, g, S), SumRun(k, f, T),
           NEW L \in SUBSET (S \cap T), IsFiniteSet(L), \A x \in L : g[x] = f[x]
    PROVE  h[L] = k[L]
  <1> DEFINE Bad == {s \in SUBSET L : h[s] # k[s]}
  <1>1. SUFFICES ASSUME Bad # {} PROVE FALSE
    <2>1. L \notin Bad BY <1>1
    <2> QED BY <2>1
  <1>2. PICK s \in Bad : \A U \in SUBSET s : U \in Bad => U = s
    <2>1. Bad \in SUBSET SUBSET L OBVIOUS
    <2> HIDE DEF Bad
    <2> QED BY <1>1, <2>1, LeastSubset
  <1>3. s \in SUBSET S /\ s \in SUBSET T /\ s \in SUBSET L /\ h[s] # k[s]
    BY <1>2
  <1>4. s # {}
    BY <1>3, SumRunAt
  <1>5. PICK x \in s : x = (CHOOSE y \in s : TRUE) /\ h[s] = g[x] + h[s \ {x}]
    BY <1>3, <1>4, SumRunAt
  <1>6. k[s] = f[x] + k[s \ {x}]
    <2>1. PICK z \in s : z = (CHOOSE y \in s : TRUE) /\ k[s] = f[z] + k[s \ {z}]
      BY <1>3, <1>4, SumRunAt
    <2>2. z = x
      BY <2>1, <1>5
    <2> QED BY <2>1, <2>2
  <1>7. h[s \ {x}] = k[s \ {x}]
    <2>1. s \ {x} \in SUBSET s /\ s \ {x} # s
      BY <1>5
    <2> QED BY <2>1, <1>2, <1>3
  <1>8. g[x] = f[x]
    BY <1>3, <1>5
  <1> QED BY <1>3, <1>5, <1>6, <1>7, <1>8

LEMMA SumRunExists ==
    ASSUME NEW g, NEW S, IsFiniteSet(S)
    PROVE  \E h : SumRun(h, g, S)
  <1> DEFINE Bad == {T \in SUBSET S : ~\E h : SumRun(h, g, T)}
  <1>1. SUFFICES ASSUME Bad # {} PROVE FALSE
    <2>1. S \notin Bad BY <1>1
    <2> QED BY <2>1
  <1>2. PICK T \in Bad : \A U \in SUBSET T : U \in Bad => U = T
    <2>1. Bad \in SUBSET SUBSET S OBVIOUS
    <2> HIDE DEF Bad
    <2> QED BY <1>1, <2>1, LeastSubset
  <1> DEFINE Run(U) == CHOOSE h : SumRun(h, g, U)
             Gap(s) == CHOOSE y \in T : y \notin s
             x == CHOOSE y \in T : TRUE
             k == [s \in SUBSET T |-> IF s # T THEN Run(T \ {Gap(s)})[s]
                                      ELSE IF T = {} THEN 0
                                      ELSE g[x] + Run(T \ {x})[T \ {x}]]
  <1>3. IsFiniteSet(T) /\ T \in SUBSET S
    BY <1>2, FS_Subset
  <1>4. ASSUME NEW y \in T PROVE SumRun(Run(T \ {y}), g, T \ {y})
    <2>1. T \ {y} \notin Bad
      BY <1>2
    <2>2. \E h : SumRun(h, g, T \ {y})
      BY <2>1, <1>3
    <2> QED BY <2>2
  <1>5. ASSUME NEW s \in SUBSET T, s # T PROVE Gap(s) \in T /\ Gap(s) \notin s
    <2>1. \E y \in T : y \notin s
      BY <1>5
    <2> QED BY <2>1
  <1> HIDE DEF Run, Gap
  <1>6. ASSUME NEW s \in SUBSET T, NEW y \in T, y \notin s
        PROVE  k[s] = Run(T \ {y})[s]
    <2>1. s # T /\ k[s] = Run(T \ {Gap(s)})[s]
      BY <1>6
    <2>2. Gap(s) \in T /\ Gap(s) \notin s
      BY <2>1, <1>5
    <2>3. SumRun(Run(T \ {Gap(s)}), g, T \ {Gap(s)}) /\ SumRun(Run(T \ {y}), g, T \ {y})
      BY <2>2, <1>4
    <2>4. s \in SUBSET ((T \ {Gap(s)}) \cap (T \ {y})) /\ IsFiniteSet(s)
      BY <2>2, <1>3, <1>6, FS_Subset
    <2> HIDE DEF k
    <2> QED BY <2>1, <2>3, <2>4, SumRunsAgree
  <1>7. ASSUME NEW s \in SUBSET T
        PROVE  k[s] = IF s = {} THEN 0
                      ELSE LET z == CHOOSE z \in s : TRUE IN g[z] + k[s \ {z}]
    <2>1. CASE s = T
      <3>1. CASE T = {}
        BY <2>1, <3>1
      <3>2. CASE T # {}
        <4>1. x \in T /\ k[s] = g[x] + Run(T \ {x})[T \ {x}]
          BY <2>1, <3>2
        <4>2. k[T \ {x}] = Run(T \ {x})[T \ {x}]
          <5>1. T \ {x} \in SUBSET T /\ x \notin T \ {x}
            OBVIOUS
          <5> HIDE DEF k, x
          <5> QED BY <5>1, <4>1, <1>6
        <4> HIDE DEF k
        <4> QED BY <4>1, <4>2, <2>1, <3>2
      <3> QED BY <3>1, <3>2
    <2>2. CASE s # T
      <3> DEFINE y == Gap(s)
                 h == Run(T \ {y})
                 z == CHOOSE z \in s : TRUE
      <3>1. y \in T /\ y \notin s
        BY <2>2, <1>5
      <3>2. k[s] = h[s] /\ SumRun(h, g, T \ {y})
        <4> HIDE DEF k
        <4> QED BY <3>1, <1>4, <1>6
      <3>3. s \in SUBSET (T \ {y})
        BY <3>1
      <3> HIDE DEF k, y, h
      <3>4. h[s] = IF s = {} THEN 0 ELSE g[z] + h[s \ {z}]
        BY <3>2, <3>3 DEF SumRun
      <3>5. s # {} => k[s \ {z}] = h[s \ {z}]
        <4>1. s \ {z} \in SUBSET T /\ y \notin s \ {z}
          BY <3>1
        <4> HIDE DEF z
        <4> QED BY <4>1, <3>1, <1>6 DEF h
      <3> QED BY <3>2, <3>4, <3>5
    <2> QED BY <2>1, <2>2
  <1>8. k = [s \in SUBSET T |-> k[s]]
    OBVIOUS
  <1> HIDE DEF k
  <1>9. SumRun(k, g, T)
    BY <1>7, <1>8 DEF SumRun
  <1> QED BY <1>9, <1>2

\* Sum takes one element after another, in any order.
LEMMA SumSteps ==
    ASSUME NEW g, NEW S, IsFiniteSet(S), NEW h, SumRun(h, g, S), \A x \in S : g[x] \in Int
    PROVE  \A s \in SUBSET S : h[s] \in Int /\ \A x \in s : h[s] = g[x] + h[s \ {x}]
  <1> DEFINE Good(s) == h[s] \in Int /\ \A x \in s : h[s] = g[x] + h[s \ {x}]
             Bad == {s \in SUBSET S : ~Good(s)}
  <1>1. SUFFICES ASSUME Bad # {} PROVE FALSE
    OBVIOUS
  <1>2. PICK s \in Bad : \A U \in SUBSET s : U \in Bad => U = s
    <2>1. Bad \in SUBSET SUBSET S OBVIOUS
    <2> HIDE DEF Bad
    <2> QED BY <1>1, <2>1, LeastSubset
  <1>3. s \in SUBSET S /\ ~Good(s)
    BY <1>2
  <1>4. s # {}
    <2>1. s = {} => h[s] = 0
      BY <1>3, SumRunAt
    <2> QED BY <2>1, <1>3
  <1>5. PICK y \in s : h[s] = g[y] + h[s \ {y}]
    BY <1>3, <1>4, SumRunAt
  <1>6. ASSUME NEW x \in s PROVE Good(s \ {x})
    <2>1. s \ {x} \in SUBSET s /\ s \ {x} # s /\ s \ {x} \in SUBSET S
      BY <1>3
    <2> QED BY <2>1, <1>2
  <1>7. h[s] \in Int
    BY <1>3, <1>5, <1>6
  <1>8. ASSUME NEW x \in s, x # y PROVE h[s] = g[x] + h[s \ {x}]
    <2> DEFINE others == h[(s \ {y}) \ {x}]
    <2>1. h[s \ {y}] = g[x] + others
      BY <1>6, <1>8
    <2>2. h[s \ {x}] = g[y] + others
      <3>1. (s \ {y}) \ {x} = (s \ {x}) \ {y}
        OBVIOUS
      <3>2. h[s \ {x}] = g[y] + h[(s \ {x}) \ {y}]
        BY <1>6, <1>8
      <3> QED BY <3>1, <3>2
    <2>4. others \in Int
      <3>1. (s \ {y}) \ {x} \in SUBSET s /\ (s \ {y}) \ {x} # s /\ (s \ {y}) \ {x} \in SUBSET S
        BY <1>3
      <3> QED BY <3>1, <1>2
    <2>5. g[x] \in Int /\ g[y] \in Int
      BY <1>3
    <2> HIDE DEF others
    <2> QED BY <1>5, <2>1, <2>2, <2>4, <2>5
  <1> QED BY <1>3, <1>5, <1>7, <1>8

LEMMA SumOfNothing == ASSUME NEW g PROVE Sum(g, {}) = 0
  <1>1. PICK h : SumRun(h, g, {})
    BY SumRunExists, FS_EmptySet
  <1>2. SumRun(CHOOSE k : SumRun(k, g, {}), g, {})
    BY <1>1
  <1> QED BY <1>2, SumRunAt DEF Sum

\* What one element more adds to a sum.
LEMMA SumAdds ==
    ASSUME NEW S, IsFiniteSet(S), NEW m, m \notin S, NEW g, NEW f, \A x \in S : g[x] = f[x],
           \A x \in S \cup {m} : f[x] \in Int
    PROVE  Sum(f, S \cup {m}) = Sum(g, S) + f[m] /\ Sum(g, S) \in Int
  <1> DEFINE T == S \cup {m}
             h == CHOOSE k : SumRun(k, g, S)
             k == CHOOSE k : SumRun(k, f, T)
  <1>1. IsFiniteSet(T)
    BY FS_AddElement
  <1>2. SumRun(h, g, S) /\ SumRun(k, f, T)
    <2>1. (\E q : SumRun(q, g, S)) /\ (\E q : SumRun(q, f, T))
      BY <1>1, SumRunExists
    <2> QED BY <2>1
  <1>3. Sum(g, S) = h[S] /\ Sum(f, T) = k[T]
    BY DEF Sum
  <1> HIDE DEF h, k
  <1>4. k[T] = f[m] + k[T \ {m}]
    <2>1. m \in T /\ T \in SUBSET T /\ \A x \in T : f[x] \in Int OBVIOUS
    <2> HIDE DEF T
    <2> QED BY <2>1, <1>1, <1>2, SumSteps
  <1>5. T \ {m} = S
    OBVIOUS
  <1>6. h[S] = k[S]
    <2>1. S \in SUBSET (S \cap T)
      OBVIOUS
    <2> HIDE DEF T
    <2> QED BY <2>1, <1>2, SumRunsAgree
  <1>7. h[S] \in Int
    <2>1. S \in SUBSET S /\ \A x \in S : g[x] \in Int OBVIOUS
    <2> QED BY <2>1, <1>2, SumSteps
  <1>8. f[m] \in Int
    OBVIOUS
  <1> HIDE DEF T
  <1>9. k[T] = f[m] + h[S]
    BY <1>4, <1>5, <1>6
  <1> QED BY <1>3, <1>7, <1>8, <1>9 DEF T

LEMMA SumIsInt ==
    ASSUME NEW S, IsFiniteSet(S), NEW g, \A x \in S : g[x] \in Int PROVE Sum(g, S) \in Int
  <1> DEFINE h == CHOOSE k : SumRun(k, g, S)
  <1>1. SumRun(h, g, S)
    BY SumRunExists
  <1>2. Sum(g, S) = h[S]
    BY DEF Sum
  <1> HIDE DEF h
  <1> QED BY <1>1, <1>2, SumSteps

\* The sums of the reference are such sums.
LEMMA TotalIsSum ==
    ASSUME NEW S, IsFiniteSet(S) PROVE Total(S) = Sum([x \in S |-> x.amount], S)
  <1> DEFINE g == [x \in S |-> x.amount]
             Iter(h) == h = [s \in SUBSET S |->
                                IF s = {} THEN 0
                                ELSE LET x == CHOOSE x \in s : TRUE IN x.amount + h[s \ {x}]]
  <1>1. Total(S) = (CHOOSE h : Iter(h))[S]
    BY DEF Total, MapThenSumSet, MapThenFoldSet
  <1>2. ASSUME NEW h PROVE Iter(h) <=> SumRun(h, g, S)
    <2>1. ASSUME NEW s \in SUBSET S, s # {}
          PROVE  (CHOOSE x \in s : TRUE).amount = g[CHOOSE x \in s : TRUE]
      <3>1. (CHOOSE x \in s : TRUE) \in s BY <2>1
      <3> QED BY <3>1
    <2> HIDE DEF g
    <2>2. [s \in SUBSET S |-> IF s = {} THEN 0
                  ELSE LET x == CHOOSE x \in s : TRUE IN x.amount + h[s \ {x}]]
          = [s \in SUBSET S |-> IF s = {} THEN 0
                  ELSE LET x == CHOOSE x \in s : TRUE IN g[x] + h[s \ {x}]]
      BY <2>1
    <2> QED BY <2>2 DEF SumRun
  <1>3. (CHOOSE h : Iter(h)) = (CHOOSE h : SumRun(h, g, S))
    <2> HIDE DEF Iter, g
    <2> QED BY <1>2, Zenon
  <1> QED BY <1>1, <1>3 DEF Sum

LEMMA TotalAdds ==
    ASSUME NEW S, IsFiniteSet(S), NEW m, m \notin S, \A e \in S \cup {m} : e.amount \in Int
    PROVE  Total(S \cup {m}) = Total(S) + m.amount /\ Total(S) \in Int
  <1> DEFINE T == S \cup {m}
             g == [e \in S |-> e.amount]
             f == [e \in T |-> e.amount]
  <1>1. IsFiniteSet(T)
    BY FS_AddElement
  <1>2. Total(S) = Sum(g, S) /\ Total(T) = Sum(f, T)
    <2> HIDE DEF T
    <2> QED BY <1>1, TotalIsSum DEF g, f
  <1>3. (\A e \in S : g[e] = f[e]) /\ (\A e \in S \cup {m} : f[e] \in Int) /\ f[m] = m.amount
    OBVIOUS
  <1> HIDE DEF g, f
  <1>4. Sum(f, S \cup {m}) = Sum(g, S) + f[m] /\ Sum(g, S) \in Int
    BY <1>3, SumAdds
  <1> QED BY <1>2, <1>3, <1>4

LEMMA TotalOfNothing == Total({}) = 0
BY FS_EmptySet, TotalIsSum, SumOfNothing

LEMMA UnitsIsSum ==
    ASSUME NEW S, IsFiniteSet(S) PROVE Units(S) = Sum([x \in S |-> x.units], S)
  <1> DEFINE g == [x \in S |-> x.units]
             Iter(h) == h = [s \in SUBSET S |->
                                IF s = {} THEN 0
                                ELSE LET x == CHOOSE x \in s : TRUE IN x.units + h[s \ {x}]]
  <1>1. Units(S) = (CHOOSE h : Iter(h))[S]
    BY DEF Units, MapThenSumSet, MapThenFoldSet
  <1>2. ASSUME NEW h PROVE Iter(h) <=> SumRun(h, g, S)
    <2>1. ASSUME NEW s \in SUBSET S, s # {}
          PROVE  (CHOOSE x \in s : TRUE).units = g[CHOOSE x \in s : TRUE]
      <3>1. (CHOOSE x \in s : TRUE) \in s BY <2>1
      <3> QED BY <3>1
    <2> HIDE DEF g
    <2>2. [s \in SUBSET S |-> IF s = {} THEN 0
                  ELSE LET x == CHOOSE x \in s : TRUE IN x.units + h[s \ {x}]]
          = [s \in SUBSET S |-> IF s = {} THEN 0
                  ELSE LET x == CHOOSE x \in s : TRUE IN g[x] + h[s \ {x}]]
      BY <2>1
    <2> QED BY <2>2 DEF SumRun
  <1>3. (CHOOSE h : Iter(h)) = (CHOOSE h : SumRun(h, g, S))
    <2> HIDE DEF Iter, g
    <2> QED BY <1>2, Zenon
  <1> QED BY <1>1, <1>3 DEF Sum

LEMMA UnitsAdds ==
    ASSUME NEW S, IsFiniteSet(S), NEW m, m \notin S, \A e \in S \cup {m} : e.units \in Int
    PROVE  Units(S \cup {m}) = Units(S) + m.units /\ Units(S) \in Int
  <1> DEFINE T == S \cup {m}
             g == [e \in S |-> e.units]
             f == [e \in T |-> e.units]
  <1>1. IsFiniteSet(T)
    BY FS_AddElement
  <1>2. Units(S) = Sum(g, S) /\ Units(T) = Sum(f, T)
    <2> HIDE DEF T
    <2> QED BY <1>1, UnitsIsSum DEF g, f
  <1>3. (\A e \in S : g[e] = f[e]) /\ (\A e \in S \cup {m} : f[e] \in Int) /\ f[m] = m.units
    OBVIOUS
  <1> HIDE DEF g, f
  <1>4. Sum(f, S \cup {m}) = Sum(g, S) + f[m] /\ Sum(g, S) \in Int
    BY <1>3, SumAdds
  <1> QED BY <1>2, <1>3, <1>4

LEMMA UnitsOfNothing == Units({}) = 0
BY FS_EmptySet, UnitsIsSum, SumOfNothing

----------------------------------------------------------------------------
(* The latest event and the largest time of a set.                          *)

LEMMA LatestIs ==
    ASSUME NEW S, Stamped(S), NEW m, IsLast(S, m) PROVE Latest(S) = m
  <1>1. m \in S /\ \A f \in S : f = m \/ Before(f, m)
    BY DEF IsLast
  <1>2. ASSUME NEW e \in S, \A f \in S : f = e \/ Before(f, e) PROVE e = m
    BY <1>1, <1>2, BeforeIsOrder
  <1>3. Latest(S) \in S /\ \A f \in S : f = Latest(S) \/ Before(f, Latest(S))
    BY <1>1 DEF Latest
  <1> QED BY <1>2, <1>3

LEMMA MaxIs ==
    ASSUME NEW S \in SUBSET Int, NEW m \in S, \A x \in S : x <= m PROVE Max(S) = m
  <1>1. \A y \in S : m >= y
    OBVIOUS
  <1>2. Max(S) \in S /\ \A y \in S : Max(S) >= y
    BY <1>1 DEF Max
  <1>3. Max(S) >= m /\ Max(S) <= m /\ Max(S) \in Int /\ m \in Int
    BY <1>2
  <1> HIDE DEF Max
  <1> QED BY <1>3

----------------------------------------------------------------------------
(* The log of a shop.                                                       *)

\* What every log is made of.
IsEvent(e) ==
    \E i \in 1..Slots : \E p \in (UNION Books) \cup Voids : e = EventOf(i, p)

LogOk == /\ book \in Books
         /\ IsFiniteSet(log)
         /\ \A e \in log : IsEvent(e)
         /\ \A e, f \in log : e.id = f.id => e = f

\* What an event has of what the folds read.
Readable(e) ==
    /\ e.hlc \in [l : Nat, c : Nat, dev : Nat]
    /\ e.type \in OfCustomer => HasCustomer(e) /\ e.customer \in Customers
    /\ e.type \in Entries => e.amount \in Nat /\ e.at \in Int
    /\ e.type = "ENTRY_VOIDED" => ~HasCustomer(e)
    /\ e.type \in OfProduct \cup Movements => e.product \in Products
    /\ e.type \in Movements => e.units \in Int

LEMMA EventsAreReadable ==
    ASSUME NEW i \in 1..(Slots + 1), NEW p \in (UNION Books) \cup Voids
    PROVE  /\ Readable(EventOf(i, p))
           /\ EventOf(i, p).id = i /\ EventOf(i, p).hlc = StampOf[i]
  <1> DEFINE envelope == [id |-> i, hlc |-> StampOf[i], synced |-> i \in Pushed]
             e == EventOf(i, p)
  <1>1. e = [x \in DOMAIN envelope \cup DOMAIN p |->
                IF x \in DOMAIN envelope THEN envelope[x] ELSE p[x]]
    BY DEF EventOf, Joined
  <1>2. DOMAIN envelope = {"id", "hlc", "synced"}
    OBVIOUS
  <1>3. e.id = i /\ e.hlc = StampOf[i]
    BY <1>1, <1>2
  <1> HIDE DEF envelope, e
  <1>4. /\ DOMAIN e = {"id", "hlc", "synced"} \cup DOMAIN p
        /\ \A x \in DOMAIN p \ {"id", "hlc", "synced"} : e[x] = p[x]
    BY <1>1, <1>2
  <1>5. StampOf[i] \in [l : Nat, c : Nat, dev : Nat]
    BY StampsAssumption
  <1>6. CASE p \in Voids
    <2>1. DOMAIN p = {"type", "target"} /\ p.type = "ENTRY_VOIDED"
      BY <1>6 DEF Voids
    <2>2. e.type = "ENTRY_VOIDED" /\ ~HasCustomer(e)
      BY <2>1, <1>4 DEF HasCustomer
    <2> QED BY <2>2, <1>3, <1>5 DEF Readable, OfCustomer, Entries, OfProduct, Movements, e
  <1>7. CASE p \in UNION Books
    <2>1. /\ "type" \in DOMAIN p /\ p.type # "ENTRY_VOIDED"
          /\ {"id", "hlc", "synced"} \cap DOMAIN p = {}
          /\ p.type \in OfCustomer => HasCustomer(p) /\ p.customer \in Customers
          /\ p.type \in Entries => /\ {"amount", "at"} \subseteq DOMAIN p
                                   /\ p.amount \in Nat /\ p.at \in Int
          /\ p.type \in OfProduct \cup Movements => "product" \in DOMAIN p /\ p.product \in Products
          /\ p.type \in Movements => "units" \in DOMAIN p /\ p.units \in Int
      BY <1>7, BooksAssumption
    <2>2. e.type = p.type
      BY <2>1, <1>4
    <2>3. e.type \in OfCustomer => HasCustomer(e) /\ e.customer = p.customer
      BY <2>1, <2>2, <1>4 DEF HasCustomer
    <2>4. e.type \in Entries => e.amount = p.amount /\ e.at = p.at
      BY <2>1, <2>2, <1>4
    <2>5. /\ e.type \in OfProduct \cup Movements => e.product = p.product
          /\ e.type \in Movements => e.units = p.units
      BY <2>1, <2>2, <1>4
    <2> QED BY <2>1, <2>2, <2>3, <2>4, <2>5, <1>3, <1>5 DEF Readable, e
  <1> QED BY <1>6, <1>7

LEMMA EarlierSlots == \A i \in 1..Slots : i \in 1..(Slots + 1)
BY SlotsAssumption

\* Its stamps order it and its fields have their types.
Sound(L) == Stamped(L) /\ \A e \in L : Readable(e)

LEMMA SoundPart ==
    ASSUME NEW L, Sound(L), NEW S \in SUBSET L PROVE Sound(S)
BY StampedPart DEF Sound

LEMMA LogIsSound == LogOk => Sound(log)
  <1> SUFFICES ASSUME LogOk PROVE Sound(log)
    OBVIOUS
  <1>1. ASSUME NEW e \in log
        PROVE  Readable(e) /\ e.id \in 1..Slots /\ e.hlc = StampOf[e.id]
    <2>1. PICK i \in 1..Slots, p \in (UNION Books) \cup Voids : e = EventOf(i, p)
      BY DEF LogOk, IsEvent
    <2> QED BY <2>1, EventsAreReadable, EarlierSlots
  <1>2. ASSUME NEW e \in log, NEW f \in log, e.hlc = f.hlc PROVE e = f
    <2>1. e.id = f.id
      BY <1>1, <1>2, StampsAssumption, EarlierSlots
    <2> QED BY <2>1 DEF LogOk
  <1>3. \A e \in log : e.hlc \in [l : Nat, c : Nat, dev : Nat]
    BY <1>1 DEF Readable
  <1> QED BY <1>1, <1>2, <1>3 DEF Sound, Stamped, LogOk

\* The log holds events of the book and voids, each with an id of its own.
LEMMA LogAlwaysOk == Spec => []LogOk
  <1>1. Init => LogOk
    BY FS_EmptySet DEF Init, LogOk
  <1>2. LogOk /\ [Arrive]_vars => LogOk'
    <2> SUFFICES ASSUME LogOk, [Arrive]_vars PROVE LogOk'
      OBVIOUS
    <2>1. CASE Arrive
      <3>1. PICK i \in (1..Slots) \ {e.id : e \in log}, p \in book \cup Voids :
              log' = log \cup {EventOf(i, p)} /\ book' = book
        BY <2>1 DEF Arrive
      <3>2. i \in 1..Slots /\ p \in (UNION Books) \cup Voids /\ \A e \in log : e.id # i
        BY <3>1 DEF LogOk
      <3>3. EventOf(i, p).id = i
        BY <3>2, EventsAreReadable, EarlierSlots
      <3>4. IsFiniteSet(log')
        BY <3>1, FS_AddElement DEF LogOk
      <3>5. \A e \in log' : IsEvent(e)
        BY <3>1, <3>2 DEF IsEvent, LogOk
      <3>6. \A e, f \in log' : e.id = f.id => e = f
        BY <3>1, <3>2, <3>3 DEF LogOk
      <3> QED BY <3>1, <3>4, <3>5, <3>6 DEF LogOk
    <2>2. CASE UNCHANGED vars
      BY <2>2 DEF vars, LogOk
    <2> QED BY <2>1, <2>2
  <1> QED BY <1>1, <1>2, PTL DEF Spec

\* What stands of the events S when V are the ids voided.
Standing(S, V) == {e \in S : e.type = "ENTRY_VOIDED" \/ e.id \notin V}

LEMMA LiveStands == Live = Standing(log, VoidedIds(log))
BY DEF Live, Standing, VoidedIds

\* m comes after all of L.
Follows(m, L) == m \notin L /\ \A f \in L : Before(f, m)

LEMMA FollowsAll ==
    ASSUME NEW L, NEW m, Stamped(L \cup {m}), Follows(m, L)
    PROVE  /\ ~Before(m, m) /\ \A f \in L : ~Before(m, f)
           /\ \A S \in SUBSET L : IsLast(S \cup {m}, m)
  <1>1. ~Before(m, m) /\ \A f \in L : ~Before(m, f)
    BY BeforeIsOrder DEF Follows
  <1>2. \A S \in SUBSET L : IsLast(S \cup {m}, m)
    BY DEF IsLast, Follows
  <1> QED BY <1>1, <1>2

LEMMA OfMore ==
    ASSUME NEW L, NEW m, NEW types, NEW c
    PROVE  /\ m.type \in types /\ m.customer = c => Of(L \cup {m}, types, c) = Of(L, types, c) \cup {m}
           /\ m.type \notin types \/ m.customer # c => Of(L \cup {m}, types, c) = Of(L, types, c)
           /\ Of(L, types, c) \in SUBSET L
BY DEF Of

----------------------------------------------------------------------------
(* The fold of the customers, one event at a time.                          *)

\* row is the reference's of c, and c has a row when the reference has one.
HoldsCustomer(row, L, c) ==
    \E name, phone, added \in L :
        /\ IsLast(Added(L, c) \cup Renames(L, c), name)
        /\ IsLast(Added(L, c) \cup {e \in Renames(L, c) : e.phone # KeepPhone}, phone)
        /\ IsLast(Added(L, c), added)
        /\ row = [name |-> name.name, phone |-> phone.phone,
                  archived |-> \E e \in Of(L, {"CUSTOMER_ARCHIVED"}, c) : Before(added, e)]

CustomerAgrees(customers, L, c) ==
    /\ c \in DOMAIN customers <=> Added(L, c) # {}
    /\ c \in DOMAIN customers => HoldsCustomer(customers[c], L, c)

HoldsBalance(row, L, c) ==
    \E last \in {e.at : e \in Of(L, Entries, c)} :
        /\ row = [balance |-> Total(Of(L, {"CREDIT_GIVEN"}, c))
                                - Total(Of(L, {"PAYMENT_RECEIVED"}, c)),
                  last |-> last]
        /\ \A e \in Of(L, Entries, c) : e.at <= last

BalanceAgrees(balances, L, c) ==
    /\ c \in DOMAIN balances <=> Of(L, Entries, c) # {}
    /\ c \in DOMAIN balances => HoldsBalance(balances[c], L, c)

\* An event that does not concern c leaves the reference alone.
LEMMA ReferenceElsewhere ==
    ASSUME NEW L, NEW m, Stamped(L \cup {m}), Follows(m, L), NEW c, ~Concerns(m, c),
           NEW customers, NEW balances
    PROVE  /\ CustomerAgrees(customers, L, c) => CustomerAgrees(customers, L \cup {m}, c)
           /\ BalanceAgrees(balances, L, c) => BalanceAgrees(balances, L \cup {m}, c)
  <1> DEFINE M == L \cup {m}
  <1>1. ASSUME NEW types, types \subseteq OfCustomer PROVE Of(M, types, c) = Of(L, types, c)
    <2>1. m.type \notin types \/ m.customer # c
      BY <1>1 DEF Concerns
    <2> QED BY <2>1 DEF Of
  <1>2. Added(M, c) = Added(L, c) /\ Renames(M, c) = Renames(L, c)
        /\ Of(M, {"CUSTOMER_ARCHIVED"}, c) = Of(L, {"CUSTOMER_ARCHIVED"}, c)
    <2> HIDE DEF M
    <2> QED BY <1>1 DEF Added, Renames, OfCustomer
  <1>3. Of(M, Entries, c) = Of(L, Entries, c)
        /\ Of(M, {"CREDIT_GIVEN"}, c) = Of(L, {"CREDIT_GIVEN"}, c)
        /\ Of(M, {"PAYMENT_RECEIVED"}, c) = Of(L, {"PAYMENT_RECEIVED"}, c)
    <2> HIDE DEF M
    <2> QED BY <1>1 DEF OfCustomer, Entries
  <1>4. L \subseteq M
    OBVIOUS
  <1> HIDE DEF M
  <1> QED BY <1>2, <1>3, <1>4
          DEF CustomerAgrees, BalanceAgrees, HoldsCustomer, HoldsBalance, M

\* A customer's row, field by field, and what the two edits of it make of it.
LEMMA RowIs ==
    ASSUME NEW name, NEW phone, NEW gone, NEW r,
           r = [x \in {"name", "phone", "archived"} |-> r[x]],
           r.name = name, r.phone = phone, r.archived = gone
    PROVE  r = [name |-> name, phone |-> phone, archived |-> gone]
OBVIOUS

LEMMA RowArchived ==
    ASSUME NEW name, NEW phone, NEW gone, NEW r, NEW q,
           r = [name |-> name, phone |-> phone, archived |-> gone],
           q = [r EXCEPT !.archived = TRUE]
    PROVE  q = [name |-> name, phone |-> phone, archived |-> TRUE]
  <1>1. q = [x \in {"name", "phone", "archived"} |-> q[x]]
    OBVIOUS
  <1>2. q.name = name
    OBVIOUS
  <1>3. q.phone = phone
    OBVIOUS
  <1>4. q.archived = TRUE
    OBVIOUS
  <1> QED BY <1>1, <1>2, <1>3, <1>4, RowIs

LEMMA RowRenamed ==
    ASSUME NEW name, NEW phone, NEW gone, NEW r, NEW q, NEW m,
           r = [name |-> name, phone |-> phone, archived |-> gone],
           q = [r EXCEPT !.name = m.name,
                         !.phone = IF m.phone = KeepPhone THEN @ ELSE m.phone]
    PROVE  q = [name |-> m.name,
                phone |-> IF m.phone = KeepPhone THEN phone ELSE m.phone,
                archived |-> gone]
  <1>1. q = [x \in {"name", "phone", "archived"} |-> q[x]]
    OBVIOUS
  <1>2. q.name = m.name
    OBVIOUS
  <1>3. q.phone = IF m.phone = KeepPhone THEN phone ELSE m.phone
    OBVIOUS
  <1>4. q.archived = gone
    OBVIOUS
  <1> QED BY <1>1, <1>2, <1>3, <1>4, RowIs

\* One turn of the switch for the rows of a customer.
LEMMA CustomerTurn ==
    ASSUME NEW L, NEW m, Sound(L \cup {m}), Follows(m, L), NEW customers,
           m.type \in OfCustomer \ Entries, NEW c, m.customer = c,
           CustomerAgrees(customers, L, c)
    PROVE  CustomerAgrees(ApplyCustomer(customers, m), L \cup {m}, c)
  <1> DEFINE M == L \cup {m}
             after == ApplyCustomer(customers, m)
             ArchivedOf(S) == Of(S, {"CUSTOMER_ARCHIVED"}, c)
  <1>1. /\ ~Before(m, m) /\ \A f \in L : Before(f, m) /\ ~Before(m, f)
        /\ \A S \in SUBSET L : IsLast(S \cup {m}, m)
    BY FollowsAll DEF Sound, Follows
  <1>2. Added(L, c) \in SUBSET L /\ Renames(L, c) \in SUBSET L /\ ArchivedOf(L) \in SUBSET L
    BY DEF Added, Renames, Of
  <1>3. CASE m.type = "CUSTOMER_ADDED"
    <2>1. Added(M, c) = Added(L, c) \cup {m}
      BY <1>3 DEF Added, Of
    <2>2. Renames(M, c) = Renames(L, c)
      <3>1. Of(M, {"CUSTOMER_RENAMED"}, c) = Of(L, {"CUSTOMER_RENAMED"}, c)
            /\ Of(L, {"CUSTOMER_RENAMED"}, c) \in SUBSET L
        BY <1>3 DEF Of
      <3> HIDE DEF M
      <3> QED BY <3>1, <2>1, <1>1 DEF Renames
    <2>3. ArchivedOf(M) = ArchivedOf(L)
      BY <1>3 DEF Of
    <2>4. after = Put(customers, c, [name |-> m.name, phone |-> m.phone, archived |-> FALSE])
      BY <1>3 DEF ApplyCustomer
    <2>5. ~\E e \in ArchivedOf(M) : Before(m, e)
      BY <2>3, <1>1, <1>2
    <2>6. /\ IsLast(Added(M, c) \cup Renames(M, c), m)
          /\ IsLast(Added(M, c) \cup {e \in Renames(M, c) : e.phone # KeepPhone}, m)
          /\ IsLast(Added(M, c), m)
      <3> DEFINE A == Added(L, c) \cup Renames(L, c)
                 B == Added(L, c) \cup {e \in Renames(L, c) : e.phone # KeepPhone}
      <3>1. A \in SUBSET L /\ B \in SUBSET L
        BY <1>2
      <3>2. /\ Added(M, c) \cup Renames(M, c) = A \cup {m}
            /\ Added(M, c) \cup {e \in Renames(M, c) : e.phone # KeepPhone} = B \cup {m}
        <4> HIDE DEF M
        <4> QED BY <2>1, <2>2
      <3> HIDE DEF A, B, M
      <3> QED BY <3>1, <3>2, <2>1, <1>1, <1>2
    <2>7. c \in DOMAIN after
          /\ after[c] = [name |-> m.name, phone |-> m.phone, archived |-> FALSE]
      BY <2>4 DEF Put
    <2>8. m \in M /\ Added(M, c) # {}
      BY <2>1
    <2>9. after[c] = [name |-> m.name, phone |-> m.phone,
                      archived |-> \E e \in ArchivedOf(M) : Before(m, e)]
      BY <2>5, <2>7
    <2> HIDE DEF M, after
    <2>10. HoldsCustomer(after[c], M, c)
      BY <2>6, <2>8, <2>9 DEF HoldsCustomer
    <2> QED BY <2>7, <2>8, <2>10 DEF CustomerAgrees, M, after
  <1>4. CASE m.type # "CUSTOMER_ADDED"
    <2>1. Added(M, c) = Added(L, c)
      BY <1>4 DEF Added, Of
    <2>2. CASE c \notin DOMAIN customers
      <3>1. after = customers
        BY <1>4, <2>2 DEF ApplyCustomer
      <3> HIDE DEF after
      <3> QED BY <3>1, <2>1, <2>2 DEF CustomerAgrees, after
    <2>3. CASE c \in DOMAIN customers
      <3>1. PICK name, phone, added \in L :
              /\ IsLast(Added(L, c) \cup Renames(L, c), name)
              /\ IsLast(Added(L, c) \cup {e \in Renames(L, c) : e.phone # KeepPhone}, phone)
              /\ IsLast(Added(L, c), added)
              /\ customers[c] = [name |-> name.name, phone |-> phone.phone,
                                 archived |-> \E e \in ArchivedOf(L) : Before(added, e)]
        BY <2>3 DEF CustomerAgrees, HoldsCustomer
      <3>2. added \in Added(L, c) /\ DOMAIN after = DOMAIN customers
        BY <3>1, <1>4, <2>3 DEF IsLast, ApplyCustomer
      <3>3. CASE m.type = "CUSTOMER_RENAMED"
        <4>1. Renames(M, c) = Renames(L, c) \cup {m}
          <5>1. Of(M, {"CUSTOMER_RENAMED"}, c) = Of(L, {"CUSTOMER_RENAMED"}, c) \cup {m}
            BY <3>3 DEF Of
          <5>2. Before(added, m)
            BY <1>1
          <5> HIDE DEF M
          <5> QED BY <5>1, <5>2, <2>1, <3>2 DEF Renames
        <4>2. ArchivedOf(M) = ArchivedOf(L)
          BY <3>3 DEF Of
        <4>3. after[c] = [name |-> m.name,
                          phone |-> IF m.phone = KeepPhone THEN phone.phone ELSE m.phone,
                          archived |-> \E e \in ArchivedOf(M) : Before(added, e)]
          <5> DEFINE gone == \E e \in ArchivedOf(L) : Before(added, e)
                     r == customers[c]
                     q == after[c]
          <5>1. q = [r EXCEPT !.name = m.name,
                              !.phone = IF m.phone = KeepPhone THEN @ ELSE m.phone]
            BY <3>3, <2>3 DEF ApplyCustomer
          <5>2. r = [name |-> name.name, phone |-> phone.phone, archived |-> gone]
            BY <3>1
          <5> HIDE DEF gone, after, q, r
          <5>3. q = [name |-> m.name,
                     phone |-> IF m.phone = KeepPhone THEN phone.phone ELSE m.phone,
                     archived |-> gone]
            BY <5>1, <5>2, RowRenamed
          <5> QED BY <5>3, <4>2 DEF gone, q
        <4>4. IsLast(Added(M, c) \cup Renames(M, c), m) /\ IsLast(Added(M, c), added)
          <5> DEFINE A == Added(L, c) \cup Renames(L, c)
          <5>1. A \in SUBSET L /\ Added(M, c) \cup Renames(M, c) = A \cup {m}
            BY <1>2, <2>1, <4>1
          <5> HIDE DEF A, M
          <5> QED BY <5>1, <1>1, <2>1, <3>1
        <4>5. PICK p \in M :
                 /\ IsLast(Added(M, c) \cup {e \in Renames(M, c) : e.phone # KeepPhone}, p)
                 /\ p.phone = IF m.phone = KeepPhone THEN phone.phone ELSE m.phone
          <5> DEFINE B == Added(L, c) \cup {e \in Renames(L, c) : e.phone # KeepPhone}
                     D == Added(M, c) \cup {e \in Renames(M, c) : e.phone # KeepPhone}
          <5>1. B \in SUBSET L
            BY <1>2
          <5>2. (m.phone = KeepPhone => D = B) /\ (m.phone # KeepPhone => D = B \cup {m})
            <6> HIDE DEF M
            <6> QED BY <2>1, <4>1
          <5>3. IsLast(B, phone) /\ phone \in M /\ m \in M /\ \A S \in SUBSET L : IsLast(S \cup {m}, m)
            BY <3>1, <1>1
          <5> HIDE DEF B, D, M
          <5>4. CASE m.phone = KeepPhone
            BY <5>2, <5>3, <5>4 DEF D
          <5>5. CASE m.phone # KeepPhone
            BY <5>1, <5>2, <5>3, <5>5 DEF D
          <5> QED BY <5>4, <5>5
        <4>6. m \in M /\ added \in M
          OBVIOUS
        <4> HIDE DEF M, after
        <4>7. HoldsCustomer(after[c], M, c)
          BY <4>3, <4>4, <4>5, <4>6 DEF HoldsCustomer
        <4> QED BY <4>7, <2>1, <2>3, <3>2 DEF CustomerAgrees, M, after
      <3>4. CASE m.type = "CUSTOMER_ARCHIVED"
        <4>1. Renames(M, c) = Renames(L, c)
          <5>1. Of(M, {"CUSTOMER_RENAMED"}, c) = Of(L, {"CUSTOMER_RENAMED"}, c)
            BY <3>4 DEF Of
          <5> HIDE DEF M
          <5> QED BY <5>1, <2>1 DEF Renames
        <4>2. m \in ArchivedOf(M) /\ Before(added, m)
          BY <3>4, <1>1 DEF Of
        <4>3. after[c] = [name |-> name.name, phone |-> phone.phone,
                          archived |-> \E e \in ArchivedOf(M) : Before(added, e)]
          <5> DEFINE gone == \E e \in ArchivedOf(L) : Before(added, e)
                     r == customers[c]
                     q == after[c]
          <5>1. q = [r EXCEPT !.archived = TRUE]
            BY <3>4, <2>3 DEF ApplyCustomer
          <5>2. r = [name |-> name.name, phone |-> phone.phone, archived |-> gone]
            BY <3>1
          <5> HIDE DEF gone, after, q, r
          <5>3. q = [name |-> name.name, phone |-> phone.phone, archived |-> TRUE]
            BY <5>1, <5>2, RowArchived
          <5>4. (\E e \in ArchivedOf(M) : Before(added, e)) = TRUE
            BY <4>2
          <5> QED BY <5>3, <5>4 DEF q
        <4>4. name \in M /\ phone \in M /\ added \in M
          OBVIOUS
        <4> HIDE DEF M, after
        <4>5. HoldsCustomer(after[c], M, c)
          BY <4>1, <4>3, <4>4, <3>1, <2>1 DEF HoldsCustomer
        <4> QED BY <4>5, <2>1, <2>3, <3>2 DEF CustomerAgrees, M, after
      <3> QED BY <3>3, <3>4, <1>4 DEF OfCustomer, Entries
    <2> QED BY <2>2, <2>3
  <1> QED BY <1>3, <1>4

\* What c owes for the events L, and what one entry more adds to it.
Owed(L, c) == Total(Of(L, {"CREDIT_GIVEN"}, c)) - Total(Of(L, {"PAYMENT_RECEIVED"}, c))

LEMMA OwedAdds ==
    ASSUME NEW L, NEW m, Sound(L \cup {m}), m \notin L, m.type \in Entries,
           NEW c, m.customer = c
    PROVE  LET delta == IF m.type = "CREDIT_GIVEN" THEN m.amount ELSE -m.amount
           IN  /\ delta \in Int /\ Owed(L, c) \in Int
               /\ Owed(L \cup {m}, c) = Owed(L, c) + delta
  <1> DEFINE M == L \cup {m}
             Given(S) == Of(S, {"CREDIT_GIVEN"}, c)
             Paid(S) == Of(S, {"PAYMENT_RECEIVED"}, c)
             delta == IF m.type = "CREDIT_GIVEN" THEN m.amount ELSE -m.amount
  <1>1. /\ m.amount \in Int /\ delta \in Int
        /\ \A e \in Of(L, Entries, c) : e.amount \in Int
    BY DEF Sound, Readable, Of
  <1>2. Given(L) \in SUBSET Of(L, Entries, c) /\ Paid(L) \in SUBSET Of(L, Entries, c)
    BY DEF Of, Entries
  <1>3. IsFiniteSet(Given(L)) /\ IsFiniteSet(Paid(L))
    <2>1. IsFiniteSet(L \cup {m}) /\ Given(L) \subseteq L \cup {m} /\ Paid(L) \subseteq L \cup {m}
      BY DEF Sound, Stamped, Of
    <2> HIDE DEF Given, Paid
    <2> QED BY <2>1, FS_Subset
  <1>4. /\ Total(Given(L)) \in Int /\ Total(Paid(L)) \in Int
        /\ Total(Given(M)) - Total(Paid(M)) = (Total(Given(L)) - Total(Paid(L))) + delta
    <2>1. m \notin Given(L) /\ m \notin Paid(L)
      BY <1>1 DEF Of
    <2>2. (\A e \in Given(L) : e.amount \in Int) /\ (\A e \in Paid(L) : e.amount \in Int)
      BY <1>1, <1>2
    <2>3. IF m.type = "CREDIT_GIVEN" THEN Given(M) = Given(L) \cup {m} /\ Paid(M) = Paid(L)
          ELSE Given(M) = Given(L) /\ Paid(M) = Paid(L) \cup {m}
      BY DEF Of, Entries
    <2> HIDE DEF Given, Paid, M
    <2>4. Total(Given(L)) \in Int /\ Total(Given(L) \cup {m}) = Total(Given(L)) + m.amount
      BY <1>1, <1>3, <2>1, <2>2, TotalAdds
    <2>5. Total(Paid(L)) \in Int /\ Total(Paid(L) \cup {m}) = Total(Paid(L)) + m.amount
      BY <1>1, <1>3, <2>1, <2>2, TotalAdds
    <2> DEFINE given == Total(Given(L))
               paid == Total(Paid(L))
    <2>6. given \in Int /\ paid \in Int /\ m.amount \in Int
      BY <1>1, <2>4, <2>5
    <2>7. CASE m.type = "CREDIT_GIVEN"
      <3>1. Total(Given(M)) = given + m.amount /\ Total(Paid(M)) = paid /\ delta = m.amount
        BY <2>3, <2>4, <2>7
      <3> HIDE DEF given, paid, delta
      <3>2. Total(Given(M)) - Total(Paid(M)) = (given - paid) + delta
        BY <2>6, <3>1
      <3> QED BY <2>6, <3>2 DEF given, paid
    <2>8. CASE m.type # "CREDIT_GIVEN"
      <3>1. Total(Given(M)) = given /\ Total(Paid(M)) = paid + m.amount /\ delta = -m.amount
        BY <2>3, <2>5, <2>8
      <3> HIDE DEF given, paid, delta
      <3>2. Total(Given(M)) - Total(Paid(M)) = (given - paid) + delta
        BY <2>6, <3>1
      <3> QED BY <2>6, <3>2 DEF given, paid
    <2> QED BY <2>7, <2>8
  <1>5. (Total(Given(L)) - Total(Paid(L))) \in Int
    <2> HIDE DEF Given, Paid
    <2> QED BY <1>4
  <1> HIDE DEF delta
  <1> QED BY <1>1, <1>4, <1>5 DEF Owed, delta

\* One turn of the switch for the balance of a customer.
LEMMA BalanceTurn ==
    ASSUME NEW L, NEW m, Sound(L \cup {m}), Follows(m, L), NEW balances,
           m.type \in Entries, NEW c, m.customer = c, BalanceAgrees(balances, L, c)
    PROVE  BalanceAgrees(ApplyBalanceDelta(balances, m), L \cup {m}, c)
  <1> DEFINE M == L \cup {m}
             after == ApplyBalanceDelta(balances, m)
             delta == IF m.type = "CREDIT_GIVEN" THEN m.amount ELSE -m.amount
  <1>1. /\ m \notin L /\ m.at \in Int
        /\ \A e \in Of(L, Entries, c) : e.at \in Int
    BY DEF Sound, Readable, Follows, Of
  <1>2. Of(M, Entries, c) = Of(L, Entries, c) \cup {m}
    BY DEF Of, Entries
  <1>4. Owed(L, c) \in Int /\ Owed(M, c) = Owed(L, c) + delta /\ delta \in Int
    BY <1>1, OwedAdds
  <1>5. c \in DOMAIN after
    BY DEF ApplyBalanceDelta, Put
  <1>6. HoldsBalance(after[c], M, c)
    <2>1. CASE c \notin DOMAIN balances
      <3>1. after[c] = [balance |-> delta, last |-> m.at]
        BY <2>1 DEF ApplyBalanceDelta, Put
      <3>2. Of(L, Entries, c) = {}
        BY <2>1 DEF BalanceAgrees
      <3>3. Owed(L, c) = 0
        <4>1. Of(L, {"CREDIT_GIVEN"}, c) = {} /\ Of(L, {"PAYMENT_RECEIVED"}, c) = {}
          BY <3>2 DEF Of, Entries
        <4> QED BY <4>1, TotalOfNothing DEF Owed
      <3>4. Owed(M, c) = delta
        <4> HIDE DEF M, delta
        <4> QED BY <3>3, <1>4
      <3>5. m.at \in {e.at : e \in Of(M, Entries, c)}
            /\ \A e \in Of(M, Entries, c) : e.at <= m.at
        <4>1. Of(M, Entries, c) = {m} /\ m.at <= m.at
          BY <1>1, <1>2, <3>2
        <4> HIDE DEF M
        <4> QED BY <4>1
      <3> HIDE DEF M, after, delta
      <3> QED BY <3>1, <3>4, <3>5 DEF HoldsBalance, Owed
    <2>2. CASE c \in DOMAIN balances
      <3>1. PICK last \in {e.at : e \in Of(L, Entries, c)} :
              /\ balances[c] = [balance |-> Owed(L, c), last |-> last]
              /\ \A e \in Of(L, Entries, c) : e.at <= last
        BY <2>2 DEF BalanceAgrees, HoldsBalance, Owed
      <3> DEFINE later == Larger(last, m.at)
      <3>2. after[c] = [balance |-> balances[c].balance + delta,
                        last |-> Larger(balances[c].last, m.at)]
        BY <2>2 DEF ApplyBalanceDelta, Put
      <3>3. after[c] = [balance |-> Owed(M, c), last |-> later]
        <4> HIDE DEF M, delta, after
        <4> QED BY <3>1, <3>2, <1>4
      <3>4. later \in {e.at : e \in Of(M, Entries, c)}
            /\ \A e \in Of(M, Entries, c) : e.at <= later
        <4>1. last \in Int /\ m.at \in Int
          BY <1>1
        <4>2. later \in {last, m.at} /\ later >= last /\ later >= m.at /\ later \in Int
          BY <4>1 DEF Larger
        <4> HIDE DEF later, M
        <4> QED BY <4>2, <1>1, <1>2, <3>1
      <3> HIDE DEF M, after, later
      <3> QED BY <3>3, <3>4 DEF HoldsBalance, Owed
    <2> QED BY <2>1, <2>2
  <1> HIDE DEF after
  <1> QED BY <1>2, <1>5, <1>6 DEF BalanceAgrees, after

\* The fold of the events S is the reference's ledger of those that stand.
LEMMA FoldAgrees ==
    ASSUME NEW L, Sound(L), NEW V, NEW c
    PROVE  /\ CustomerAgrees(FoldWith(L, V).customers, Standing(L, V), c)
           /\ BalanceAgrees(FoldWith(L, V).balances, Standing(L, V), c)
  <1> DEFINE Good(S) == /\ CustomerAgrees(FoldWith(S, V).customers, Standing(S, V), c)
                        /\ BalanceAgrees(FoldWith(S, V).balances, Standing(S, V), c)
             Bad == {S \in SUBSET L : ~Good(S)}
  <1>1. SUFFICES ASSUME Bad # {} PROVE FALSE
    <2>1. L \notin Bad
      BY <1>1
    <2> QED BY <2>1
  <1>2. PICK S \in Bad : \A U \in SUBSET S : U \in Bad => U = S
    <2>1. Bad \in SUBSET SUBSET L OBVIOUS
    <2> HIDE DEF Bad
    <2> QED BY <1>1, <2>1, LeastSubset DEF Sound, Stamped
  <1>3. S \in SUBSET L /\ ~Good(S) /\ Sound(S)
    BY <1>2, SoundPart
  <1>4. CASE S = {}
    <2>1. FoldWith(S, V) = EmptyState /\ Standing(S, V) = {}
      BY <1>4, FoldOfNothing DEF Standing
    <2>2. Good(S)
      BY <2>1 DEF EmptyState, CustomerAgrees, BalanceAgrees, Added, Of
    <2> QED BY <2>2, <1>3
  <1>5. CASE S # {}
    <2>1. PICK m : IsLast(S, m)
      BY <1>3, <1>5, LastExists DEF Sound
    <2> DEFINE U == S \ {m}
               s == FoldWith(U, V)
               K == Standing(U, V)
    <2>2. Good(U)
      <3>1. U \in SUBSET S /\ U # S /\ U \in SUBSET L
        BY <2>1, <1>3 DEF IsLast
      <3> QED BY <3>1, <1>2
    <2>3. FoldWith(S, V) = Turn(s, m, V) /\ m \in S
      BY <2>1, <1>3, FoldStep DEF Sound, IsLast
    <2>4. CASE m.type # "ENTRY_VOIDED" /\ m.id \in V
      <3>1. Turn(s, m, V) = s /\ Standing(S, V) = K
        BY <2>4 DEF Turn, Standing
      <3>2. Good(S)
        <4> HIDE DEF U
        <4> QED BY <2>2, <2>3, <3>1
      <3> QED BY <3>2, <1>3
    <2>5. CASE m.type = "ENTRY_VOIDED" \/ m.id \notin V
      <3>1. Turn(s, m, V) = Apply(s, m) /\ Standing(S, V) = K \cup {m}
        BY <2>5, <2>3 DEF Turn, Standing
      <3>2. Follows(m, K) /\ Sound(K \cup {m})
        <4>1. K \cup {m} \in SUBSET S
          BY <2>3 DEF Standing
        <4>2. Follows(m, K)
          BY <2>1 DEF IsLast, Follows, Standing
        <4> HIDE DEF K
        <4> QED BY <4>1, <4>2, <1>3, SoundPart
      <3>3. CustomerAgrees(s.customers, K, c) /\ BalanceAgrees(s.balances, K, c)
        BY <2>2
      <3> HIDE DEF s, K, U
      <3>4. CustomerAgrees(Apply(s, m).customers, K \cup {m}, c)
            /\ BalanceAgrees(Apply(s, m).balances, K \cup {m}, c)
        <4>1. CASE ~Concerns(m, c)
          <5>1. CustomerAgrees(s.customers, K \cup {m}, c) /\ BalanceAgrees(s.balances, K \cup {m}, c)
            BY <4>1, <3>2, <3>3, ReferenceElsewhere DEF Sound
          <5>2. SameOf(Turn(s, m, V), s, c)
            BY <4>1, TurnElsewhere
          <5> QED BY <5>1, <5>2, <3>1 DEF SameOf, CustomerAgrees, BalanceAgrees
        <4>2. CASE Concerns(m, c) /\ m.type \in Entries
          <5>1. Apply(s, m).balances = ApplyBalanceDelta(s.balances, m)
                /\ Apply(s, m).customers = s.customers
            BY <4>2 DEF Apply
          <5>2. BalanceAgrees(ApplyBalanceDelta(s.balances, m), K \cup {m}, c)
            BY <4>2, <3>2, <3>3, BalanceTurn DEF Concerns
          <5>3. CustomerAgrees(s.customers, K \cup {m}, c)
            <6>1. Added(K \cup {m}, c) = Added(K, c) /\ Renames(K \cup {m}, c) = Renames(K, c)
                  /\ Of(K \cup {m}, {"CUSTOMER_ARCHIVED"}, c) = Of(K, {"CUSTOMER_ARCHIVED"}, c)
              BY <4>2 DEF Added, Renames, Of, Entries
            <6> QED BY <6>1, <3>3 DEF CustomerAgrees, HoldsCustomer
          <5> QED BY <5>1, <5>2, <5>3
        <4>3. CASE Concerns(m, c) /\ m.type \in OfCustomer \ Entries
          <5>1. Apply(s, m).customers = ApplyCustomer(s.customers, m)
                /\ Apply(s, m).balances = s.balances
            BY <4>3 DEF Apply
          <5>2. CustomerAgrees(ApplyCustomer(s.customers, m), K \cup {m}, c)
            BY <4>3, <3>2, <3>3, CustomerTurn DEF Concerns
          <5>3. BalanceAgrees(s.balances, K \cup {m}, c)
            <6>1. /\ Of(K \cup {m}, Entries, c) = Of(K, Entries, c)
                  /\ Of(K \cup {m}, {"CREDIT_GIVEN"}, c) = Of(K, {"CREDIT_GIVEN"}, c)
                  /\ Of(K \cup {m}, {"PAYMENT_RECEIVED"}, c) = Of(K, {"PAYMENT_RECEIVED"}, c)
              BY <4>3 DEF Of, Entries
            <6> QED BY <6>1, <3>3 DEF BalanceAgrees, HoldsBalance
          <5> QED BY <5>1, <5>2, <5>3
        <4> QED BY <4>1, <4>2, <4>3 DEF Concerns
      <3>5. Good(S)
        BY <2>3, <3>1, <3>4
      <3> QED BY <3>5, <1>3
    <2> QED BY <2>4, <2>5
  <1> QED BY <1>4, <1>5

\* Every log folds to the reference ledger: names and phones by the last event
\* that set them, balances as sums over what no void names.
THEOREM LedgerIsReference == Spec => []FoldIsReference
  <1>1. LogOk => FoldIsReference
    <2> SUFFICES ASSUME LogOk PROVE FoldIsReference
      OBVIOUS
    <2> DEFINE s == Fold(log)
    <2>1. Sound(log)
      BY LogIsSound
    <2>2. ASSUME NEW c
          PROVE  CustomerAgrees(s.customers, Live, c) /\ BalanceAgrees(s.balances, Live, c)
      <3>1. s = FoldWith(log, VoidedIds(log))
        BY DEF Fold, FoldWith
      <3> HIDE DEF s
      <3> QED BY <2>1, <3>1, FoldAgrees, LiveStands
    <2>3. Sound(Live) /\ IsFiniteSet(Live)
      <3>1. Live \in SUBSET log
        BY DEF Live
      <3> QED BY <3>1, <2>1, SoundPart DEF Sound, Stamped
    <2> HIDE DEF s
    <2>4. ASSUME NEW c, Of(Live, OfCustomer, c) # {} PROVE c \in Customers
      BY <2>3, <2>4 DEF Sound, Readable, Of
    <2>5. DOMAIN s.customers = {c \in Customers : Added(Live, c) # {}}
      <3>1. \A c : Added(Live, c) # {} => c \in Customers
        BY <2>4 DEF Added, Of, OfCustomer
      <3>2. \A c : c \in DOMAIN s.customers <=> Added(Live, c) # {}
        BY <2>2 DEF CustomerAgrees
      <3> QED BY <3>1, <3>2
    <2>6. DOMAIN s.balances = {c \in Customers : Of(Live, Entries, c) # {}}
      <3>1. \A c : Of(Live, Entries, c) # {} => c \in Customers
        BY <2>4 DEF Of, OfCustomer
      <3>2. \A c : c \in DOMAIN s.balances <=> Of(Live, Entries, c) # {}
        BY <2>2 DEF BalanceAgrees
      <3> QED BY <3>1, <3>2
    <2>7. ASSUME NEW c \in DOMAIN s.customers PROVE s.customers[c] = RefCustomer(Live, c)
      <3> DEFINE A == Added(Live, c)
                 N == A \cup Renames(Live, c)
                 P == A \cup {e \in Renames(Live, c) : e.phone # KeepPhone}
      <3>1. PICK name, phone, added \in Live :
               /\ IsLast(N, name) /\ IsLast(P, phone) /\ IsLast(A, added)
               /\ s.customers[c] =
                    [name |-> name.name, phone |-> phone.phone,
                     archived |-> \E e \in Of(Live, {"CUSTOMER_ARCHIVED"}, c) : Before(added, e)]
        <4>1. HoldsCustomer(s.customers[c], Live, c)
          BY <2>2 DEF CustomerAgrees
        <4> QED BY <4>1, Zenon DEF HoldsCustomer
      <3>2. N \in SUBSET Live /\ P \in SUBSET Live /\ A \in SUBSET Live
        BY DEF Added, Renames, Of
      <3> HIDE DEF A, N, P
      <3>3. Stamped(N) /\ Stamped(P) /\ Stamped(A)
        BY <3>2, <2>3, StampedPart DEF Sound
      <3>4. Latest(N) = name /\ Latest(P) = phone /\ Latest(A) = added
        BY <3>1, <3>3, LatestIs
      <3> QED BY <3>1, <3>4 DEF RefCustomer, A, N, P
    <2>8. ASSUME NEW c \in DOMAIN s.balances PROVE s.balances[c] = RefBalance(Live, c)
      <3> DEFINE times == {e.at : e \in Of(Live, Entries, c)}
      <3>1. PICK last \in times :
               /\ s.balances[c] = [balance |-> Total(Of(Live, {"CREDIT_GIVEN"}, c))
                                                - Total(Of(Live, {"PAYMENT_RECEIVED"}, c)),
                                   last |-> last]
               /\ \A e \in Of(Live, Entries, c) : e.at <= last
        BY <2>2 DEF BalanceAgrees, HoldsBalance
      <3>2. times \in SUBSET Int /\ \A x \in times : x <= last
        BY <3>1, <2>3 DEF Sound, Readable, Of
      <3>3. Max(times) = last
        <4> HIDE DEF times
        <4> QED BY <3>1, <3>2, MaxIs
      <3> QED BY <3>1, <3>3 DEF RefBalance
    <2> QED BY <2>5, <2>6, <2>7, <2>8 DEF FoldIsReference, s
  <1> QED BY <1>1, LogAlwaysOk, PTL

LEMMA LogIsTyped == ASSUME LogOk PROVE Stamped(log) /\ Typed(log)
BY LogIsSound DEF Sound, Readable, Typed

\* Re-folding one customer's events gives what folding the whole log gives.
THEOREM CustomerFoldIsWhole == Spec => []CustomerFoldIsFold
  <1>1. LogOk => CustomerFoldIsFold
    BY LogIsTyped, PartIsWhole DEF CustomerFoldIsFold
  <1> QED BY <1>1, LogAlwaysOk, PTL

\* An event that arrives changes the rows of nobody resolveCustomerId does not name.
THEOREM OthersKeepTheirRows == Spec => OnlyOwnersChange
  <1> DEFINE Kept == \A e \in log' \ log, c \in Customers :
                        c \in Owners(log', e)
                        \/ LET old == Fold(log)  new == Fold(log')
                           IN  /\ CustomerRow(old, c) = CustomerRow(new, c)
                               /\ BalanceRow(old, c) = BalanceRow(new, c)
  <1>1. LogOk /\ LogOk' /\ [Arrive]_vars => [Kept]_vars
    <2> SUFFICES ASSUME LogOk, LogOk', Arrive, NEW e \in log' \ log, NEW c \in Customers,
                        c \notin Owners(log', e)
                 PROVE  LET old == Fold(log)  new == Fold(log')
                        IN  /\ CustomerRow(old, c) = CustomerRow(new, c)
                            /\ BalanceRow(old, c) = BalanceRow(new, c)
      OBVIOUS
    <2>1. log' = log \cup {e}
      BY DEF Arrive
    <2>2. Stamped(log) /\ Typed(log)
      BY LogIsTyped
    <2>3. Sound(log')
      <3>1. Sound(log)'
        BY LogIsSound, PTL
      <3> QED BY <3>1 DEF Sound, Stamped
    <2>4. Stamped(log') /\ Typed(log') /\ (e.type = "ENTRY_VOIDED" => ~HasCustomer(e))
      BY <2>3 DEF Sound, Readable, Typed
    <2>5. EventsForCustomer(log', c) = EventsForCustomer(log, c)
      BY <2>1, <2>4, UnaffectedPart
    <2>6. LET part == Fold(EventsForCustomer(log, c))  old == Fold(log)
          IN  CustomerRow(part, c) = CustomerRow(old, c) /\ BalanceRow(part, c) = BalanceRow(old, c)
      BY <2>2, PartIsWhole
    <2>7. LET part == Fold(EventsForCustomer(log', c))  new == Fold(log')
          IN  CustomerRow(part, c) = CustomerRow(new, c) /\ BalanceRow(part, c) = BalanceRow(new, c)
      BY <2>4, PartIsWhole
    <2> QED BY <2>5, <2>6, <2>7
  <1> QED BY <1>1, LogAlwaysOk, PTL DEF Spec, OnlyOwnersChange

----------------------------------------------------------------------------
(* The fold of the products, one event at a time.                           *)

\* As for the loop of fold.
IsStockRun(g, N, s, voided) ==
    g = [n \in 0..N |-> IF n = 0 THEN EmptyInventory ELSE StockTurn(g[n - 1], s[n], voided)]

LEMMA StockRunExists ==
    ASSUME NEW s, NEW voided, NEW N \in Nat
    PROVE  \E g : IsStockRun(g, N, s, voided)
  <1> DEFINE Bad == {n \in Nat : ~\E g : IsStockRun(g, n, s, voided)}
  <1>1. SUFFICES ASSUME Bad # {} PROVE FALSE
    OBVIOUS
  <1>2. PICK n \in Bad : \A m \in Bad : n <= m
    <2> HIDE DEF Bad
    <2> SUFFICES Bad \in SUBSET Nat BY <1>1, LeastNat
    <2> QED BY DEF Bad
  <1>3. n # 0
    <2>1. IsStockRun([k \in 0..0 |-> EmptyInventory], 0, s, voided)
      BY DEF IsStockRun
    <2> QED BY <2>1, <1>2
  <1>4. n \in Nat \ {0} /\ n - 1 \in Nat /\ n - 1 \notin Bad
    BY <1>2, <1>3
  <1>5. PICK g : IsStockRun(g, n - 1, s, voided)
    BY <1>4
  <1> DEFINE h == [k \in 0..n |-> IF k = n THEN StockTurn(g[n - 1], s[n], voided) ELSE g[k]]
  <1>6. IsStockRun(h, n, s, voided)
    <2>1. ASSUME NEW k \in 0..n
          PROVE  h[k] = IF k = 0 THEN EmptyInventory ELSE StockTurn(h[k - 1], s[k], voided)
      <3>1. CASE k = n
        BY <3>1, <1>4
      <3>2. CASE k # n
        <4>1. k \in 0..(n - 1) /\ h[k] = g[k] /\ (k # 0 => h[k - 1] = g[k - 1])
          BY <3>2, <1>4
        <4>2. g[k] = IF k = 0 THEN EmptyInventory ELSE StockTurn(g[k - 1], s[k], voided)
          <5> HIDE DEF h
          <5> QED BY <4>1, <1>5 DEF IsStockRun
        <4> HIDE DEF h
        <4> QED BY <4>1, <4>2
      <3> QED BY <3>1, <3>2
    <2>2. h = [k \in 0..n |-> h[k]]
      OBVIOUS
    <2> HIDE DEF h
    <2> QED BY <2>1, <2>2 DEF IsStockRun
  <1> QED BY <1>6, <1>2

LEMMA StockLoopRuns ==
    ASSUME NEW s, NEW voided, Len(s) \in Nat
    PROVE  IsStockRun(StockLoop(s, voided), Len(s), s, voided)
BY StockRunExists DEF StockLoop, IsStockRun

LEMMA StockLoopSteps ==
    ASSUME NEW s, NEW voided, Len(s) \in Nat
    PROVE  /\ StockLoop(s, voided)[0] = EmptyInventory
           /\ \A n \in 1..Len(s) :
                StockLoop(s, voided)[n] = StockTurn(StockLoop(s, voided)[n - 1], s[n], voided)
  <1> DEFINE g == StockLoop(s, voided)
  <1>1. g = [n \in 0..Len(s) |-> IF n = 0 THEN EmptyInventory ELSE StockTurn(g[n - 1], s[n], voided)]
    BY StockLoopRuns DEF IsStockRun
  <1> HIDE DEF g
  <1>2. \A n \in 0..Len(s) : g[n] = IF n = 0 THEN EmptyInventory ELSE StockTurn(g[n - 1], s[n], voided)
    BY <1>1
  <1>3. g[0] = EmptyInventory /\ \A n \in 1..Len(s) : g[n] = StockTurn(g[n - 1], s[n], voided)
    BY <1>2
  <1> QED BY <1>3 DEF g

LEMMA StockLoopsAgree ==
    ASSUME NEW s, NEW t, NEW voided, Len(s) \in Nat, Len(t) \in Nat,
           NEW k \in Nat, k <= Len(s), k <= Len(t), \A i \in 1..k : s[i] = t[i]
    PROVE  StockLoop(s, voided)[k] = StockLoop(t, voided)[k]
  <1> DEFINE g == StockLoop(s, voided)
             h == StockLoop(t, voided)
             Bad == {n \in 0..k : g[n] # h[n]}
  <1>0. /\ g[0] = EmptyInventory /\ \A n \in 1..Len(s) : g[n] = StockTurn(g[n - 1], s[n], voided)
        /\ h[0] = EmptyInventory /\ \A n \in 1..Len(t) : h[n] = StockTurn(h[n - 1], t[n], voided)
    BY StockLoopSteps
  <1> HIDE DEF g, h
  <1>1. SUFFICES ASSUME Bad # {} PROVE FALSE
    BY DEF g, h
  <1>2. PICK n \in Bad : \A m \in Bad : n <= m
    <2>1. Bad \in SUBSET Nat OBVIOUS
    <2> HIDE DEF Bad
    <2> QED BY <1>1, <2>1, LeastNat
  <1>3. n \in 1..k
    BY <1>0, <1>2
  <1>4. n - 1 \in 0..k /\ n - 1 \notin Bad
    BY <1>2, <1>3
  <1>5. g[n - 1] = h[n - 1]
    BY <1>4
  <1>6. n \in 1..Len(s) /\ n \in 1..Len(t) /\ s[n] = t[n]
    BY <1>3
  <1>7. g[n] = h[n]
    BY <1>0, <1>5, <1>6
  <1> QED BY <1>7, <1>2

\* The inventory of a log with a set of voided ids of its own.
StockWith(L, voided) == StockLoop(Sorted(L), voided)[Cardinality(L)]

LEMMA StockOfNothing ==
    ASSUME NEW voided
    PROVE  StockWith({}, voided) = EmptyInventory
  <1>1. Cardinality({}) = 0 /\ IsFiniteSet({})
    BY FS_EmptySet
  <1>2. Len(Sorted({})) = 0
    BY <1>1, SortedLen
  <1> QED BY <1>1, <1>2, StockLoopSteps DEF StockWith

LEMMA StockStep ==
    ASSUME NEW L, Stamped(L), NEW m, IsLast(L, m), NEW voided
    PROVE  StockWith(L, voided) = StockTurn(StockWith(L \ {m}, voided), m, voided)
  <1> DEFINE rest == L \ {m}
             n == Cardinality(rest)
  <1>1. IsFiniteSet(L) /\ IsFiniteSet(rest)
    BY FS_RemoveElement DEF Stamped
  <1>2. /\ n \in Nat /\ Cardinality(L) = n + 1
        /\ Len(Sorted(L)) = n + 1 /\ Len(Sorted(rest)) = n
    BY <1>1, SortedLen, SortedLast
  <1>3. StockLoop(Sorted(L), voided)[n] = StockLoop(Sorted(rest), voided)[n]
    <2>1. \A i \in 1..n : Sorted(L)[i] = Sorted(rest)[i]
      BY SortedLast
    <2> HIDE DEF rest, n
    <2> QED BY <1>2, <2>1, StockLoopsAgree
  <1>4. StockLoop(Sorted(L), voided)[n + 1]
          = StockTurn(StockLoop(Sorted(L), voided)[n], Sorted(L)[n + 1], voided)
    BY <1>2, StockLoopSteps
  <1>5. Sorted(L)[n + 1] = m
    BY <1>2, SortedLast
  <1> QED BY <1>2, <1>3, <1>4, <1>5 DEF StockWith

ConcernsProduct(e, p) == e.type \in OfProduct \cup Movements /\ e.product = p

\* row is the reference's of p, and p has a row when the reference has one.
HoldsProduct(row, L, p) ==
    \E name, threshold, added \in L :
        /\ IsLast(Stocked(L, p) \cup {e \in Updates(L, p) : e.name # Keep}, name)
        /\ IsLast(Stocked(L, p) \cup {e \in Updates(L, p) : e.threshold # Keep}, threshold)
        /\ IsLast(Stocked(L, p), added)
        /\ row = [name |-> name.name, threshold |-> threshold.threshold,
                  archived |-> \E e \in For(L, {"PRODUCT_ARCHIVED"}, p) : Before(added, e)]

ProductAgrees(products, L, p) ==
    /\ p \in DOMAIN products <=> Stocked(L, p) # {}
    /\ p \in DOMAIN products => HoldsProduct(products[p], L, p)

StockAgrees(stock, L, p) ==
    /\ p \in DOMAIN stock <=> For(L, Movements, p) # {}
    /\ p \in DOMAIN stock => stock[p] = RefStock(L, p)

\* An event that does not concern p leaves the reference alone.
LEMMA ProductReferenceElsewhere ==
    ASSUME NEW L, NEW m, NEW p, ~ConcernsProduct(m, p), NEW products, NEW stock
    PROVE  /\ ProductAgrees(products, L, p) => ProductAgrees(products, L \cup {m}, p)
           /\ StockAgrees(stock, L, p) => StockAgrees(stock, L \cup {m}, p)
  <1> DEFINE M == L \cup {m}
  <1>1. ASSUME NEW types, types \subseteq OfProduct \cup Movements
        PROVE  For(M, types, p) = For(L, types, p)
    <2>1. m.type \notin types \/ m.product # p
      BY <1>1 DEF ConcernsProduct
    <2> QED BY <2>1 DEF For
  <1>2. Stocked(M, p) = Stocked(L, p) /\ Updates(M, p) = Updates(L, p)
        /\ For(M, {"PRODUCT_ARCHIVED"}, p) = For(L, {"PRODUCT_ARCHIVED"}, p)
    <2> HIDE DEF M
    <2> QED BY <1>1 DEF Stocked, Updates, OfProduct
  <1>3. For(M, Movements, p) = For(L, Movements, p) /\ RefStock(M, p) = RefStock(L, p)
    <2> HIDE DEF M
    <2> QED BY <1>1 DEF Movements, RefStock
  <1>4. L \subseteq M
    OBVIOUS
  <1> HIDE DEF M
  <1> QED BY <1>2, <1>3, <1>4 DEF ProductAgrees, StockAgrees, HoldsProduct, M

\* A product's row, field by field, and what the two edits of it make of it.
LEMMA ProductRowIs ==
    ASSUME NEW name, NEW threshold, NEW gone, NEW r,
           r = [x \in {"name", "threshold", "archived"} |-> r[x]],
           r.name = name, r.threshold = threshold, r.archived = gone
    PROVE  r = [name |-> name, threshold |-> threshold, archived |-> gone]
OBVIOUS

LEMMA ProductRowArchived ==
    ASSUME NEW name, NEW threshold, NEW gone, NEW r, NEW q,
           r = [name |-> name, threshold |-> threshold, archived |-> gone],
           q = [r EXCEPT !.archived = TRUE]
    PROVE  q = [name |-> name, threshold |-> threshold, archived |-> TRUE]
  <1>1. q = [x \in {"name", "threshold", "archived"} |-> q[x]]
    OBVIOUS
  <1>2. q.name = name
    OBVIOUS
  <1>3. q.threshold = threshold
    OBVIOUS
  <1>4. q.archived = TRUE
    OBVIOUS
  <1> QED BY <1>1, <1>2, <1>3, <1>4, ProductRowIs

LEMMA ProductRowUpdated ==
    ASSUME NEW name, NEW threshold, NEW gone, NEW r, NEW q, NEW m,
           r = [name |-> name, threshold |-> threshold, archived |-> gone],
           q = [r EXCEPT !.name = IF m.name = Keep THEN @ ELSE m.name,
                         !.threshold = IF m.threshold = Keep THEN @ ELSE m.threshold]
    PROVE  q = [name |-> IF m.name = Keep THEN name ELSE m.name,
                threshold |-> IF m.threshold = Keep THEN threshold ELSE m.threshold,
                archived |-> gone]
  <1>1. q = [x \in {"name", "threshold", "archived"} |-> q[x]]
    OBVIOUS
  <1>2. q.name = IF m.name = Keep THEN name ELSE m.name
    OBVIOUS
  <1>3. q.threshold = IF m.threshold = Keep THEN threshold ELSE m.threshold
    OBVIOUS
  <1>4. q.archived = gone
    OBVIOUS
  <1> QED BY <1>1, <1>2, <1>3, <1>4, ProductRowIs

\* One turn of the switch for the row of a product.
LEMMA ProductTurn ==
    ASSUME NEW L, NEW m, Sound(L \cup {m}), Follows(m, L), NEW products,
           m.type \in OfProduct, NEW p, m.product = p, ProductAgrees(products, L, p)
    PROVE  ProductAgrees(ApplyProduct(products, m), L \cup {m}, p)
  <1> DEFINE M == L \cup {m}
             after == ApplyProduct(products, m)
             ArchivedOf(S) == For(S, {"PRODUCT_ARCHIVED"}, p)
             Named(S) == {e \in Updates(S, p) : e.name # Keep}
             Limited(S) == {e \in Updates(S, p) : e.threshold # Keep}
  <1>1. /\ ~Before(m, m) /\ \A f \in L : Before(f, m) /\ ~Before(m, f)
        /\ \A S \in SUBSET L : IsLast(S \cup {m}, m)
    BY FollowsAll DEF Sound, Follows
  <1>2. /\ Stocked(L, p) \in SUBSET L /\ ArchivedOf(L) \in SUBSET L
        /\ Named(L) \in SUBSET L /\ Limited(L) \in SUBSET L
        /\ Stocked(L, p) \cup Named(L) \in SUBSET L
        /\ Stocked(L, p) \cup Limited(L) \in SUBSET L
    BY DEF Stocked, Updates, For
  <1>3. CASE m.type = "PRODUCT_ADDED"
    <2>1. Stocked(M, p) = Stocked(L, p) \cup {m}
      BY <1>3 DEF Stocked, For
    <2>2. Updates(M, p) = Updates(L, p)
      <3>1. For(M, {"PRODUCT_UPDATED"}, p) = For(L, {"PRODUCT_UPDATED"}, p)
            /\ For(L, {"PRODUCT_UPDATED"}, p) \in SUBSET L
        BY <1>3 DEF For
      <3> HIDE DEF M
      <3> QED BY <3>1, <2>1, <1>1 DEF Updates
    <2>3. ArchivedOf(M) = ArchivedOf(L)
      BY <1>3 DEF For
    <2>4. after = Put(products, p, [name |-> m.name, threshold |-> m.threshold, archived |-> FALSE])
      BY <1>3 DEF ApplyProduct
    <2>5. ~\E e \in ArchivedOf(M) : Before(m, e)
      BY <2>3, <1>1, <1>2
    <2>6. /\ IsLast(Stocked(M, p) \cup Named(M), m)
          /\ IsLast(Stocked(M, p) \cup Limited(M), m)
          /\ IsLast(Stocked(M, p), m)
      <3> DEFINE A == Stocked(L, p) \cup Named(L)
                 B == Stocked(L, p) \cup Limited(L)
      <3>1. A \in SUBSET L /\ B \in SUBSET L
        BY <1>2
      <3>2. Stocked(M, p) \cup Named(M) = A \cup {m} /\ Stocked(M, p) \cup Limited(M) = B \cup {m}
        <4> HIDE DEF M
        <4> QED BY <2>1, <2>2
      <3> HIDE DEF A, B, M, Named, Limited
      <3> QED BY <3>1, <3>2, <2>1, <1>1, <1>2
    <2>7. p \in DOMAIN after
          /\ after[p] = [name |-> m.name, threshold |-> m.threshold, archived |-> FALSE]
      BY <2>4 DEF Put
    <2>8. m \in M /\ Stocked(M, p) # {}
      BY <2>1
    <2>9. after[p] = [name |-> m.name, threshold |-> m.threshold,
                      archived |-> \E e \in ArchivedOf(M) : Before(m, e)]
      BY <2>5, <2>7
    <2> HIDE DEF M, after
    <2>10. HoldsProduct(after[p], M, p)
      BY <2>6, <2>8, <2>9 DEF HoldsProduct
    <2> QED BY <2>7, <2>8, <2>10 DEF ProductAgrees, M, after
  <1>4. CASE m.type # "PRODUCT_ADDED"
    <2>1. Stocked(M, p) = Stocked(L, p)
      BY <1>4 DEF Stocked, For
    <2>2. CASE p \notin DOMAIN products
      <3>1. after = products
        BY <1>4, <2>2 DEF ApplyProduct
      <3> HIDE DEF after
      <3> QED BY <3>1, <2>1, <2>2 DEF ProductAgrees, after
    <2>3. CASE p \in DOMAIN products
      <3>1. PICK name, threshold, added \in L :
              /\ IsLast(Stocked(L, p) \cup Named(L), name)
              /\ IsLast(Stocked(L, p) \cup Limited(L), threshold)
              /\ IsLast(Stocked(L, p), added)
              /\ products[p] = [name |-> name.name, threshold |-> threshold.threshold,
                                archived |-> \E e \in ArchivedOf(L) : Before(added, e)]
        BY <2>3 DEF ProductAgrees, HoldsProduct
      <3>2. added \in Stocked(L, p) /\ DOMAIN after = DOMAIN products
        BY <3>1, <1>4, <2>3 DEF IsLast, ApplyProduct
      <3> DEFINE gone == \E e \in ArchivedOf(L) : Before(added, e)
                 r == products[p]
                 q == after[p]
      <3>3. r = [name |-> name.name, threshold |-> threshold.threshold, archived |-> gone]
        BY <3>1
      <3>4. CASE m.type = "PRODUCT_UPDATED"
        <4>1. Updates(M, p) = Updates(L, p) \cup {m}
          <5>1. For(M, {"PRODUCT_UPDATED"}, p) = For(L, {"PRODUCT_UPDATED"}, p) \cup {m}
            BY <3>4 DEF For
          <5>2. Before(added, m)
            BY <1>1
          <5> HIDE DEF M
          <5> QED BY <5>1, <5>2, <2>1, <3>2 DEF Updates
        <4>2. ArchivedOf(M) = ArchivedOf(L)
          BY <3>4 DEF For
        <4>3. after[p] = [name |-> IF m.name = Keep THEN name.name ELSE m.name,
                          threshold |-> IF m.threshold = Keep THEN threshold.threshold
                                        ELSE m.threshold,
                          archived |-> \E e \in ArchivedOf(M) : Before(added, e)]
          <5>1. q = [r EXCEPT !.name = IF m.name = Keep THEN @ ELSE m.name,
                              !.threshold = IF m.threshold = Keep THEN @ ELSE m.threshold]
            BY <3>4, <2>3 DEF ApplyProduct
          <5> HIDE DEF gone, after, q, r
          <5>2. q = [name |-> IF m.name = Keep THEN name.name ELSE m.name,
                     threshold |-> IF m.threshold = Keep THEN threshold.threshold
                                   ELSE m.threshold,
                     archived |-> gone]
            BY <5>1, <3>3, ProductRowUpdated
          <5> QED BY <5>2, <4>2 DEF gone, q
        <4>4. PICK n \in M : /\ IsLast(Stocked(M, p) \cup Named(M), n)
                             /\ n.name = IF m.name = Keep THEN name.name ELSE m.name
          <5> DEFINE B == Stocked(L, p) \cup Named(L)
                     D == Stocked(M, p) \cup Named(M)
          <5>1. B \in SUBSET L
            BY <1>2
          <5>2. (m.name = Keep => D = B) /\ (m.name # Keep => D = B \cup {m})
            <6> HIDE DEF M
            <6> QED BY <2>1, <4>1
          <5>3. IsLast(B, name) /\ name \in M /\ m \in M /\ \A S \in SUBSET L : IsLast(S \cup {m}, m)
            BY <3>1, <1>1
          <5> HIDE DEF B, D, M
          <5>4. CASE m.name = Keep
            BY <5>2, <5>3, <5>4 DEF D
          <5>5. CASE m.name # Keep
            BY <5>1, <5>2, <5>3, <5>5 DEF D
          <5> QED BY <5>4, <5>5
        <4>5. PICK t \in M : /\ IsLast(Stocked(M, p) \cup Limited(M), t)
                             /\ t.threshold = IF m.threshold = Keep THEN threshold.threshold
                                              ELSE m.threshold
          <5> DEFINE B == Stocked(L, p) \cup Limited(L)
                     D == Stocked(M, p) \cup Limited(M)
          <5>1. B \in SUBSET L
            BY <1>2
          <5>2. (m.threshold = Keep => D = B) /\ (m.threshold # Keep => D = B \cup {m})
            <6> HIDE DEF M
            <6> QED BY <2>1, <4>1
          <5>3. /\ IsLast(B, threshold) /\ threshold \in M /\ m \in M
                /\ \A S \in SUBSET L : IsLast(S \cup {m}, m)
            BY <3>1, <1>1
          <5> HIDE DEF B, D, M
          <5>4. CASE m.threshold = Keep
            BY <5>2, <5>3, <5>4 DEF D
          <5>5. CASE m.threshold # Keep
            BY <5>1, <5>2, <5>3, <5>5 DEF D
          <5> QED BY <5>4, <5>5
        <4>6. added \in M /\ IsLast(Stocked(M, p), added)
          BY <2>1, <3>1
        <4> HIDE DEF M, after
        <4>7. after[p] = [name |-> n.name, threshold |-> t.threshold,
                          archived |-> \E e \in ArchivedOf(M) : Before(added, e)]
          <5> HIDE DEF gone, r, q
          <5> QED BY <4>3, <4>4, <4>5, Zenon
        <4>8. HoldsProduct(after[p], M, p)
          <5> HIDE DEF gone, r, q
          <5> QED BY <4>4, <4>5, <4>6, <4>7 DEF HoldsProduct
        <4> QED BY <4>8, <2>1, <2>3, <3>2 DEF ProductAgrees, M, after
      <3>5. CASE m.type = "PRODUCT_ARCHIVED"
        <4>1. Updates(M, p) = Updates(L, p)
          <5>1. For(M, {"PRODUCT_UPDATED"}, p) = For(L, {"PRODUCT_UPDATED"}, p)
            BY <3>5 DEF For
          <5> HIDE DEF M
          <5> QED BY <5>1, <2>1 DEF Updates
        <4>2. m \in ArchivedOf(M) /\ Before(added, m)
          BY <3>5, <1>1 DEF For
        <4>3. after[p] = [name |-> name.name, threshold |-> threshold.threshold,
                          archived |-> \E e \in ArchivedOf(M) : Before(added, e)]
          <5>1. q = [r EXCEPT !.archived = TRUE]
            BY <3>5, <2>3 DEF ApplyProduct
          <5> HIDE DEF gone, after, q, r
          <5>2. q = [name |-> name.name, threshold |-> threshold.threshold, archived |-> TRUE]
            BY <5>1, <3>3, ProductRowArchived
          <5>3. (\E e \in ArchivedOf(M) : Before(added, e)) = TRUE
            BY <4>2
          <5> QED BY <5>2, <5>3 DEF q
        <4>4. name \in M /\ threshold \in M /\ added \in M
          OBVIOUS
        <4> HIDE DEF M, after
        <4>5. HoldsProduct(after[p], M, p)
          BY <4>1, <4>3, <4>4, <3>1, <2>1 DEF HoldsProduct
        <4> QED BY <4>5, <2>1, <2>3, <3>2 DEF ProductAgrees, M, after
      <3> QED BY <3>4, <3>5, <1>4 DEF OfProduct
    <2> QED BY <2>2, <2>3
  <1> QED BY <1>3, <1>4

\* One movement of a product's stock.
LEMMA MovementTurn ==
    ASSUME NEW L, NEW m, Sound(L \cup {m}), Follows(m, L), NEW stock,
           m.type \in Movements, NEW p, m.product = p, StockAgrees(stock, L, p)
    PROVE  StockAgrees(ApplyStockDelta(stock, m), L \cup {m}, p)
  <1> DEFINE M == L \cup {m}
             after == ApplyStockDelta(stock, m)
             In(S) == For(S, {"STOCK_RECEIVED", "STOCK_ADJUSTED"}, p)
             Out(S) == For(S, {"STOCK_SOLD"}, p)
             given == Units(In(L))
             sold == Units(Out(L))
  <1>1. /\ m \notin L /\ m.units \in Int /\ Delta(m) \in Int
        /\ \A e \in For(L, Movements, p) : e.units \in Int
    BY DEF Sound, Readable, Follows, For, Delta
  <1>2. /\ For(M, Movements, p) = For(L, Movements, p) \cup {m}
        /\ In(L) \in SUBSET For(L, Movements, p) /\ Out(L) \in SUBSET For(L, Movements, p)
    BY DEF For, Movements
  <1>3. IsFiniteSet(In(L)) /\ IsFiniteSet(Out(L))
    <2>1. IsFiniteSet(L \cup {m}) /\ In(L) \subseteq L \cup {m} /\ Out(L) \subseteq L \cup {m}
      BY DEF Sound, Stamped, For
    <2> HIDE DEF In, Out
    <2> QED BY <2>1, FS_Subset
  <1>4. given \in Int /\ sold \in Int /\ Units(In(M)) - Units(Out(M)) = (given - sold) + Delta(m)
    <2>1. m \notin In(L) /\ m \notin Out(L)
      BY <1>1 DEF For
    <2>2. (\A e \in In(L) : e.units \in Int) /\ (\A e \in Out(L) : e.units \in Int)
      BY <1>1, <1>2
    <2>3. IF m.type = "STOCK_SOLD" THEN Out(M) = Out(L) \cup {m} /\ In(M) = In(L)
          ELSE Out(M) = Out(L) /\ In(M) = In(L) \cup {m}
      BY DEF For, Movements
    <2> HIDE DEF In, Out, M
    <2>4. given \in Int /\ Units(In(L) \cup {m}) = given + m.units
      BY <1>1, <1>3, <2>1, <2>2, UnitsAdds
    <2>5. sold \in Int /\ Units(Out(L) \cup {m}) = sold + m.units
      BY <1>1, <1>3, <2>1, <2>2, UnitsAdds
    <2>6. CASE m.type = "STOCK_SOLD"
      <3>1. Units(In(M)) = given /\ Units(Out(M)) = sold + m.units /\ Delta(m) = -m.units
        BY <2>3, <2>5, <2>6 DEF Delta
      <3> HIDE DEF given, sold
      <3> QED BY <3>1, <2>4, <2>5, <1>1
    <2>7. CASE m.type # "STOCK_SOLD"
      <3>1. Units(In(M)) = given + m.units /\ Units(Out(M)) = sold /\ Delta(m) = m.units
        BY <2>3, <2>4, <2>7 DEF Delta
      <3> HIDE DEF given, sold
      <3> QED BY <3>1, <2>4, <2>5, <1>1
    <2> QED BY <2>6, <2>7
  <1>5. p \in DOMAIN after
        /\ after[p] = (IF p \in DOMAIN stock THEN stock[p] ELSE 0) + Delta(m)
    BY DEF ApplyStockDelta, Put
  <1>6. after[p] = RefStock(M, p)
    <2>1. CASE p \notin DOMAIN stock
      <3>1. For(L, Movements, p) = {}
        BY <2>1 DEF StockAgrees
      <3>2. In(L) = {} /\ Out(L) = {}
        BY <3>1, <1>2
      <3>3. given = 0 /\ sold = 0
        <4> HIDE DEF In, Out
        <4> QED BY <3>2, UnitsOfNothing
      <3>4. after[p] = 0 + Delta(m)
        BY <1>5, <2>1
      <3> HIDE DEF given, sold, after
      <3>5. after[p] = Units(In(M)) - Units(Out(M))
        <4> HIDE DEF In, Out, M
        <4> QED BY <1>1, <1>4, <3>3, <3>4
      <3> QED BY <3>5 DEF RefStock, after
    <2>2. CASE p \in DOMAIN stock
      <3>1. stock[p] = given - sold
        BY <2>2 DEF StockAgrees, RefStock
      <3>2. after[p] = stock[p] + Delta(m)
        BY <1>5, <2>2
      <3> HIDE DEF given, sold, after
      <3>3. after[p] = Units(In(M)) - Units(Out(M))
        <4> HIDE DEF In, Out, M
        <4> QED BY <1>4, <3>1, <3>2
      <3> QED BY <3>3 DEF RefStock, after
    <2> QED BY <2>1, <2>2
  <1> HIDE DEF after, M
  <1> QED BY <1>2, <1>5, <1>6 DEF StockAgrees, after, M

\* The two parts of the inventory, whether the event is skipped or not.
LEMMA StockTurnParts ==
    ASSUME NEW s, NEW m, NEW V
    PROVE  /\ m.id \in V => StockTurn(s, m, V) = s
           /\ m.id \notin V =>
                /\ StockTurn(s, m, V).products
                     = IF m.type \in OfProduct THEN ApplyProduct(s.products, m) ELSE s.products
                /\ StockTurn(s, m, V).stock
                     = IF m.type \in Movements THEN ApplyStockDelta(s.stock, m) ELSE s.stock
BY DEF StockTurn

\* An event leaves alone the rows of the products it does not concern.
LEMMA ProductsElsewhere ==
    ASSUME NEW s, NEW m, NEW V, NEW p, ~ConcernsProduct(m, p), NEW L
    PROVE  /\ ProductAgrees(s.products, L, p) => ProductAgrees(StockTurn(s, m, V).products, L, p)
           /\ StockAgrees(s.stock, L, p) => StockAgrees(StockTurn(s, m, V).stock, L, p)
  <1> DEFINE f == s.products  g == s.stock
  <1>1. m.type \in OfProduct =>
          /\ p \in DOMAIN ApplyProduct(f, m) <=> p \in DOMAIN f
          /\ p \in DOMAIN f => ApplyProduct(f, m)[p] = f[p]
    <2>1. m.type \in OfProduct => m.product # p
      BY DEF ConcernsProduct
    <2> HIDE DEF f
    <2> QED BY <2>1 DEF ApplyProduct, Put, OfProduct
  <1>2. m.type \in Movements =>
          /\ p \in DOMAIN ApplyStockDelta(g, m) <=> p \in DOMAIN g
          /\ p \in DOMAIN g => ApplyStockDelta(g, m)[p] = g[p]
    <2>1. m.type \in Movements => m.product # p
      BY DEF ConcernsProduct
    <2> HIDE DEF g
    <2> QED BY <2>1 DEF ApplyStockDelta, Put
  <1>3. CASE m.id \in V
    BY <1>3, StockTurnParts
  <1>4. CASE m.id \notin V
    <2> DEFINE t == StockTurn(s, m, V)
    <2>1. /\ t.products = IF m.type \in OfProduct THEN ApplyProduct(f, m) ELSE f
          /\ t.stock = IF m.type \in Movements THEN ApplyStockDelta(g, m) ELSE g
      BY <1>4, StockTurnParts
    <2> HIDE DEF t, f, g
    <2> QED BY <1>1, <1>2, <2>1 DEF ProductAgrees, StockAgrees, t, f, g
  <1> QED BY <1>3, <1>4

\* The inventory of the events S is the reference's of those that stand.
LEMMA InventoryAgrees ==
    ASSUME NEW L, Sound(L), NEW V, NEW p
    PROVE  /\ ProductAgrees(StockWith(L, V).products, Standing(L, V), p)
           /\ StockAgrees(StockWith(L, V).stock, Standing(L, V), p)
  <1> DEFINE Good(S) == /\ ProductAgrees(StockWith(S, V).products, Standing(S, V), p)
                        /\ StockAgrees(StockWith(S, V).stock, Standing(S, V), p)
             Bad == {S \in SUBSET L : ~Good(S)}
  <1>1. SUFFICES ASSUME Bad # {} PROVE FALSE
    <2>1. L \notin Bad
      BY <1>1
    <2> QED BY <2>1
  <1>2. PICK S \in Bad : \A U \in SUBSET S : U \in Bad => U = S
    <2>1. Bad \in SUBSET SUBSET L OBVIOUS
    <2> HIDE DEF Bad
    <2> QED BY <1>1, <2>1, LeastSubset DEF Sound, Stamped
  <1>3. S \in SUBSET L /\ ~Good(S) /\ Sound(S)
    BY <1>2, SoundPart
  <1>4. CASE S = {}
    <2>1. StockWith(S, V) = EmptyInventory /\ Standing(S, V) = {}
      BY <1>4, StockOfNothing DEF Standing
    <2>2. Good(S)
      BY <2>1 DEF EmptyInventory, ProductAgrees, StockAgrees, Stocked, For
    <2> QED BY <2>2, <1>3
  <1>5. CASE S # {}
    <2>1. PICK m : IsLast(S, m)
      BY <1>3, <1>5, LastExists DEF Sound
    <2> DEFINE U == S \ {m}
               s == StockWith(U, V)
               K == Standing(U, V)
               t == StockTurn(s, m, V)
    <2>2. Good(U)
      <3>1. U \in SUBSET S /\ U # S /\ U \in SUBSET L
        BY <2>1, <1>3 DEF IsLast
      <3> QED BY <3>1, <1>2
    <2>3. StockWith(S, V) = t /\ m \in S
      BY <2>1, <1>3, StockStep DEF Sound, IsLast
    <2>4. /\ Standing(S, V) = K \/ Standing(S, V) = K \cup {m}
          /\ m.type # "ENTRY_VOIDED" =>
               Standing(S, V) = IF m.id \in V THEN K ELSE K \cup {m}
      BY <2>3 DEF Standing
    <2>5. Follows(m, K) /\ Sound(K \cup {m})
      <3>1. K \cup {m} \in SUBSET S
        BY <2>3 DEF Standing
      <3>2. Follows(m, K)
        BY <2>1 DEF IsLast, Follows, Standing
      <3> HIDE DEF K
      <3> QED BY <3>1, <3>2, <1>3, SoundPart
    <2>6. ProductAgrees(s.products, K, p) /\ StockAgrees(s.stock, K, p)
      BY <2>2
    <2>7. SUFFICES /\ ProductAgrees(t.products, Standing(S, V), p)
                   /\ StockAgrees(t.stock, Standing(S, V), p)
      BY <2>3, <1>3
    <2> HIDE DEF s, K, U
    <2>8. CASE ~ConcernsProduct(m, p)
      <3>1. ProductAgrees(t.products, K, p) /\ StockAgrees(t.stock, K, p)
        BY <2>6, <2>8, ProductsElsewhere
      <3> HIDE DEF t
      <3>2. ProductAgrees(t.products, K \cup {m}, p) /\ StockAgrees(t.stock, K \cup {m}, p)
        BY <3>1, <2>8, ProductReferenceElsewhere
      <3> QED BY <3>1, <3>2, <2>4
    <2>9. CASE ConcernsProduct(m, p)
      <3>1. m.type # "ENTRY_VOIDED" /\ m.product = p /\ m.type \in OfProduct \cup Movements
        BY <2>9 DEF ConcernsProduct, OfProduct, Movements
      <3>2. CASE m.id \in V
        <4>1. t = s /\ Standing(S, V) = K
          BY <2>4, <3>1, <3>2, StockTurnParts
        <4> HIDE DEF t
        <4> QED BY <4>1, <2>6
      <3>3. CASE m.id \notin V
        <4>1. /\ Standing(S, V) = K \cup {m}
              /\ t.products = IF m.type \in OfProduct THEN ApplyProduct(s.products, m) ELSE s.products
              /\ t.stock = IF m.type \in Movements THEN ApplyStockDelta(s.stock, m) ELSE s.stock
          BY <2>4, <3>1, <3>3, StockTurnParts
        <4> HIDE DEF t
        <4>2. CASE m.type \in OfProduct
          <5>1. t.products = ApplyProduct(s.products, m) /\ t.stock = s.stock
            BY <4>1, <4>2 DEF OfProduct, Movements
          <5>2. ProductAgrees(ApplyProduct(s.products, m), K \cup {m}, p)
            BY <4>2, <2>5, <2>6, <3>1, ProductTurn
          <5>3. StockAgrees(s.stock, K \cup {m}, p)
            <6>1. \A types \in SUBSET Movements : For(K \cup {m}, types, p) = For(K, types, p)
              BY <4>2 DEF For, OfProduct, Movements
            <6>2. RefStock(K \cup {m}, p) = RefStock(K, p)
              BY <6>1 DEF RefStock, Movements
            <6> QED BY <6>1, <6>2, <2>6 DEF StockAgrees
          <5> QED BY <4>1, <5>1, <5>2, <5>3
        <4>3. CASE m.type \in Movements
          <5>1. t.products = s.products /\ t.stock = ApplyStockDelta(s.stock, m)
            BY <4>1, <4>3 DEF OfProduct, Movements
          <5>2. StockAgrees(ApplyStockDelta(s.stock, m), K \cup {m}, p)
            BY <4>3, <2>5, <2>6, <3>1, MovementTurn
          <5>3. ProductAgrees(s.products, K \cup {m}, p)
            <6>1. /\ Stocked(K \cup {m}, p) = Stocked(K, p) /\ Updates(K \cup {m}, p) = Updates(K, p)
                  /\ For(K \cup {m}, {"PRODUCT_ARCHIVED"}, p) = For(K, {"PRODUCT_ARCHIVED"}, p)
              BY <4>3 DEF Stocked, Updates, For, Movements
            <6> QED BY <6>1, <2>6 DEF ProductAgrees, HoldsProduct
          <5> QED BY <4>1, <5>1, <5>2, <5>3
        <4> QED BY <4>2, <4>3, <3>1
      <3> QED BY <3>2, <3>3
    <2> QED BY <2>8, <2>9
  <1> QED BY <1>4, <1>5

\* Every log folds to the reference inventory: the stock is the sum of the
\* movements no void names, of unknown and archived products too.
THEOREM InventoryIsReference == Spec => []StockIsReference
  <1>1. LogOk => StockIsReference
    <2> SUFFICES ASSUME LogOk PROVE StockIsReference
      OBVIOUS
    <2> DEFINE s == FoldInventory(log)
    <2>1. Sound(log)
      BY LogIsSound
    <2>2. ASSUME NEW p
          PROVE  ProductAgrees(s.products, Live, p) /\ StockAgrees(s.stock, Live, p)
      <3>1. s = StockWith(log, VoidedIds(log))
        BY DEF FoldInventory, StockWith
      <3> HIDE DEF s
      <3> QED BY <2>1, <3>1, InventoryAgrees, LiveStands
    <2>3. Sound(Live)
      <3>1. Live \in SUBSET log
        BY DEF Live
      <3> QED BY <3>1, <2>1, SoundPart
    <2> HIDE DEF s
    <2>4. ASSUME NEW p, For(Live, OfProduct \cup Movements, p) # {} PROVE p \in Products
      BY <2>3, <2>4 DEF Sound, Readable, For
    <2>5. DOMAIN s.products = {p \in Products : Stocked(Live, p) # {}}
      <3>1. \A p : Stocked(Live, p) # {} => p \in Products
        BY <2>4 DEF Stocked, For, OfProduct
      <3>2. \A p : p \in DOMAIN s.products <=> Stocked(Live, p) # {}
        BY <2>2 DEF ProductAgrees
      <3> QED BY <3>1, <3>2
    <2>6. DOMAIN s.stock = {p \in Products : For(Live, Movements, p) # {}}
      <3>1. \A p : For(Live, Movements, p) # {} => p \in Products
        BY <2>4 DEF For
      <3>2. \A p : p \in DOMAIN s.stock <=> For(Live, Movements, p) # {}
        BY <2>2 DEF StockAgrees
      <3> QED BY <3>1, <3>2
    <2>7. ASSUME NEW p \in DOMAIN s.products PROVE s.products[p] = RefProduct(Live, p)
      <3> DEFINE A == Stocked(Live, p)
                 N == A \cup {e \in Updates(Live, p) : e.name # Keep}
                 T == A \cup {e \in Updates(Live, p) : e.threshold # Keep}
      <3>1. PICK name, threshold, added \in Live :
               /\ IsLast(N, name) /\ IsLast(T, threshold) /\ IsLast(A, added)
               /\ s.products[p] =
                    [name |-> name.name, threshold |-> threshold.threshold,
                     archived |-> \E e \in For(Live, {"PRODUCT_ARCHIVED"}, p) : Before(added, e)]
        <4>1. HoldsProduct(s.products[p], Live, p)
          BY <2>2 DEF ProductAgrees
        <4> QED BY <4>1, Zenon DEF HoldsProduct
      <3>2. N \in SUBSET Live /\ T \in SUBSET Live /\ A \in SUBSET Live
        BY DEF Stocked, Updates, For
      <3> HIDE DEF A, N, T
      <3>3. Stamped(N) /\ Stamped(T) /\ Stamped(A)
        BY <3>2, <2>3, StampedPart DEF Sound
      <3>4. Latest(N) = name /\ Latest(T) = threshold /\ Latest(A) = added
        BY <3>1, <3>3, LatestIs
      <3> QED BY <3>1, <3>4 DEF RefProduct, A, N, T
    <2>8. \A p \in DOMAIN s.stock : s.stock[p] = RefStock(Live, p)
      BY <2>2 DEF StockAgrees
    <2> QED BY <2>5, <2>6, <2>7, <2>8 DEF StockIsReference, s
  <1> QED BY <1>1, LogAlwaysOk, PTL

----------------------------------------------------------------------------
(* A customer's history, one entry at a time.                               *)

\* As for the loop of fold.
IsLinesRun(g, N, s, voided) ==
    g = [n \in 0..N |-> IF n = 0 THEN <<>> ELSE AddLine(g[n - 1], s[n], voided)]

LEMMA LinesRunExists ==
    ASSUME NEW s, NEW voided, NEW N \in Nat
    PROVE  \E g : IsLinesRun(g, N, s, voided)
  <1> DEFINE Bad == {n \in Nat : ~\E g : IsLinesRun(g, n, s, voided)}
  <1>1. SUFFICES ASSUME Bad # {} PROVE FALSE
    OBVIOUS
  <1>2. PICK n \in Bad : \A m \in Bad : n <= m
    <2> HIDE DEF Bad
    <2> SUFFICES Bad \in SUBSET Nat BY <1>1, LeastNat
    <2> QED BY DEF Bad
  <1>3. n # 0
    <2>1. IsLinesRun([k \in 0..0 |-> <<>>], 0, s, voided)
      BY DEF IsLinesRun
    <2> QED BY <2>1, <1>2
  <1>4. n \in Nat \ {0} /\ n - 1 \in Nat /\ n - 1 \notin Bad
    BY <1>2, <1>3
  <1>5. PICK g : IsLinesRun(g, n - 1, s, voided)
    BY <1>4
  <1> DEFINE h == [k \in 0..n |-> IF k = n THEN AddLine(g[n - 1], s[n], voided) ELSE g[k]]
  <1>6. IsLinesRun(h, n, s, voided)
    <2>1. ASSUME NEW k \in 0..n
          PROVE  h[k] = IF k = 0 THEN <<>> ELSE AddLine(h[k - 1], s[k], voided)
      <3>1. CASE k = n
        BY <3>1, <1>4
      <3>2. CASE k # n
        <4>1. k \in 0..(n - 1) /\ h[k] = g[k] /\ (k # 0 => h[k - 1] = g[k - 1])
          BY <3>2, <1>4
        <4>2. g[k] = IF k = 0 THEN <<>> ELSE AddLine(g[k - 1], s[k], voided)
          <5> HIDE DEF h
          <5> QED BY <4>1, <1>5 DEF IsLinesRun
        <4> HIDE DEF h
        <4> QED BY <4>1, <4>2
      <3> QED BY <3>1, <3>2
    <2>2. h = [k \in 0..n |-> h[k]]
      OBVIOUS
    <2> HIDE DEF h
    <2> QED BY <2>1, <2>2 DEF IsLinesRun
  <1> QED BY <1>6, <1>2

LEMMA LinesRun ==
    ASSUME NEW s, NEW voided, Len(s) \in Nat
    PROVE  IsLinesRun(Lines(s, voided), Len(s), s, voided)
BY LinesRunExists DEF Lines, IsLinesRun

LEMMA LinesSteps ==
    ASSUME NEW s, NEW voided, Len(s) \in Nat
    PROVE  /\ Lines(s, voided)[0] = <<>>
           /\ \A n \in 1..Len(s) :
                Lines(s, voided)[n] = AddLine(Lines(s, voided)[n - 1], s[n], voided)
  <1> DEFINE g == Lines(s, voided)
  <1>1. g = [n \in 0..Len(s) |-> IF n = 0 THEN <<>> ELSE AddLine(g[n - 1], s[n], voided)]
    BY LinesRun DEF IsLinesRun
  <1> HIDE DEF g
  <1>2. \A n \in 0..Len(s) : g[n] = IF n = 0 THEN <<>> ELSE AddLine(g[n - 1], s[n], voided)
    BY <1>1
  <1>3. g[0] = <<>> /\ \A n \in 1..Len(s) : g[n] = AddLine(g[n - 1], s[n], voided)
    BY <1>2
  <1> QED BY <1>3 DEF g

LEMMA LinesAlike ==
    ASSUME NEW s, NEW t, NEW voided, Len(s) \in Nat, Len(t) \in Nat,
           NEW k \in Nat, k <= Len(s), k <= Len(t), \A i \in 1..k : s[i] = t[i]
    PROVE  Lines(s, voided)[k] = Lines(t, voided)[k]
  <1> DEFINE g == Lines(s, voided)
             h == Lines(t, voided)
             Bad == {n \in 0..k : g[n] # h[n]}
  <1>0. /\ g[0] = <<>> /\ \A n \in 1..Len(s) : g[n] = AddLine(g[n - 1], s[n], voided)
        /\ h[0] = <<>> /\ \A n \in 1..Len(t) : h[n] = AddLine(h[n - 1], t[n], voided)
    BY LinesSteps
  <1> HIDE DEF g, h
  <1>1. SUFFICES ASSUME Bad # {} PROVE FALSE
    BY DEF g, h
  <1>2. PICK n \in Bad : \A m \in Bad : n <= m
    <2>1. Bad \in SUBSET Nat OBVIOUS
    <2> HIDE DEF Bad
    <2> QED BY <1>1, <2>1, LeastNat
  <1>3. n \in 1..k
    BY <1>0, <1>2
  <1>4. n - 1 \in 0..k /\ n - 1 \notin Bad
    BY <1>2, <1>3
  <1>5. g[n - 1] = h[n - 1]
    BY <1>4
  <1>6. n \in 1..Len(s) /\ n \in 1..Len(t) /\ s[n] = t[n]
    BY <1>3
  <1>7. g[n] = h[n]
    BY <1>0, <1>5, <1>6
  <1> QED BY <1>7, <1>2

\* The lines of the entries L with a set of voided ids of its own.
LinesWith(L, voided) == Lines(Sorted(L), voided)[Cardinality(L)]

LEMMA LinesOfNothing ==
    ASSUME NEW voided
    PROVE  LinesWith({}, voided) = <<>>
  <1>1. Cardinality({}) = 0 /\ IsFiniteSet({})
    BY FS_EmptySet
  <1>2. Len(Sorted({})) = 0
    BY <1>1, SortedLen
  <1> QED BY <1>1, <1>2, LinesSteps DEF LinesWith

\* What the fold of a L adds to that of the L without its last event.
LEMMA LinesStep ==
    ASSUME NEW L, Stamped(L), NEW m, IsLast(L, m), NEW voided
    PROVE  LinesWith(L, voided) = AddLine(LinesWith(L \ {m}, voided), m, voided)
  <1> DEFINE rest == L \ {m}
             n == Cardinality(rest)
  <1>1. IsFiniteSet(L) /\ IsFiniteSet(rest)
    BY FS_RemoveElement DEF Stamped
  <1>2. /\ n \in Nat /\ Cardinality(L) = n + 1
        /\ Len(Sorted(L)) = n + 1 /\ Len(Sorted(rest)) = n
    BY <1>1, SortedLen, SortedLast
  <1>3. Lines(Sorted(L), voided)[n] = Lines(Sorted(rest), voided)[n]
    <2>1. \A i \in 1..n : Sorted(L)[i] = Sorted(rest)[i]
      BY SortedLast
    <2> HIDE DEF rest, n
    <2> QED BY <1>2, <2>1, LinesAlike
  <1>4. Lines(Sorted(L), voided)[n + 1]
          = AddLine(Lines(Sorted(L), voided)[n], Sorted(L)[n + 1], voided)
    BY <1>2, LinesSteps
  <1>5. Sorted(L)[n + 1] = m
    BY <1>2, SortedLast
  <1> QED BY <1>2, <1>3, <1>4, <1>5 DEF LinesWith

\* lines are those of the entries L of c.
LinesAgree(lines, L, V, c) ==
    /\ \E X : lines \in Seq(X)
    /\ L = {} <=> lines = <<>>
    /\ lines # <<>> => lines[Len(lines)].balance = Owed(Standing(L, V), c)
    /\ {lines[i].event : i \in {j \in DOMAIN lines : ~lines[j].voided}} = Standing(L, V)

LEMMA LineTurn ==
    ASSUME NEW L, NEW m, Sound(L \cup {m}), m \notin L, NEW V, NEW c,
           \A e \in L \cup {m} : e.type \in Entries /\ e.customer = c,
           NEW lines, LinesAgree(lines, L, V, c)
    PROVE  LinesAgree(AddLine(lines, m, V), L \cup {m}, V, c)
  <1> DEFINE was == IF lines = <<>> THEN 0 ELSE lines[Len(lines)].balance
             delta == IF m.type = "CREDIT_GIVEN" THEN m.amount ELSE -m.amount
             line == [event |-> m, voided |-> m.id \in V,
                      balance |-> was + (IF m.id \in V THEN 0 ELSE delta)]
             after == AddLine(lines, m, V)
             K == Standing(L, V)
             M == Standing(L \cup {m}, V)
  <1>1. after = Append(lines, line)
    BY DEF AddLine
  <1>2. PICK X : lines \in Seq(X)
    BY DEF LinesAgree
  <1>3. m.type # "ENTRY_VOIDED" /\ M = IF m.id \in V THEN K ELSE K \cup {m}
    BY DEF Standing, Entries
  <1>4. line.event = m /\ (line.voided <=> m.id \in V)
        /\ line.balance = was + (IF m.id \in V THEN 0 ELSE delta)
    OBVIOUS
  <1>5. delta \in Int /\ Owed(K, c) \in Int /\ Owed(K \cup {m}, c) = Owed(K, c) + delta
    <2>1. K \cup {m} \in SUBSET (L \cup {m}) /\ m \notin K
      BY DEF Standing
    <2>2. Sound(K \cup {m})
      BY <2>1, SoundPart
    <2>3. m.type \in Entries /\ m.customer = c
      OBVIOUS
    <2> HIDE DEF K, delta
    <2> QED BY <2>1, <2>2, <2>3, OwedAdds DEF delta
  <1>6. was = Owed(K, c)
    <2>1. CASE lines = <<>>
      <3>1. Of(K, {"CREDIT_GIVEN"}, c) = {} /\ Of(K, {"PAYMENT_RECEIVED"}, c) = {}
        BY <2>1 DEF LinesAgree, Standing, Of
      <3>2. Owed(K, c) = 0
        <4> HIDE DEF K, was, delta, line, after, M
        <4>1. Owed(K, c) = Total({}) - Total({})
          BY <3>1 DEF Owed
        <4> QED BY <4>1, TotalOfNothing
      <3> QED BY <2>1, <3>2
    <2>2. CASE lines # <<>>
      BY <2>2 DEF LinesAgree
    <2> QED BY <2>1, <2>2
  <1>7. line.balance = Owed(M, c)
    <2> HIDE DEF was, delta, line, K, M
    <2> QED BY <1>3, <1>4, <1>5, <1>6
  <1> HIDE DEF was, delta, line, after
  <1>8. /\ after \in Seq(X \cup {line})
        /\ Len(lines) \in Nat /\ Len(after) = Len(lines) + 1
        /\ DOMAIN lines = 1..Len(lines) /\ DOMAIN after = 1..(Len(lines) + 1)
        /\ \A i \in 1..Len(lines) : after[i] = lines[i]
        /\ after[Len(lines) + 1] = line
    <2>1. lines \in Seq(X \cup {line})
      BY <1>2
    <2> QED BY <1>1, <2>1
  <1>9. after # <<>>
    <2>1. Len(<<>>) = 0
      OBVIOUS
    <2> QED BY <1>8, <2>1
  <1>10. {after[i].event : i \in {j \in DOMAIN after : ~after[j].voided}} = M
    <2> DEFINE n == Len(lines)
    <2>1. {lines[i].event : i \in {j \in 1..n : ~lines[j].voided}} = K
      BY <1>8 DEF LinesAgree
    <2>2. DOMAIN after = 1..n \cup {n + 1} /\ n + 1 \notin 1..n
      BY <1>8
    <2>3. (\A i \in 1..n : after[i] = lines[i]) /\ after[n + 1] = line
      BY <1>8
    <2> HIDE DEF n, K, M
    <2> QED BY <1>3, <1>4, <2>1, <2>2, <2>3
  <1> HIDE DEF M
  <1> QED BY <1>7, <1>8, <1>9, <1>10 DEF LinesAgree, M, after

LEMMA HistoryAgrees ==
    ASSUME NEW L, Sound(L), NEW V, NEW c, \A e \in L : e.type \in Entries /\ e.customer = c
    PROVE  LinesAgree(LinesWith(L, V), L, V, c)
  <1> DEFINE Good(S) == LinesAgree(LinesWith(S, V), S, V, c)
             Bad == {S \in SUBSET L : ~Good(S)}
  <1>1. SUFFICES ASSUME Bad # {} PROVE FALSE
    <2>1. L \notin Bad
      BY <1>1
    <2> QED BY <2>1
  <1>2. PICK S \in Bad : \A U \in SUBSET S : U \in Bad => U = S
    <2>1. Bad \in SUBSET SUBSET L OBVIOUS
    <2> HIDE DEF Bad
    <2> QED BY <1>1, <2>1, LeastSubset DEF Sound, Stamped
  <1>3. S \in SUBSET L /\ ~Good(S) /\ Sound(S)
    BY <1>2, SoundPart
  <1>4. CASE S = {}
    <2>1. LinesWith(S, V) = <<>> /\ Standing(S, V) = {}
      BY <1>4, LinesOfNothing DEF Standing
    <2>2. <<>> \in Seq({}) /\ DOMAIN <<>> = {}
      OBVIOUS
    <2>3. Good(S)
      BY <1>4, <2>1, <2>2 DEF LinesAgree
    <2> QED BY <2>3, <1>3
  <1>5. CASE S # {}
    <2>1. PICK m : IsLast(S, m)
      BY <1>3, <1>5, LastExists DEF Sound
    <2> DEFINE U == S \ {m}
    <2>2. m \in S /\ U \cup {m} = S /\ m \notin U
      BY <2>1 DEF IsLast
    <2>3. Good(U)
      <3>1. U \in SUBSET S /\ U # S /\ U \in SUBSET L
        BY <2>2, <1>3
      <3> QED BY <3>1, <1>2
    <2>4. LinesWith(S, V) = AddLine(LinesWith(U, V), m, V)
      BY <2>1, <1>3, LinesStep DEF Sound
    <2>5. \A e \in U \cup {m} : e.type \in Entries /\ e.customer = c
      BY <2>2, <1>3
    <2> HIDE DEF U
    <2>6. Good(S)
      BY <2>2, <2>3, <2>4, <2>5, <1>3, LineTurn
    <2> QED BY <2>6, <1>3
  <1> QED BY <1>4, <1>5

\* A customer's history ends at the balance the fold gives, and its lines not
\* marked as voided are the entries the fold counts.
THEOREM HistoryIsTheFolds == Spec => []HistoryAgreesWithFold
  <1>1. LogOk => HistoryAgreesWithFold
    <2> SUFFICES ASSUME LogOk, NEW c \in Customers
                 PROVE  LET state == Fold(log)
                            lines == History(log, c)
                        IN  /\ c \in DOMAIN state.balances =>
                                  lines # <<>> /\ lines[Len(lines)].balance = state.balances[c].balance
                            /\ {lines[i].event : i \in {j \in DOMAIN lines : ~lines[j].voided}}
                                  = Of(Live, Entries, c)
      BY DEF HistoryAgreesWithFold
    <2> DEFINE E == EntriesOf(log, c)
               V == VoidedOf(log, c)
               W == VoidedIds(log)
               state == Fold(log)
               lines == History(log, c)
    <2>1. Sound(log)
      BY LogIsSound
    <2>2. E = Of(log, Entries, c) /\ E \in SUBSET log
      BY DEF EntriesOf, Of
    <2>3. lines = LinesWith(E, V)
      BY DEF History, LinesWith
    <2>4. Standing(E, V) = Of(Live, Entries, c)
      <3>1. \A e \in E : e.id \in V <=> e.id \in W
        BY DEF VoidedOf, VoidedIds
      <3>2. Of(Live, Entries, c) = {e \in E : e.id \notin W}
        BY <2>2, LiveStands DEF Of, Standing, Entries
      <3>3. Standing(E, V) = {e \in E : e.id \notin V}
        BY DEF Standing, EntriesOf, Entries
      <3> HIDE DEF E, V, W
      <3> QED BY <3>1, <3>2, <3>3
    <2>5. \A e \in E : e.type \in Entries /\ e.customer = c
      BY DEF EntriesOf
    <2> HIDE DEF E, V, W, lines, state
    <2>6. LinesAgree(lines, E, V, c)
      BY <2>1, <2>2, <2>3, <2>5, SoundPart, HistoryAgrees
    <2>7. BalanceAgrees(state.balances, Live, c)
      <3>1. state = FoldWith(log, W)
        BY DEF Fold, FoldWith, state, W
      <3> QED BY <2>1, <3>1, FoldAgrees, LiveStands DEF W
    <2>8. ASSUME c \in DOMAIN state.balances
          PROVE  lines # <<>> /\ lines[Len(lines)].balance = state.balances[c].balance
      <3>1. Of(Live, Entries, c) # {} /\ state.balances[c].balance = Owed(Live, c)
        <4>1. Of(Live, Entries, c) # {} /\ HoldsBalance(state.balances[c], Live, c)
          BY <2>7, <2>8 DEF BalanceAgrees
        <4>2. PICK last : state.balances[c] = [balance |-> Owed(Live, c), last |-> last]
          BY <4>1 DEF HoldsBalance, Owed
        <4> QED BY <4>1, <4>2
      <3>2. E # {}
        BY <3>1, <2>4 DEF Standing
      <3>3. Owed(Of(Live, Entries, c), c) = Owed(Live, c)
        <4>1. /\ Of(Of(Live, Entries, c), {"CREDIT_GIVEN"}, c) = Of(Live, {"CREDIT_GIVEN"}, c)
              /\ Of(Of(Live, Entries, c), {"PAYMENT_RECEIVED"}, c) = Of(Live, {"PAYMENT_RECEIVED"}, c)
          BY DEF Of, Entries
        <4> QED BY <4>1 DEF Owed
      <3> QED BY <3>1, <3>2, <3>3, <2>4, <2>6 DEF LinesAgree
    <2>9. {lines[i].event : i \in {j \in DOMAIN lines : ~lines[j].voided}} = Of(Live, Entries, c)
      BY <2>4, <2>6 DEF LinesAgree
    <2> QED BY <2>8, <2>9 DEF lines, state
  <1> QED BY <1>1, LogAlwaysOk, PTL

----------------------------------------------------------------------------
(* Anomalies.                                                               *)

LEMMA SumIsNat ==
    ASSUME NEW g, NEW S, IsFiniteSet(S), \A x \in S : g[x] \in Nat PROVE Sum(g, S) \in Nat
  <1> DEFINE h == CHOOSE k : SumRun(k, g, S)
             Bad == {s \in SUBSET S : h[s] \notin Nat}
  <1>1. SumRun(h, g, S)
    BY SumRunExists
  <1>2. Sum(g, S) = h[S]
    BY DEF Sum
  <1> HIDE DEF h
  <1>3. SUFFICES ASSUME Bad # {} PROVE FALSE
    <2>1. S \notin Bad
      BY <1>3
    <2> QED BY <2>1, <1>2
  <1>4. PICK s \in Bad : \A U \in SUBSET s : U \in Bad => U = s
    <2>1. Bad \in SUBSET SUBSET S OBVIOUS
    <2> HIDE DEF Bad
    <2> QED BY <1>3, <2>1, LeastSubset
  <1>5. s \in SUBSET S /\ h[s] \notin Nat
    BY <1>4
  <1>6. s # {}
    BY <1>1, <1>5, SumRunAt
  <1>7. PICK x \in s : s \ {x} \in SUBSET S /\ h[s] = g[x] + h[s \ {x}]
    BY <1>1, <1>5, <1>6, SumRunAt
  <1>8. s \ {x} \notin Bad
    <2>1. s \ {x} \in SUBSET s /\ s \ {x} # s
      BY <1>7
    <2> QED BY <2>1, <1>4
  <1>9. h[s \ {x}] \in Nat /\ g[x] \in Nat
    BY <1>5, <1>7, <1>8
  <1> QED BY <1>5, <1>7, <1>9

LEMMA TotalIsNat ==
    ASSUME NEW S, IsFiniteSet(S), \A e \in S : e.amount \in Nat PROVE Total(S) \in Nat
  <1> DEFINE g == [e \in S |-> e.amount]
  <1>1. \A e \in S : g[e] \in Nat
    OBVIOUS
  <1>2. Total(S) = Sum(g, S)
    BY TotalIsSum
  <1> HIDE DEF g
  <1> QED BY <1>1, <1>2, SumIsNat

LEMMA TotalLess ==
    ASSUME NEW S, IsFiniteSet(S), \A e \in S : e.amount \in Int, NEW m \in S
    PROVE  Total(S \ {m}) = Total(S) - m.amount /\ Total(S) \in Int
  <1> DEFINE R == S \ {m}
  <1>1. IsFiniteSet(R) /\ m \notin R /\ R \cup {m} = S /\ \A e \in R \cup {m} : e.amount \in Int
    BY FS_RemoveElement
  <1> HIDE DEF R
  <1>2. Total(S) = Total(R) + m.amount /\ Total(R) \in Int
    BY <1>1, TotalAdds
  <1> QED BY <1>2 DEF R

\* What the events S did to the stock, all together.
Moved(S) == MapThenSumSet(Delta, S)

LEMMA MovedIsSum ==
    ASSUME NEW S, IsFiniteSet(S) PROVE Moved(S) = Sum([x \in S |-> Delta(x)], S)
  <1> DEFINE g == [x \in S |-> Delta(x)]
             Iter(h) == h = [s \in SUBSET S |->
                                IF s = {} THEN 0
                                ELSE LET x == CHOOSE x \in s : TRUE IN Delta(x) + h[s \ {x}]]
  <1>1. Moved(S) = (CHOOSE h : Iter(h))[S]
    BY DEF Moved, MapThenSumSet, MapThenFoldSet
  <1>2. ASSUME NEW h PROVE Iter(h) <=> SumRun(h, g, S)
    <2>1. ASSUME NEW s \in SUBSET S, s # {}
          PROVE  Delta(CHOOSE x \in s : TRUE) = g[CHOOSE x \in s : TRUE]
      <3>1. (CHOOSE x \in s : TRUE) \in s BY <2>1
      <3> QED BY <3>1
    <2> HIDE DEF g
    <2>2. [s \in SUBSET S |-> IF s = {} THEN 0
                  ELSE LET x == CHOOSE x \in s : TRUE IN Delta(x) + h[s \ {x}]]
          = [s \in SUBSET S |-> IF s = {} THEN 0
                  ELSE LET x == CHOOSE x \in s : TRUE IN g[x] + h[s \ {x}]]
      BY <2>1
    <2> QED BY <2>2 DEF SumRun
  <1>3. (CHOOSE h : Iter(h)) = (CHOOSE h : SumRun(h, g, S))
    <2> HIDE DEF Iter, g
    <2> QED BY <1>2, Zenon
  <1> QED BY <1>1, <1>3 DEF Sum

LEMMA MovedAdds ==
    ASSUME NEW S, IsFiniteSet(S), NEW m, m \notin S, \A e \in S \cup {m} : Delta(e) \in Int
    PROVE  Moved(S \cup {m}) = Moved(S) + Delta(m) /\ Moved(S) \in Int
  <1> DEFINE T == S \cup {m}
             g == [e \in S |-> Delta(e)]
             f == [e \in T |-> Delta(e)]
  <1>1. IsFiniteSet(T)
    BY FS_AddElement
  <1>2. Moved(S) = Sum(g, S) /\ Moved(T) = Sum(f, T)
    <2> HIDE DEF T
    <2> QED BY <1>1, MovedIsSum DEF g, f
  <1>3. (\A e \in S : g[e] = f[e]) /\ (\A e \in S \cup {m} : f[e] \in Int) /\ f[m] = Delta(m)
    OBVIOUS
  <1> HIDE DEF g, f
  <1>4. Sum(f, S \cup {m}) = Sum(g, S) + f[m] /\ Sum(g, S) \in Int
    BY <1>3, SumAdds
  <1> QED BY <1>2, <1>3, <1>4

LEMMA MovedIsNat ==
    ASSUME NEW S, IsFiniteSet(S), \A e \in S : Delta(e) \in Nat PROVE Moved(S) \in Nat
  <1> DEFINE g == [e \in S |-> Delta(e)]
  <1>1. \A e \in S : g[e] \in Nat
    OBVIOUS
  <1>2. Moved(S) = Sum(g, S)
    BY MovedIsSum
  <1> HIDE DEF g
  <1> QED BY <1>1, <1>2, SumIsNat

\* The stock of the reference is what its movements did.
LEMMA StockIsMoved ==
    ASSUME NEW L, Sound(L), NEW p
    PROVE  RefStock(L, p) = Moved(For(L, Movements, p)) /\ RefStock(L, p) \in Int
  <1> DEFINE In(S) == For(S, {"STOCK_RECEIVED", "STOCK_ADJUSTED"}, p)
             Out(S) == For(S, {"STOCK_SOLD"}, p)
             All(S) == For(S, Movements, p)
             Good(S) == RefStock(S, p) = Moved(All(S)) /\ RefStock(S, p) \in Int
             Bad == {S \in SUBSET L : ~Good(S)}
  <1>1. SUFFICES ASSUME Bad # {} PROVE FALSE
    <2>1. L \notin Bad
      BY <1>1
    <2> QED BY <2>1
  <1>2. PICK S \in Bad : \A U \in SUBSET S : U \in Bad => U = S
    <2>1. Bad \in SUBSET SUBSET L OBVIOUS
    <2> HIDE DEF Bad
    <2> QED BY <1>1, <2>1, LeastSubset DEF Sound, Stamped
  <1>3. S \in SUBSET L /\ ~Good(S) /\ Sound(S)
    BY <1>2, SoundPart
  <1>4. All(S) # {}
    <2> SUFFICES ASSUME All(S) = {} PROVE Good(S)
      BY <1>3
    <2>1. In(S) = {} /\ Out(S) = {}
      BY DEF For, Movements
    <2>2. RefStock(S, p) = Units({}) - Units({})
      BY <2>1 DEF RefStock
    <2>3. Moved({}) = 0
      BY FS_EmptySet, MovedIsSum, SumOfNothing
    <2>4. RefStock(S, p) = 0
      BY <2>2, UnitsOfNothing
    <2> HIDE DEF All
    <2> QED BY <2>3, <2>4
  <1>5. PICK m \in All(S) : TRUE
    BY <1>4
  <1> DEFINE U == S \ {m}
  <1>6. m \in S /\ m.type \in Movements /\ m.product = p /\ m \notin U /\ U \cup {m} = S
    BY <1>5 DEF For
  <1>7. Good(U)
    <2>1. U \in SUBSET S /\ U # S /\ U \in SUBSET L
      BY <1>3, <1>6
    <2> QED BY <2>1, <1>2
  <1>8. /\ IsFiniteSet(All(U)) /\ m \notin All(U) /\ All(S) = All(U) \cup {m}
        /\ \A e \in All(U) \cup {m} : Delta(e) \in Int
    <2>1. IsFiniteSet(S) /\ All(U) \in SUBSET S /\ All(S) = All(U) \cup {m} /\ m \notin All(U)
      BY <1>3, <1>6 DEF Sound, Stamped, For
    <2>2. \A e \in All(S) : Delta(e) \in Int
      BY <1>3 DEF Sound, Readable, For, Delta
    <2> HIDE DEF All, U
    <2> QED BY <2>1, <2>2, FS_Subset
  <1>9. Moved(All(S)) = Moved(All(U)) + Delta(m)
    <2> HIDE DEF All, U
    <2> QED BY <1>8, MovedAdds
  <1>10. RefStock(S, p) = RefStock(U, p) + Delta(m) /\ Delta(m) \in Int
    <2>1. /\ IsFiniteSet(S) /\ In(U) \in SUBSET S /\ Out(U) \in SUBSET S
          /\ m \notin In(U) /\ m \notin Out(U) /\ m.units \in Int
          /\ (\A e \in In(U) : e.units \in Int) /\ (\A e \in Out(U) : e.units \in Int)
      BY <1>3, <1>6 DEF Sound, Stamped, Readable, For, Movements
    <2>2. IsFiniteSet(In(U)) /\ IsFiniteSet(Out(U))
      <3> HIDE DEF In, Out
      <3> QED BY <2>1, FS_Subset
    <2>3. IF m.type = "STOCK_SOLD" THEN Out(S) = Out(U) \cup {m} /\ In(S) = In(U)
          ELSE Out(S) = Out(U) /\ In(S) = In(U) \cup {m}
      BY <1>6 DEF For, Movements
    <2> DEFINE given == Units(In(U))
               sold == Units(Out(U))
    <2> HIDE DEF In, Out, U
    <2>4. given \in Int /\ Units(In(U) \cup {m}) = given + m.units
      BY <2>1, <2>2, UnitsAdds
    <2>5. sold \in Int /\ Units(Out(U) \cup {m}) = sold + m.units
      BY <2>1, <2>2, UnitsAdds
    <2>6. RefStock(U, p) = given - sold /\ RefStock(S, p) = Units(In(S)) - Units(Out(S))
      BY DEF RefStock, In, Out
    <2>7. CASE m.type = "STOCK_SOLD"
      <3>1. Units(In(S)) = given /\ Units(Out(S)) = sold + m.units /\ Delta(m) = -m.units
        BY <2>3, <2>5, <2>7 DEF Delta
      <3> HIDE DEF given, sold
      <3> QED BY <3>1, <2>1, <2>4, <2>5, <2>6
    <2>8. CASE m.type # "STOCK_SOLD"
      <3>1. Units(In(S)) = given + m.units /\ Units(Out(S)) = sold /\ Delta(m) = m.units
        BY <2>3, <2>4, <2>8 DEF Delta
      <3> HIDE DEF given, sold
      <3> QED BY <3>1, <2>1, <2>4, <2>5, <2>6
    <2> QED BY <2>7, <2>8
  <1>11. Good(S)
    <2>1. RefStock(U, p) = Moved(All(U)) /\ RefStock(U, p) \in Int
      BY <1>7
    <2> HIDE DEF All, U
    <2> QED BY <2>1, <1>9, <1>10
  <1> QED BY <1>11, <1>3

----------------------------------------------------------------------------
(* Voiding one event more.                                                  *)

LEMMA LogHasSlots ==
    ASSUME LogOk, NEW e \in log PROVE e.id \in 1..Slots /\ e.hlc = StampOf[e.id]
  <1>1. PICK i \in 1..Slots, p \in (UNION Books) \cup Voids : e = EventOf(i, p)
    BY DEF LogOk, IsEvent
  <1> QED BY <1>1, EventsAreReadable, EarlierSlots

\* The log without e is a log too, ...
LEMMA WithoutIsSound ==
    ASSUME LogOk, NEW e \in log
    PROVE  Sound(Without(e)) /\ VoidedIds(Without(e)) = VoidedIds(log) \cup {e.id}
  <1> DEFINE v == [id |-> Slots + 1, hlc |-> StampOf[Slots + 1], type |-> "ENTRY_VOIDED",
                   target |-> e.id]
  <1>1. Slots + 1 \in 1..(Slots + 1)
    BY SlotsAssumption
  <1>2. Without(e) = log \cup {v}
    BY DEF Without
  <1>3. /\ v.type = "ENTRY_VOIDED" /\ v.target = e.id /\ v.hlc = StampOf[Slots + 1]
        /\ ~HasCustomer(v)
    BY DEF HasCustomer
  <1> HIDE DEF v
  <1>4. v.hlc \in [l : Nat, c : Nat, dev : Nat]
    BY <1>1, <1>3, StampsAssumption
  <1>5. Readable(v)
    BY <1>3, <1>4 DEF Readable, OfCustomer, Entries, OfProduct, Movements
  <1>6. Sound(log) /\ IsFiniteSet(log \cup {v})
    BY LogIsSound, FS_AddElement DEF LogOk
  <1>7. \A f \in log : f.hlc # v.hlc
    <2> SUFFICES ASSUME NEW f \in log, f.hlc = v.hlc PROVE FALSE
      OBVIOUS
    <2>1. f.id \in 1..Slots /\ f.hlc = StampOf[f.id]
      BY LogHasSlots
    <2>2. f.id = Slots + 1
      BY <2>1, <1>1, <1>3, EarlierSlots, StampsAssumption
    <2> QED BY <2>1, <2>2, SlotsAssumption
  <1>8. Sound(log \cup {v})
    BY <1>4, <1>5, <1>6, <1>7 DEF Sound, Stamped
  <1>9. VoidedIds(log \cup {v}) = VoidedIds(log) \cup {e.id}
    BY <1>3 DEF VoidedIds
  <1> QED BY <1>2, <1>8, <1>9

\* ... in which all that stood stands but e.
LEMMA WithoutStands ==
    ASSUME LogOk, NEW e \in log, NEW types, "ENTRY_VOIDED" \notin types, NEW x
    PROVE  LET left == Standing(Without(e), VoidedIds(Without(e)))
           IN  /\ Of(left, types, x) = Of(Live, types, x) \ {e}
               /\ For(left, types, x) = For(Live, types, x) \ {e}
  <1> DEFINE left == Standing(Without(e), VoidedIds(Without(e)))
  <1>1. \A f \in log : f.id = e.id <=> f = e
    BY DEF LogOk
  <1>2. {f \in left : f.type \in types} = {f \in Live : f.type \in types} \ {e}
    <2>1. left = {f \in Without(e) : f.type = "ENTRY_VOIDED" \/ f.id \notin VoidedIds(log) \cup {e.id}}
      BY WithoutIsSound DEF Standing
    <2>2. {f \in Without(e) : f.type \in types} = {f \in log : f.type \in types}
      BY DEF Without
    <2>3. Live = {f \in log : f.type = "ENTRY_VOIDED" \/ f.id \notin VoidedIds(log)}
      BY LiveStands DEF Standing
    <2> HIDE DEF left
    <2> QED BY <1>1, <2>1, <2>2, <2>3
  <1> HIDE DEF left
  <1>3. Of(left, types, x) = Of(Live, types, x) \ {e}
    BY <1>2 DEF Of
  <1>4. For(left, types, x) = For(Live, types, x) \ {e}
    BY <1>2 DEF For
  <1> QED BY <1>3, <1>4 DEF left

\* What State tells of a log, and of whose events.
LEMMA StateAgrees ==
    ASSUME NEW L, Sound(L), NEW x
    PROVE  LET K == Standing(L, VoidedIds(L))
           IN  /\ State(L).voided = VoidedIds(L)
               /\ x \in DOMAIN State(L).balances => State(L).balances[x].balance = Owed(K, x)
               /\ x \in DOMAIN State(L).stock => State(L).stock[x] = RefStock(K, x)
               /\ OnHand(State(L), x) = RefStock(K, x)
               /\ (IF x \in DOMAIN State(L).balances THEN State(L).balances[x].balance ELSE 0)
                    = Owed(K, x)
  <1> DEFINE V == VoidedIds(L)
             K == Standing(L, V)
             b == FoldWith(L, V).balances
             s == StockWith(L, V).stock
  <1>1. State(L).voided = V /\ State(L).balances = b /\ State(L).stock = s
    BY DEF State, Fold, FoldWith, FoldInventory, StockWith
  <1>2. BalanceAgrees(b, K, x) /\ StockAgrees(s, K, x)
    BY FoldAgrees, InventoryAgrees
  <1> HIDE DEF V, K, b, s
  <1>3. ASSUME x \in DOMAIN b PROVE b[x].balance = Owed(K, x)
    <2>1. PICK last : b[x] = [balance |-> Owed(K, x), last |-> last]
      BY <1>2, <1>3 DEF BalanceAgrees, HoldsBalance, Owed
    <2> QED BY <2>1
  <1>4. x \in DOMAIN s => s[x] = RefStock(K, x)
    BY <1>2 DEF StockAgrees
  <1>5. x \notin DOMAIN s => RefStock(K, x) = 0
    <2> SUFFICES ASSUME x \notin DOMAIN s PROVE RefStock(K, x) = 0
      OBVIOUS
    <2>1. For(K, Movements, x) = {}
      BY <1>2 DEF StockAgrees
    <2>2. For(K, {"STOCK_RECEIVED", "STOCK_ADJUSTED"}, x) = {} /\ For(K, {"STOCK_SOLD"}, x) = {}
      BY <2>1 DEF For, Movements
    <2>3. RefStock(K, x) = Units({}) - Units({})
      BY <2>2 DEF RefStock
    <2> QED BY <2>3, UnitsOfNothing
  <1>6. OnHand(State(L), x) = RefStock(K, x)
    BY <1>1, <1>4, <1>5 DEF OnHand
  <1>7. x \notin DOMAIN b => Owed(K, x) = 0
    <2> SUFFICES ASSUME x \notin DOMAIN b PROVE Owed(K, x) = 0
      OBVIOUS
    <2>1. Of(K, Entries, x) = {}
      BY <1>2 DEF BalanceAgrees
    <2>2. Of(K, {"CREDIT_GIVEN"}, x) = {} /\ Of(K, {"PAYMENT_RECEIVED"}, x) = {}
      BY <2>1 DEF Of, Entries
    <2>3. Owed(K, x) = Total({}) - Total({})
      BY <2>2 DEF Owed
    <2> QED BY <2>3, TotalOfNothing
  <1> QED BY <1>1, <1>3, <1>4, <1>6, <1>7 DEF V, K

----------------------------------------------------------------------------
(* Each anomaly is accounted for by what it lists.                          *)

\* The candidates of an anomaly are among what stands.
LEMMA ActiveStands ==
    ASSUME NEW types, "ENTRY_VOIDED" \notin types, NEW x
    PROVE  /\ {e \in Active(State(log), log) : e.type \in types /\ e.customer = x}
                = Of(Live, types, x)
           /\ {e \in Active(State(log), log) : e.type \in types /\ e.product = x}
                = For(Live, types, x)
  <1>1. Active(State(log), log) = {e \in log : e.id \notin VoidedIds(log)}
    BY DEF Active, State
  <1>2. Live = {e \in log : e.type = "ENTRY_VOIDED" \/ e.id \notin VoidedIds(log)}
    BY LiveStands DEF Standing
  <1> QED BY <1>1, <1>2 DEF Of, For

LEMMA BalancesExplained ==
    ASSUME LogOk, NEW a \in NegativeBalances(State(log), log)
    PROVE  LET payments == {e \in a.candidates : e.type = "PAYMENT_RECEIVED"}
           IN  /\ payments # {}
               /\ a.amount = Total(a.candidates \ payments) - Total(payments)
               /\ \A e \in payments :
                     LET new == State(Without(e)).balances
                     IN  a.customer \in DOMAIN new =>
                             new[a.customer].balance = a.amount + e.amount
  <1> DEFINE b == State(log).balances
  <1>1. PICK c \in DOMAIN b :
          /\ b[c].balance < 0
          /\ a = [kind |-> "NEGATIVE_BALANCE", customer |-> c, amount |-> b[c].balance,
                  candidates |-> {e \in Active(State(log), log) :
                                    e.type \in Entries /\ e.customer = c}]
    BY DEF NegativeBalances
  <1> DEFINE given == Of(Live, {"CREDIT_GIVEN"}, c)
             paid == Of(Live, {"PAYMENT_RECEIVED"}, c)
  <1>2. a.customer = c /\ a.amount = b[c].balance /\ a.candidates = Of(Live, Entries, c)
    BY <1>1, ActiveStands DEF Entries
  <1>3. /\ {e \in a.candidates : e.type = "PAYMENT_RECEIVED"} = paid
        /\ a.candidates \ {e \in a.candidates : e.type = "PAYMENT_RECEIVED"} = given
    BY <1>2 DEF Of, Entries
  <1>4. Sound(log) /\ Live \in SUBSET log /\ IsFiniteSet(Live)
    <2>1. Sound(log) /\ Live \in SUBSET log
      BY LogIsSound DEF Live
    <2> QED BY <2>1, FS_Subset DEF LogOk
  <1>5. b[c].balance = Total(given) - Total(paid)
    <2>1. b[c].balance = Owed(Live, c)
      BY <1>1, <1>4, StateAgrees, LiveStands
    <2> QED BY <2>1 DEF Owed
  <1>6. /\ given \in SUBSET Live /\ paid \in SUBSET Live
        /\ (\A e \in given : e.amount \in Nat) /\ (\A e \in paid : e.amount \in Nat)
    BY <1>4 DEF Sound, Readable, Of, Entries
  <1> HIDE DEF b, given, paid
  <1>7. IsFiniteSet(given) /\ IsFiniteSet(paid)
    BY <1>4, <1>6, FS_Subset
  <1>8. Total(given) \in Nat
    BY <1>6, <1>7, TotalIsNat
  <1>9. paid # {}
    <2> SUFFICES ASSUME paid = {} PROVE FALSE
      OBVIOUS
    <2>1. b[c].balance = Total(given) - 0
      BY <1>5, TotalOfNothing
    <2> QED BY <2>1, <1>1, <1>8
  <1>10. ASSUME NEW e \in paid, c \in DOMAIN State(Without(e)).balances
         PROVE  State(Without(e)).balances[c].balance = b[c].balance + e.amount
    <2> DEFINE left == Standing(Without(e), VoidedIds(Without(e)))
    <2>1. e \in log /\ e.type = "PAYMENT_RECEIVED"
      BY <1>4, <1>6 DEF paid, Of
    <2>2. State(Without(e)).balances[c].balance = Owed(left, c)
      BY <2>1, <1>10, WithoutIsSound, StateAgrees
    <2>3. Of(left, {"CREDIT_GIVEN"}, c) = given \ {e} /\ Of(left, {"PAYMENT_RECEIVED"}, c) = paid \ {e}
      BY <2>1, WithoutStands DEF given, paid
    <2>4. given \ {e} = given
      BY <2>1 DEF given, Of
    <2> HIDE DEF left
    <2>5. Owed(left, c) = Total(given) - Total(paid \ {e})
      BY <2>3, <2>4 DEF Owed
    <2>6. Total(paid \ {e}) = Total(paid) - e.amount /\ Total(paid) \in Int /\ e.amount \in Nat
      BY <1>6, <1>7, TotalLess
    <2> QED BY <2>2, <2>5, <2>6, <1>5, <1>8
  <1> QED BY <1>2, <1>3, <1>5, <1>9, <1>10

LEMMA StocksExplained ==
    ASSUME LogOk, NEW a \in NegativeStocks(State(log), log)
    PROVE  /\ a.units = MapThenSumSet(Delta, a.candidates)
           /\ \E e \in a.candidates : Delta(e) < 0
           /\ \A e \in a.candidates :
                 OnHand(State(Without(e)), a.product) = a.units - Delta(e)
  <1> DEFINE s == State(log).stock
  <1>1. PICK p \in DOMAIN s :
          /\ s[p] < 0
          /\ a = [kind |-> "NEGATIVE_STOCK", product |-> p, units |-> s[p],
                  candidates |-> {e \in Active(State(log), log) :
                                    e.type \in Movements /\ e.product = p}]
    BY DEF NegativeStocks
  <1> DEFINE moves == For(Live, Movements, p)
  <1>2. a.product = p /\ a.units = s[p] /\ a.candidates = moves
    BY <1>1, ActiveStands DEF Movements
  <1>3. Sound(log) /\ Sound(Live) /\ Live \in SUBSET log /\ IsFiniteSet(Live)
    <2>1. Sound(log) /\ Live \in SUBSET log
      BY LogIsSound DEF Live
    <2> QED BY <2>1, SoundPart, FS_Subset DEF LogOk
  <1>4. s[p] = Moved(moves)
    <2>1. s[p] = RefStock(Live, p)
      BY <1>1, <1>3, StateAgrees, LiveStands
    <2> QED BY <2>1, <1>3, StockIsMoved
  <1>5. moves \in SUBSET Live /\ \A e \in moves : e.type \in Movements /\ Delta(e) \in Int
    BY <1>3 DEF Sound, Readable, For, Delta
  <1> HIDE DEF s, moves
  <1>6. IsFiniteSet(moves)
    BY <1>3, <1>5, FS_Subset
  <1>7. \E e \in moves : Delta(e) < 0
    <2> SUFFICES ASSUME \A e \in moves : ~(Delta(e) < 0) PROVE FALSE
      OBVIOUS
    <2>1. \A e \in moves : Delta(e) \in Nat
      BY <1>5
    <2>2. s[p] \in Nat
      BY <2>1, <1>4, <1>6, MovedIsNat
    <2> QED BY <2>2, <1>1
  <1>8. ASSUME NEW e \in moves PROVE OnHand(State(Without(e)), p) = s[p] - Delta(e)
    <2> DEFINE left == Standing(Without(e), VoidedIds(Without(e)))
               others == moves \ {e}
    <2>1. e \in log
      BY <1>3, <1>5
    <2>2. OnHand(State(Without(e)), p) = RefStock(left, p)
      BY <2>1, WithoutIsSound, StateAgrees
    <2>3. Sound(left)
      <3>1. left \in SUBSET Without(e)
        BY DEF Standing
      <3> QED BY <3>1, <2>1, WithoutIsSound, SoundPart
    <2>4. For(left, Movements, p) = others
      BY <2>1, WithoutStands DEF moves, Movements
    <2>5. /\ IsFiniteSet(others) /\ e \notin others /\ others \cup {e} = moves
          /\ \A f \in others \cup {e} : Delta(f) \in Int
      BY <1>5, <1>6, FS_RemoveElement
    <2> HIDE DEF left, others
    <2>6. RefStock(left, p) = Moved(others)
      BY <2>3, <2>4, StockIsMoved
    <2>7. Moved(moves) = Moved(others) + Delta(e) /\ Moved(others) \in Int /\ Delta(e) \in Int
      BY <2>5, MovedAdds
    <2> HIDE DEF Moved
    <2> QED BY <2>2, <2>6, <2>7, <1>4
  <1>9. MapThenSumSet(Delta, moves) = Moved(moves)
    BY DEF Moved
  <1> QED BY <1>2, <1>4, <1>7, <1>8, <1>9

LEMMA DuplicatesExplained ==
    ASSUME LogOk, NEW a \in Duplicates(State(log), log), NEW e \in a.events
    PROVE  a \notin Duplicates(State(Without(e)), Without(e))
  <1>1. ASSUME NEW L, NEW d \in Duplicates(State(L), L), NEW f \in d.events
        PROVE  f \in L /\ f.id \notin State(L).voided
    <2>1. PICK x \in Active(State(L), L) \X Active(State(L), L) :
            d = [kind |-> "DUPLICATE_SUSPECTED", events |-> {x[1], x[2]}]
      BY DEF Duplicates
    <2>2. f \in Active(State(L), L)
      BY <2>1
    <2> QED BY <2>2 DEF Active
  <1>2. e \in log
    BY <1>1
  <1>3. State(Without(e)).voided = VoidedIds(Without(e))
    BY DEF State
  <1>4. e.id \in State(Without(e)).voided
    BY <1>2, <1>3, WithoutIsSound
  <1> QED BY <1>1, <1>4

\* The candidates of a negative balance or stock add up to it and include one
\* that pulls it down; voiding it raises the number by as much, and voiding
\* either payment of a pair ends the suspicion.
THEOREM AnomaliesAreExplained == Spec => []AnomaliesExplained
  <1>1. LogOk => AnomaliesExplained
    BY BalancesExplained, StocksExplained, DuplicatesExplained DEF AnomaliesExplained
  <1> QED BY <1>1, LogAlwaysOk, PTL

----------------------------------------------------------------------------
(* Sales.                                                                   *)

LEMMA OwedIsInt ==
    ASSUME NEW L, Sound(L), NEW c PROVE Owed(L, c) \in Int
  <1> DEFINE given == Of(L, {"CREDIT_GIVEN"}, c)
             paid == Of(L, {"PAYMENT_RECEIVED"}, c)
  <1>1. /\ IsFiniteSet(L) /\ given \in SUBSET L /\ paid \in SUBSET L
        /\ (\A e \in given : e.amount \in Nat) /\ (\A e \in paid : e.amount \in Nat)
    BY DEF Sound, Stamped, Readable, Of, Entries
  <1> HIDE DEF given, paid
  <1>2. IsFiniteSet(given) /\ IsFiniteSet(paid)
    BY <1>1, FS_Subset
  <1>3. Total(given) \in Nat /\ Total(paid) \in Nat
    BY <1>1, <1>2, TotalIsNat
  <1>4. Total(given) - Total(paid) \in Int
    BY <1>3
  <1> QED BY <1>4 DEF Owed, given, paid

LEMMA ItemUnitsIsSum ==
    ASSUME NEW cmd, NEW S, IsFiniteSet(S)
    PROVE  ItemUnits(cmd, S) = Sum([i \in S |-> cmd.items[i].units], S)
  <1> DEFINE g == [i \in S |-> cmd.items[i].units]
             Iter(h) == h = [s \in SUBSET S |->
                                IF s = {} THEN 0
                                ELSE LET x == CHOOSE x \in s : TRUE
                                     IN  cmd.items[x].units + h[s \ {x}]]
  <1>1. ItemUnits(cmd, S) = (CHOOSE h : Iter(h))[S]
    BY DEF ItemUnits, MapThenSumSet, MapThenFoldSet
  <1>2. ASSUME NEW h PROVE Iter(h) <=> SumRun(h, g, S)
    <2>1. ASSUME NEW s \in SUBSET S, s # {}
          PROVE  cmd.items[CHOOSE x \in s : TRUE].units = g[CHOOSE x \in s : TRUE]
      <3>1. (CHOOSE x \in s : TRUE) \in s BY <2>1
      <3> QED BY <3>1
    <2> HIDE DEF g
    <2>2. [s \in SUBSET S |-> IF s = {} THEN 0
                  ELSE LET x == CHOOSE x \in s : TRUE IN cmd.items[x].units + h[s \ {x}]]
          = [s \in SUBSET S |-> IF s = {} THEN 0
                  ELSE LET x == CHOOSE x \in s : TRUE IN g[x] + h[s \ {x}]]
      BY <2>1
    <2> QED BY <2>2 DEF SumRun
  <1>3. (CHOOSE h : Iter(h)) = (CHOOSE h : SumRun(h, g, S))
    <2> HIDE DEF Iter, g
    <2> QED BY <1>2, Zenon
  <1> QED BY <1>1, <1>3 DEF Sum

LEMMA ItemUnitsAdd ==
    ASSUME NEW cmd, NEW S, IsFiniteSet(S), NEW m, m \notin S,
           \A i \in S \cup {m} : cmd.items[i].units \in Int
    PROVE  /\ ItemUnits(cmd, S \cup {m}) = ItemUnits(cmd, S) + cmd.items[m].units
           /\ ItemUnits(cmd, S) \in Int
  <1> DEFINE T == S \cup {m}
             g == [i \in S |-> cmd.items[i].units]
             f == [i \in T |-> cmd.items[i].units]
  <1>1. IsFiniteSet(T)
    BY FS_AddElement
  <1>2. ItemUnits(cmd, S) = Sum(g, S) /\ ItemUnits(cmd, T) = Sum(f, T)
    <2> HIDE DEF T
    <2> QED BY <1>1, ItemUnitsIsSum DEF g, f
  <1>3. (\A i \in S : g[i] = f[i]) /\ \A i \in S \cup {m} : f[i] \in Int
    OBVIOUS
  <1>4. f[m] = cmd.items[m].units
    OBVIOUS
  <1>5. Sum(f, S \cup {m}) = Sum(g, S) + f[m] /\ Sum(g, S) \in Int
    <2> HIDE DEF g, f
    <2>1. Sum(f, S \cup {m}) = Sum(g, S) + f[m]
      BY <1>3, SumAdds, Zenon
    <2>2. Sum(g, S) \in Int
      BY <1>3, SumIsInt
    <2> QED BY <2>1, <2>2
  <1> HIDE DEF g, f
  <1> QED BY <1>2, <1>4, <1>5

\* The sales ev of the line items I take their units off what the events A left.
LEMMA ItemsMoved ==
    ASSUME NEW cmd, NEW A, IsFiniteSet(A), \A e \in A : Delta(e) \in Int, Moved(A) \in Int,
           NEW I, IsFiniteSet(I), NEW ev,
           \A i \in I : /\ ev[i] \notin A /\ cmd.items[i].units \in Int
                        /\ Delta(ev[i]) = -cmd.items[i].units,
           \A i, j \in I : ev[i] = ev[j] => i = j
    PROVE  /\ Moved(A \cup {ev[i] : i \in I}) = Moved(A) - ItemUnits(cmd, I)
           /\ ItemUnits(cmd, I) \in Int
  <1> DEFINE T(J) == A \cup {ev[i] : i \in J}
             Good(J) == /\ IsFiniteSet(T(J))
                        /\ Moved(T(J)) = Moved(A) - ItemUnits(cmd, J)
                        /\ ItemUnits(cmd, J) \in Int
             Bad == {J \in SUBSET I : ~Good(J)}
  <1>1. SUFFICES ASSUME Bad # {} PROVE FALSE
    <2>1. I \notin Bad
      BY <1>1
    <2> QED BY <2>1
  <1>2. PICK J \in Bad : \A U \in SUBSET J : U \in Bad => U = J
    <2>1. Bad \in SUBSET SUBSET I OBVIOUS
    <2> HIDE DEF Bad
    <2> QED BY <1>1, <2>1, LeastSubset
  <1>3. J \in SUBSET I /\ ~Good(J)
    BY <1>2
  <1>4. J # {}
    <2> SUFFICES ASSUME J = {} PROVE Good(J)
      BY <1>3
    <2>1. T(J) = A
      OBVIOUS
    <2>2. ItemUnits(cmd, {}) = 0
      BY FS_EmptySet, ItemUnitsIsSum, SumOfNothing
    <2> HIDE DEF T
    <2> QED BY <2>1, <2>2
  <1>5. PICK m \in J : TRUE
    BY <1>4
  <1> DEFINE U == J \ {m}
             u == cmd.items[m].units
  <1>6. Good(U)
    <2>1. U \in SUBSET J /\ U # J /\ U \in SUBSET I
      BY <1>3, <1>5
    <2> QED BY <2>1, <1>2
  <1>7. /\ ev[m] \notin T(U) /\ T(J) = T(U) \cup {ev[m]} /\ m \notin U /\ U \cup {m} = J
        /\ u \in Int /\ Delta(ev[m]) = -u
    BY <1>3, <1>5
  <1>8. \A e \in T(U) \cup {ev[m]} : Delta(e) \in Int
    BY <1>3, <1>5
  <1>9. IsFiniteSet(U) /\ \A i \in U \cup {m} : cmd.items[i].units \in Int
    BY <1>3, <1>5, FS_Subset
  <1> HIDE DEF T, U, u
  <1>10. IsFiniteSet(T(J)) /\ Moved(T(J)) = Moved(T(U)) + Delta(ev[m])
    BY <1>6, <1>7, <1>8, MovedAdds, FS_AddElement
  <1>11. ItemUnits(cmd, J) = ItemUnits(cmd, U) + u
    BY <1>7, <1>9, ItemUnitsAdd DEF u
  <1> QED BY <1>3, <1>6, <1>7, <1>10, <1>11

LEMMA SaleCounts ==
    ASSUME NEW cmd \in Sales
    PROVE  LET k == Len(cmd.items)
               credit == cmd.total - cmd.cash
           IN  /\ k \in Nat /\ DOMAIN cmd.items = 1..k
               /\ \A i \in 1..k : cmd.items[i].product \in Products /\ cmd.items[i].units \in Int
               /\ credit \in Int /\ CreditPortion(cmd) = credit
               /\ credit > 0 <=> cmd.cash < cmd.total
               /\ SaleEventCount(cmd) = k + (IF credit > 0 THEN 2 ELSE 1)
  <1>1. /\ cmd.items \in Seq([product : Products, units : Int])
        /\ cmd.total \in Int /\ cmd.cash \in Int
    BY SalesAssumption
  <1> DEFINE items == cmd.items
  <1>2. /\ Len(items) \in Nat /\ DOMAIN items = 1..Len(items)
        /\ \A i \in 1..Len(items) : items[i] \in [product : Products, units : Int]
    <2> DEFINE Items == [product : Products, units : Int]
    <2>1. items \in Seq(Items)
      BY <1>1
    <2> HIDE DEF items, Items
    <2>2. Len(items) \in Nat /\ DOMAIN items = 1..Len(items)
      BY <2>1
    <2>3. \A i \in 1..Len(items) : items[i] \in Items
      BY <2>1
    <2> QED BY <2>2, <2>3 DEF Items
  <1>3. \A i \in 1..Len(items) : items[i].product \in Products /\ items[i].units \in Int
    <2> HIDE DEF items
    <2> QED BY <1>2
  <1>4. LET credit == cmd.total - cmd.cash
        IN  /\ credit \in Int /\ CreditPortion(cmd) = credit
            /\ credit > 0 <=> cmd.cash < cmd.total
    BY <1>1 DEF CreditPortion
  <1>5. SaleEventCount(cmd) = Len(items) + (IF CreditPortion(cmd) > 0 THEN 2 ELSE 1)
    <2> DEFINE k == Len(items)
    <2>1. k \in Int /\ SaleEventCount(cmd) = 1 + k + (IF CreditPortion(cmd) > 0 THEN 1 ELSE 0)
      BY <1>2 DEF SaleEventCount
    <2> HIDE DEF k
    <2>2. SaleEventCount(cmd) = k + (IF CreditPortion(cmd) > 0 THEN 2 ELSE 1)
      BY <2>1
    <2> QED BY <2>2 DEF k
  <1> QED BY <1>2, <1>3, <1>4, <1>5

\* The events ev carry the ids drawn, and are what fold can read.
Built(ev, ids, n) ==
    /\ DOMAIN ev = 1..n
    /\ \A j \in 1..n : /\ ev[j].id = ids[j] /\ ev[j].hlc = StampOf[ids[j]]
                       /\ Readable(ev[j]) /\ ev[j].type # "ENTRY_VOIDED"

\* The events of a sale, in the order they are built.
LEMMA SaleEvents ==
    ASSUME NEW cmd \in Sales, NEW ids \in Draws(SaleEventCount(cmd)),
           SaleAccepted(cmd, ContextsOf(ids))
    PROVE  LET n == SaleEventCount(cmd)
               k == Len(cmd.items)
               credit == cmd.total - cmd.cash
           IN  \E ev :
                 /\ Built(ev, ids, n)
                 /\ RecordSale(cmd, ContextsOf(ids)) = {ev[j] : j \in 1..n}
                 /\ ev[1].type = "SALE_RECORDED"
                 /\ \A i \in 1..k : /\ ev[1 + i].type = "STOCK_SOLD"
                                    /\ ev[1 + i].product = cmd.items[i].product
                                    /\ ev[1 + i].units = cmd.items[i].units
                 /\ credit > 0 => /\ ev[n].type = "CREDIT_GIVEN"
                                  /\ ev[n].customer = cmd.customer /\ ev[n].amount = credit
  <1> DEFINE n == SaleEventCount(cmd)
             k == Len(cmd.items)
             credit == cmd.total - cmd.cash
             ctx == ContextsOf(ids)
             sale == IF cmd.customer = WalkIn THEN [type |-> "SALE_RECORDED"]
                     ELSE [type |-> "SALE_RECORDED", customer |-> cmd.customer]
             item(i) == [type |-> "STOCK_SOLD", product |-> cmd.items[i].product,
                         units |-> cmd.items[i].units, at |-> cmd.at]
             owed == [type |-> "CREDIT_GIVEN", customer |-> cmd.customer,
                      amount |-> CreditPortion(cmd), at |-> cmd.at]
             ev == [j \in 1..n |-> IF j = 1 THEN Joined(ctx[1], sale)
                                   ELSE IF j <= k + 1 THEN Joined(ctx[j], item(j - 1))
                                   ELSE Joined(ctx[j], owed)]
             N == RecordSale(cmd, ctx)
             Context(c, j) == /\ DOMAIN c = {"id", "hlc"}
                              /\ c.id = ids[j] /\ c.hlc = StampOf[ids[j]]
  <1>1. /\ k \in Nat /\ DOMAIN cmd.items = 1..k
        /\ \A i \in 1..k : cmd.items[i].product \in Products /\ cmd.items[i].units \in Int
        /\ credit \in Int /\ CreditPortion(cmd) = credit
        /\ n = k + (IF credit > 0 THEN 2 ELSE 1)
    BY SaleCounts
  <1>2. cmd.at \in Int /\ (credit > 0 => cmd.customer \in Customers)
    BY <1>1, SalesAssumption DEF SaleAccepted
  <1>3. N = {Joined(ctx[1], sale)} \cup {Joined(ctx[1 + i], item(i)) : i \in 1..k}
            \cup IF credit > 0 THEN {Joined(ctx[2 + k], owed)} ELSE {}
    BY <1>1 DEF RecordSale
  <1>4. ASSUME NEW j \in 1..n
        PROVE  /\ Context(ctx[j], j)
               /\ StampOf[ids[j]] \in [l : Nat, c : Nat, dev : Nat]
    <2>1. DOMAIN ids = 1..n /\ ids[j] \in 1..Slots
      BY <1>4 DEF Draws
    <2>2. Context([id |-> ids[j], hlc |-> StampOf[ids[j]]], j)
      OBVIOUS
    <2>3. ctx[j] = [id |-> ids[j], hlc |-> StampOf[ids[j]]]
      BY <2>1 DEF ContextsOf
    <2>4. Context(ctx[j], j)
      <3> HIDE DEF ctx, Context
      <3> QED BY <2>2, <2>3
    <2> QED BY <2>1, <2>4, EarlierSlots, StampsAssumption
  <1> HIDE DEF n, k, credit, ctx, Context
  <1>5. 1 \in 1..n /\ ev[1] = Joined(ctx[1], sale)
    BY <1>1
  <1>6. ASSUME NEW i \in 1..k
        PROVE  1 + i \in 1..n /\ ev[1 + i] = Joined(ctx[1 + i], item(i))
    <2>1. 1 + i \in 1..n /\ 1 + i # 1 /\ 1 + i <= k + 1 /\ (1 + i) - 1 = i
      BY <1>1
    <2> HIDE DEF sale, item, owed
    <2> QED BY <2>1
  <1>7. ASSUME credit > 0 PROVE n = 2 + k /\ n \in 1..n /\ ev[n] = Joined(ctx[2 + k], owed)
    <2>1. n = 2 + k /\ n \in 1..n /\ n # 1 /\ ~(n <= k + 1)
      BY <1>1, <1>7
    <2> HIDE DEF sale, item, owed
    <2> QED BY <2>1
  <1>8. \A j \in 1..n : j = 1 \/ (\E i \in 1..k : j = 1 + i) \/ (credit > 0 /\ j = n)
    <2> SUFFICES ASSUME NEW j \in 1..n, j # 1, ~(credit > 0 /\ j = n) PROVE \E i \in 1..k : j = 1 + i
      OBVIOUS
    <2>1. j - 1 \in 1..k /\ j = 1 + (j - 1)
      BY <1>1
    <2> QED BY <2>1
  <1>9. DOMAIN ev = 1..n
    OBVIOUS
  <1> DEFINE Stands(j) == /\ ev[j].id = ids[j] /\ ev[j].hlc = StampOf[ids[j]]
                          /\ Readable(ev[j]) /\ ev[j].type # "ENTRY_VOIDED"
  <1>10. ev[1].type = "SALE_RECORDED" /\ Stands(1)
    <2> DEFINE e == Joined(ctx[1], sale)
    <2>1. "type" \in DOMAIN sale /\ {"id", "hlc"} \cap DOMAIN sale = {} /\ sale.type = "SALE_RECORDED"
      OBVIOUS
    <2> HIDE DEF sale, ev
    <2>2. e.id = ids[1] /\ e.hlc = StampOf[ids[1]] /\ e.type = "SALE_RECORDED"
      <3> DEFINE c == ctx[1]
      <3>1. Context(c, 1)
        BY <1>4, <1>5
      <3> HIDE DEF c
      <3>2. DOMAIN c \cap DOMAIN sale = {} /\ DOMAIN c = {"id", "hlc"}
        BY <2>1, <3>1 DEF Context
      <3>3. LET f == Joined(c, sale)
            IN  f.id = c.id /\ f.hlc = c.hlc /\ \A x \in DOMAIN sale : f[x] = sale[x]
        BY <3>2 DEF Joined
      <3> QED BY <2>1, <3>1, <3>3 DEF Context, c
    <2> HIDE DEF e
    <2>3. Readable(e)
      BY <2>2, <1>4, <1>5 DEF Readable, OfCustomer, Entries, OfProduct, Movements
    <2> QED BY <2>2, <2>3, <1>5 DEF e
  <1>11. ASSUME NEW i \in 1..k
         PROVE  /\ ev[1 + i].type = "STOCK_SOLD" /\ ev[1 + i].product = cmd.items[i].product
                /\ ev[1 + i].units = cmd.items[i].units /\ Stands(1 + i)
    <2> DEFINE p == item(i)
               e == Joined(ctx[1 + i], p)
    <2>1. /\ {"type", "product", "units"} \subseteq DOMAIN p /\ {"id", "hlc"} \cap DOMAIN p = {}
          /\ p.type = "STOCK_SOLD" /\ p.product = cmd.items[i].product
          /\ p.units = cmd.items[i].units
      OBVIOUS
    <2>2. ev[1 + i] = e /\ 1 + i \in 1..n
      BY <1>6
    <2> HIDE DEF p, ev
    <2>3. /\ e.id = ids[1 + i] /\ e.hlc = StampOf[ids[1 + i]] /\ e.type = "STOCK_SOLD"
          /\ e.product = cmd.items[i].product /\ e.units = cmd.items[i].units
      <3> DEFINE c == ctx[1 + i]
      <3>1. Context(c, 1 + i)
        BY <2>2, <1>4
      <3> HIDE DEF c
      <3>2. DOMAIN c \cap DOMAIN p = {} /\ DOMAIN c = {"id", "hlc"}
        BY <2>1, <3>1 DEF Context
      <3>3. LET f == Joined(c, p)
            IN  f.id = c.id /\ f.hlc = c.hlc /\ \A x \in DOMAIN p : f[x] = p[x]
        BY <3>2 DEF Joined
      <3> QED BY <2>1, <3>1, <3>3 DEF Context, c
    <2> HIDE DEF e
    <2>4. Readable(e)
      BY <2>2, <2>3, <1>1, <1>4 DEF Readable, OfCustomer, Entries, OfProduct, Movements
    <2> QED BY <2>2, <2>3, <2>4
  <1>12. ASSUME credit > 0
         PROVE  /\ ev[n].type = "CREDIT_GIVEN" /\ ev[n].customer = cmd.customer
                /\ ev[n].amount = credit /\ Stands(n)
    <2> DEFINE e == Joined(ctx[2 + k], owed)
    <2>1. /\ {"type", "customer", "amount", "at"} = DOMAIN owed
          /\ {"id", "hlc"} \cap DOMAIN owed = {}
          /\ owed.type = "CREDIT_GIVEN" /\ owed.customer = cmd.customer
          /\ owed.amount = credit /\ owed.at = cmd.at
      BY <1>1
    <2>2. ev[n] = e /\ n = 2 + k /\ n \in 1..n
      BY <1>7, <1>12
    <2> HIDE DEF owed, ev
    <2>3. /\ e.id = ids[n] /\ e.hlc = StampOf[ids[n]] /\ e.type = "CREDIT_GIVEN"
          /\ e.customer = cmd.customer /\ e.amount = credit /\ e.at = cmd.at
          /\ HasCustomer(e)
      <3> DEFINE c == ctx[2 + k]
      <3>1. Context(c, n)
        BY <2>2, <1>4
      <3> HIDE DEF c
      <3>2. DOMAIN c \cap DOMAIN owed = {} /\ DOMAIN c = {"id", "hlc"}
        BY <2>1, <3>1 DEF Context
      <3>3. LET f == Joined(c, owed)
            IN  f.id = c.id /\ f.hlc = c.hlc /\ \A x \in DOMAIN owed : f[x] = owed[x]
        BY <3>2 DEF Joined
      <3>4. HasCustomer(e)
        BY <2>1, <3>2 DEF Joined, HasCustomer, c
      <3> QED BY <2>1, <3>1, <3>3, <3>4 DEF Context, c
    <2> HIDE DEF e
    <2>4. credit \in Nat /\ cmd.customer \in Customers /\ cmd.at \in Int
      BY <1>1, <1>2, <1>12
    <2>5. e.hlc \in [l : Nat, c : Nat, dev : Nat]
      BY <2>2, <2>3, <1>4
    <2>6. Readable(e)
      BY <2>3, <2>4, <2>5
         DEF Readable, OfCustomer, Entries, OfProduct, Movements
    <2> QED BY <2>2, <2>3, <2>6
  <1>13. N = {ev[j] : j \in 1..n}
    <2> DEFINE first == Joined(ctx[1], sale)
               Sold(i) == Joined(ctx[1 + i], item(i))
               last == Joined(ctx[2 + k], owed)
    <2>1. N = {first} \cup {Sold(i) : i \in 1..k} \cup IF credit > 0 THEN {last} ELSE {}
      BY <1>3
    <2>2. /\ ev[1] = first /\ \A i \in 1..k : 1 + i \in 1..n /\ ev[1 + i] = Sold(i)
          /\ credit > 0 => ev[n] = last
      BY <1>5, <1>6, <1>7
    <2>3. 1 \in 1..n /\ (credit > 0 => n \in 1..n)
      BY <1>5, <1>7
    <2> HIDE DEF N, ev, first, Sold, last
    <2> QED BY <2>1, <2>2, <2>3, <1>8
  <1>14. \A j \in 1..n : Stands(j)
    <2> HIDE DEF Stands
    <2> QED BY <1>8, <1>10, <1>11, <1>12
  <1> HIDE DEF ev, N
  <1>15. Built(ev, ids, n)
    BY <1>9, <1>14 DEF Built
  <1> QED BY <1>10, <1>11, <1>12, <1>13, <1>15 DEF n, k, credit, N, ctx

\* Events built with ids drawn are new to the log, and stand unless voided before.
LEMMA SaleAfter ==
    ASSUME LogOk, NEW n \in Nat, NEW ids \in Draws(n), NEW ev, Built(ev, ids, n),
           NEW W, W = log \cup {ev[j] : j \in 1..n}
    PROVE  /\ \A j \in 1..n : ev[j] \notin log
           /\ \A i, j \in 1..n : ev[i] = ev[j] => i = j
           /\ Sound(W) /\ VoidedIds(W) = VoidedIds(log)
           /\ Standing(W, VoidedIds(W))
                = Live \cup {ev[j] : j \in {i \in 1..n : ids[i] \notin VoidedIds(log)}}
  <1> DEFINE N == {ev[j] : j \in 1..n}
  <1> USE DEF Built
  <1>1. /\ ids \in [1..n -> 1..Slots] /\ \A j \in 1..n : \A e \in log : e.id # ids[j]
        /\ \A i, j \in 1..n : i < j => ids[i] < ids[j]
    BY DEF Draws
  <1>2. \A i, j \in 1..n : ids[i] = ids[j] => i = j
    <2> SUFFICES ASSUME NEW i \in 1..n, NEW j \in 1..n, ids[i] = ids[j], i # j PROVE FALSE
      OBVIOUS
    <2>1. ids[i] \in Int /\ ids[j] \in Int /\ (i < j \/ j < i)
      BY <1>1, SlotsAssumption
    <2> QED BY <2>1, <1>1
  <1>3. \A j \in 1..n : ev[j] \notin log
    BY <1>1
  <1>4. \A i, j \in 1..n : ev[i] = ev[j] => i = j
    BY <1>2
  <1>5. IsFiniteSet(N)
    <2> DEFINE f == [j \in 1..n |-> ev[j]]
    <2>1. f \in Surjection(1..n, N)
      BY DEF Surjection
    <2>2. IsFiniteSet(1..n)
      BY FS_Interval
    <2> HIDE DEF N, f
    <2> QED BY <2>1, <2>2, FS_Surjection
  <1>6. Sound(log)
    BY LogIsSound
  <1>7. W = log \cup N
    OBVIOUS
  <1>8. IsFiniteSet(W)
    <2> HIDE DEF N
    <2>1. IsFiniteSet(log \cup N)
      BY <1>5, FS_Union DEF LogOk
    <2> QED BY <1>7, <2>1
  <1>9. \A e \in W : Readable(e) /\ e.id \in 1..Slots /\ e.hlc = StampOf[e.id]
    BY <1>1, <1>6, LogHasSlots DEF Sound
  <1>10. \A e, f \in W : e.id = f.id => e = f
    <2>1. \A e, f \in log : e.id = f.id => e = f
      BY DEF LogOk
    <2>2. \A e \in N : \E j \in 1..n : e = ev[j] /\ e.id = ids[j]
      OBVIOUS
    <2> HIDE DEF N
    <2> QED BY <2>1, <2>2, <1>1, <1>2
  <1>11. \A e \in N : e.type # "ENTRY_VOIDED"
    OBVIOUS
  <1>12. {e \in N : e.id \notin VoidedIds(log)}
           = {ev[j] : j \in {i \in 1..n : ids[i] \notin VoidedIds(log)}}
    OBVIOUS
  <1> HIDE DEF N
  <1>13. \A e, f \in W : e.hlc = f.hlc => e = f
    <2> SUFFICES ASSUME NEW e \in W, NEW f \in W, e.hlc = f.hlc PROVE e = f
      OBVIOUS
    <2>1. e.id = f.id
      BY <1>9, StampsAssumption, EarlierSlots
    <2> QED BY <2>1, <1>10
  <1>14. Sound(W)
    BY <1>8, <1>9, <1>13 DEF Sound, Stamped, Readable
  <1>15. VoidedIds(W) = VoidedIds(log)
    BY <1>11 DEF VoidedIds
  <1>16. Standing(W, VoidedIds(log)) = Live \cup {e \in N : e.id \notin VoidedIds(log)}
    BY <1>11, <1>7, LiveStands DEF Standing
  <1> QED BY <1>3, <1>4, <1>12, <1>14, <1>15, <1>16 DEF N

\* In any log, what recordSale returns for any command it accepts moves each
\* product by the line items that stand, and what a customer owes by what was not
\* paid, if that stands: fold and foldInventory see a sale as what was agreed.
THEOREM SalesAreBooked == Spec => []SaleBooked
  <1>1. LogOk => SaleBooked
    <2> SUFFICES ASSUME LogOk, NEW cmd \in Sales, NEW ids \in Draws(SaleEventCount(cmd)),
                        SaleAccepted(cmd, ContextsOf(ids))
                 PROVE  LET before == State(log)
                            after == State(log \cup RecordSale(cmd, ContextsOf(ids)))
                            stands(i) == ids[i] \notin after.voided
                            taken(p) == {i \in DOMAIN cmd.items :
                                            cmd.items[i].product = p /\ stands(1 + i)}
                            owes(c) == /\ cmd.customer = c /\ cmd.cash < cmd.total
                                       /\ stands(SaleEventCount(cmd))
                            balance(state, c) ==
                                IF c \in DOMAIN state.balances THEN state.balances[c].balance ELSE 0
                        IN  /\ \A p \in Products :
                                  OnHand(after, p) = OnHand(before, p) - ItemUnits(cmd, taken(p))
                            /\ \A c \in Customers :
                                  balance(after, c) =
                                      balance(before, c)
                                        + IF owes(c) THEN cmd.total - cmd.cash ELSE 0
      BY DEF SaleBooked
    <2> DEFINE n == SaleEventCount(cmd)
               k == Len(cmd.items)
               credit == cmd.total - cmd.cash
               W == log \cup RecordSale(cmd, ContextsOf(ids))
               V == VoidedIds(log)
               K == Standing(W, VoidedIds(W))
               Balance(state, c) ==
                   IF c \in DOMAIN state.balances THEN state.balances[c].balance ELSE 0
               Taken(p) == {i \in 1..k : cmd.items[i].product = p /\ ids[1 + i] \notin V}
               Owes(c) == cmd.customer = c /\ credit > 0 /\ ids[n] \notin V
    <2>1. /\ k \in Nat /\ DOMAIN cmd.items = 1..k
          /\ \A i \in 1..k : cmd.items[i].product \in Products /\ cmd.items[i].units \in Int
          /\ credit \in Int /\ (credit > 0 <=> cmd.cash < cmd.total)
          /\ n = k + (IF credit > 0 THEN 2 ELSE 1)
      BY SaleCounts
    <2>2. PICK ev :
            /\ Built(ev, ids, n)
            /\ RecordSale(cmd, ContextsOf(ids)) = {ev[j] : j \in 1..n}
            /\ ev[1].type = "SALE_RECORDED"
            /\ \A i \in 1..k : /\ ev[1 + i].type = "STOCK_SOLD"
                               /\ ev[1 + i].product = cmd.items[i].product
                               /\ ev[1 + i].units = cmd.items[i].units
            /\ credit > 0 => /\ ev[n].type = "CREDIT_GIVEN"
                             /\ ev[n].customer = cmd.customer /\ ev[n].amount = credit
      BY SaleEvents, Zenon
    <2> DEFINE New == {ev[j] : j \in {i \in 1..n : ids[i] \notin V}}
    <2>3. ids \in Draws(n)
      OBVIOUS
    <2> HIDE DEF n, k, credit
    <2>4. n \in Nat
      BY <2>1
    <2>5. /\ \A j \in 1..n : ev[j] \notin log
          /\ \A i, j \in 1..n : ev[i] = ev[j] => i = j
          /\ Sound(W) /\ VoidedIds(W) = V /\ K = Live \cup New
      <3>1. W = log \cup {ev[j] : j \in 1..n}
        BY <2>2
      <3> HIDE DEF W
      <3> QED BY <2>2, <2>3, <2>4, <3>1, SaleAfter
    <2>6. Sound(log) /\ Live \in SUBSET log /\ Sound(Live)
      <3>1. Sound(log) /\ Live \in SUBSET log
        BY LogIsSound DEF Live
      <3> QED BY <3>1, SoundPart
    <2>7. \A j \in 1..n : j = 1 \/ (\E i \in 1..k : j = 1 + i) \/ (credit > 0 /\ j = n)
      <3> SUFFICES ASSUME NEW j \in 1..n, j # 1, ~(credit > 0 /\ j = n)
                   PROVE  \E i \in 1..k : j = 1 + i
        OBVIOUS
      <3>1. j - 1 \in 1..k /\ j = 1 + (j - 1)
        BY <2>1
      <3> QED BY <3>1
    <2>8. \A i \in 1..k : 1 + i \in 1..n
      BY <2>1
    <2>9. credit > 0 => n \in 1..n
      BY <2>1
    <2> HIDE DEF W, V, K, New
    <2>10. ASSUME NEW p PROVE OnHand(State(W), p) = OnHand(State(log), p) - ItemUnits(cmd, Taken(p))
      <3> DEFINE A == For(Live, Movements, p)
                 I == Taken(p)
                 sold == [i \in I |-> ev[1 + i]]
      <3>1. OnHand(State(log), p) = RefStock(Live, p) /\ OnHand(State(W), p) = RefStock(K, p)
        BY <2>5, <2>6, StateAgrees, LiveStands DEF K
      <3>2. Sound(K)
        <4>1. K \in SUBSET W
          BY DEF K, Standing
        <4> QED BY <4>1, <2>5, SoundPart
      <3>3. RefStock(Live, p) = Moved(A) /\ Moved(A) \in Int /\ RefStock(K, p) = Moved(For(K, Movements, p))
        BY <2>6, <3>2, StockIsMoved
      <3>4. For(K, Movements, p) = A \cup {sold[i] : i \in I}
        <4>1. \A j \in 1..n : ev[j].type \in Movements <=> \E i \in 1..k : j = 1 + i
          BY <2>2, <2>7 DEF Movements
        <4>2. {e \in New : e.type \in Movements /\ e.product = p} = {ev[1 + i] : i \in I}
          BY <2>2, <2>8, <4>1 DEF New
        <4>3. For(K, Movements, p) = A \cup {e \in New : e.type \in Movements /\ e.product = p}
          BY <2>5 DEF For
        <4> QED BY <4>2, <4>3
      <3>5. /\ IsFiniteSet(A) /\ IsFiniteSet(I) /\ \A e \in A : Delta(e) \in Int
            /\ \A i \in I : /\ sold[i] \notin A /\ cmd.items[i].units \in Int
                            /\ Delta(sold[i]) = -cmd.items[i].units
            /\ \A i, j \in I : sold[i] = sold[j] => i = j
        <4>1. IsFiniteSet(A)
          <5>1. A \in SUBSET Live /\ IsFiniteSet(Live)
            BY <2>6 DEF For, Sound, Stamped
          <5> QED BY <5>1, FS_Subset
        <4>2. IsFiniteSet(I)
          <5>1. I \in SUBSET (1..k) /\ IsFiniteSet(1..k)
            BY <2>1, FS_Interval
          <5> QED BY <5>1, FS_Subset
        <4>3. \A e \in A : Delta(e) \in Int
          BY <2>6 DEF Sound, Readable, For, Delta
        <4>4. ASSUME NEW i \in I
              PROVE  /\ sold[i] \notin A /\ cmd.items[i].units \in Int
                     /\ Delta(sold[i]) = -cmd.items[i].units
          <5>1. i \in 1..k /\ sold[i] = ev[1 + i] /\ 1 + i \in 1..n
            BY <2>8
          <5>2. ev[1 + i] \notin A
            BY <5>1, <2>5, <2>6 DEF For
          <5>3. Delta(ev[1 + i]) = -cmd.items[i].units
            BY <5>1, <2>2 DEF Delta
          <5> QED BY <5>1, <5>2, <5>3, <2>1
        <4>5. ASSUME NEW i \in I, NEW j \in I, sold[i] = sold[j] PROVE i = j
          <5>1. i \in 1..k /\ j \in 1..k /\ ev[1 + i] = ev[1 + j] /\ 1 + i \in 1..n /\ 1 + j \in 1..n
            BY <2>8, <4>5
          <5>2. 1 + i = 1 + j
            BY <5>1, <2>5
          <5> QED BY <5>1, <5>2, <2>1
        <4> QED BY <4>1, <4>2, <4>3, <4>4, <4>5
      <3> HIDE DEF A, I, sold
      <3>6. Moved(A \cup {sold[i] : i \in I}) = Moved(A) - ItemUnits(cmd, I)
        BY <3>3, <3>5, ItemsMoved
      <3> QED BY <3>1, <3>3, <3>4, <3>6 DEF I
    <2>11. ASSUME NEW c
           PROVE  Balance(State(W), c) = Balance(State(log), c) + IF Owes(c) THEN credit ELSE 0
      <3>1. Balance(State(log), c) = Owed(Live, c) /\ Balance(State(W), c) = Owed(K, c)
        BY <2>5, <2>6, StateAgrees, LiveStands DEF K
      <3> DEFINE given == {e \in New : e.type = "CREDIT_GIVEN" /\ e.customer = c}
                 paid == {e \in New : e.type = "PAYMENT_RECEIVED" /\ e.customer = c}
      <3>2. Of(K, {"CREDIT_GIVEN"}, c) = Of(Live, {"CREDIT_GIVEN"}, c) \cup given
            /\ Of(K, {"PAYMENT_RECEIVED"}, c) = Of(Live, {"PAYMENT_RECEIVED"}, c) \cup paid
        BY <2>5 DEF Of
      <3>3. \A j \in 1..n : /\ ev[j].type # "PAYMENT_RECEIVED"
                            /\ ev[j].type = "CREDIT_GIVEN" <=> credit > 0 /\ j = n
        BY <2>2, <2>7, <2>9
      <3>4. paid = {} /\ given = IF Owes(c) THEN {ev[n]} ELSE {}
        BY <2>2, <2>9, <3>3 DEF New
      <3> HIDE DEF given, paid
      <3>5. CASE Owes(c)
        <4>1. credit > 0 /\ n \in 1..n
          BY <3>5, <2>9
        <4>2. /\ ev[n].type = "CREDIT_GIVEN" /\ ev[n].customer = c /\ ev[n].amount = credit
              /\ ev[n] \notin Live
          BY <4>1, <3>5, <2>2, <2>5, <2>6
        <4>3. Sound(Live \cup {ev[n]})
          <5>1. Live \cup {ev[n]} \in SUBSET W
            BY <4>1, <2>2, <2>6 DEF W
          <5> QED BY <5>1, <2>5, SoundPart
        <4>4. Owed(Live \cup {ev[n]}, c) = Owed(Live, c) + credit
          BY <4>2, <4>3, OwedAdds DEF Entries
        <4>5. Owed(K, c) = Owed(Live \cup {ev[n]}, c)
          <5>1. Of(Live \cup {ev[n]}, {"CREDIT_GIVEN"}, c) = Of(Live, {"CREDIT_GIVEN"}, c) \cup {ev[n]}
                /\ Of(Live \cup {ev[n]}, {"PAYMENT_RECEIVED"}, c) = Of(Live, {"PAYMENT_RECEIVED"}, c)
            BY <4>2 DEF Of
          <5> QED BY <5>1, <3>2, <3>4, <3>5 DEF Owed
        <4> QED BY <3>1, <3>5, <4>4, <4>5
      <3>6. CASE ~Owes(c)
        <4>1. Owed(K, c) = Owed(Live, c)
          BY <3>2, <3>4, <3>6 DEF Owed
        <4>2. Owed(Live, c) \in Int
          BY <2>6, OwedIsInt
        <4> QED BY <3>1, <3>6, <4>1, <4>2
      <3> QED BY <3>5, <3>6
    <2>12. State(W).voided = V
      BY <2>5, StateAgrees
    <2> QED BY <2>1, <2>10, <2>11, <2>12 DEF n, k, credit, W
  <1> QED BY <1>1, LogAlwaysOk, PTL
=============================================================================
