---------------------- MODULE PositionLifecycleProofs ----------------------
(***************************************************************************)
(* Proofs about PositionLifecycle, for any number of passes, any quantity, *)
(* any faults and any bounds.                                              *)
(***************************************************************************)
EXTENDS PositionLifecycle, FiniteSetTheorems, SequenceTheorems,
        WellFoundedInduction, TLAPS

-----------------------------------------------------------------------------
(* Types                                                                    *)

Labels == MainLabels \cup SyncLabels \cup SharedLabels
FiniteConds == {s \in SUBSET Condition : IsFiniteSet(s)}
\* what a task remembers: finitely many orders
Works == {x \in Task : IsFiniteSet(x.seen)}

ExchangeT == /\ own \in Nat /\ foreign \in Nat /\ lag \in Nat
             /\ conds \in FiniteConds /\ crossed \in BOOLEAN /\ exits \in Seq(Exit)
BooksT    == /\ young \in Nat /\ old \in Nat /\ claim \in Claim
             /\ stuck \in BOOLEAN /\ enabled \in BOOLEAN
EngineT   == justClosed \in BOOLEAN /\ plan \in Nat /\ task \in [Tasks -> Works]
TallyT    == tally \in [DOMAIN Limit -> Nat]

Typed == ExchangeT /\ BooksT /\ EngineT /\ TallyT

LEMMA LimitDomain ==
  DOMAIN Limit = {"open", "adjust", "close", "cross", "foreign", "fault"}
BY DEF Limit

LEMMA FiniteCondsFacts ==
  /\ {} \in FiniteConds
  /\ \A s \in FiniteConds : \A u \in SUBSET s : u \in FiniteConds
  /\ \A s \in FiniteConds, c \in Condition : s \cup {c} \in FiniteConds
<1>1. {} \in FiniteConds
  BY FS_EmptySet DEF FiniteConds
<1>2. \A s \in FiniteConds : \A u \in SUBSET s : u \in FiniteConds
  BY FS_Subset DEF FiniteConds
<1>3. \A s \in FiniteConds, c \in Condition : s \cup {c} \in FiniteConds
  BY FS_AddElement DEF FiniteConds
<1> QED
  BY <1>1, <1>2, <1>3

\* the four ways to go on
LEMMA GoOn ==
  ASSUME EngineT, NEW t \in Tasks, NEW l \in Labels
  PROVE  /\ Goto(t, l) => task' \in [Tasks -> Works]
         /\ \A q \in Nat, s \in FiniteConds : Hold(t, l, q, s) => task' \in [Tasks -> Works]
         /\ Turn(t, l) => task' \in [Tasks -> Works]
         /\ Done(t) => task' \in [Tasks -> Works]
<1>1. task \in [Tasks -> Works]
  BY DEF EngineT
<1>2. Goto(t, l) => task' \in [Tasks -> Works]
  <2>1. [task[t] EXCEPT !.at = l] \in Works
    BY <1>1 DEF Works, Task, Labels
  <2> QED
    BY <1>1, <2>1 DEF Goto
<1>3. \A k \in Labels, q \in Nat, s \in FiniteConds : [Idle EXCEPT !.at = k, !.qty = q, !.seen = s] \in Works
  BY DEF Works, Task, Idle, FiniteConds, Labels
<1>4. \A k \in Labels, q \in Nat, s \in FiniteConds : Hold(t, k, q, s) => task' \in [Tasks -> Works]
  <2> SUFFICES ASSUME NEW k \in Labels, NEW q \in Nat, NEW s \in FiniteConds, Hold(t, k, q, s)
               PROVE  task' \in [Tasks -> Works]
    OBVIOUS
  <2>1. PICK x \in Works : x = [Idle EXCEPT !.at = k, !.qty = q, !.seen = s]
    BY <1>3
  <2>2. task' = [task EXCEPT ![t] = x]
    BY <2>1 DEF Hold
  <2> QED
    BY <1>1, <2>1, <2>2
<1>5. "idle" \in Labels
  BY DEF Labels, SharedLabels
<1> QED
  BY <1>2, <1>4, <1>5, FiniteCondsFacts DEF Turn, Done

\* what a query answers
LEMMA AnswerTyped ==
  ASSUME ExchangeT, BooksT
  PROVE  /\ Live \in Nat /\ Managed \in Nat
         /\ \A p \in Answers : p \in Nat /\ p <= Live /\ Slice(p) \in Nat
BY DEF ExchangeT, BooksT, Answers, Live, Least, Slice, Managed

LEMMA SellTyped ==
  ASSUME ExchangeT, NEW n \in Nat, n <= Live, Sell(n)
  PROVE  own' \in Nat /\ foreign' \in Nat /\ lag' \in Nat
BY DEF ExchangeT, Live, Sell, Least

LEMMA BookExitTyped ==
  ASSUME BooksT, NEW n \in Nat, BookExit(n)
  PROVE  young' \in Nat /\ old' \in Nat
BY DEF BooksT, BookExit, Least

\* A new order has a number: of one more numbers than there are orders, one is
\* not in use.
LEMMA NewOrderTyped ==
  ASSUME Typed, NEW kind \in Kinds, NEW q \in Nat, NEW trig \in Nat, NEW ours \in BOOLEAN
  PROVE  /\ NewOrder(kind, q, trig, ours) \in Condition
         /\ NewOrder(kind, q, trig, ours).ours = ours
<1> DEFINE remembered == UNION {task[t].seen : t \in Tasks}
           filled == {exits[i].order : i \in DOMAIN exits}
           Numbered(i) == [id |-> i, kind |-> kind, qty |-> q, trig |-> trig, ours |-> ours]
<1>1. IsFiniteSet(conds)
  BY DEF Typed, ExchangeT, FiniteConds
<1>2. IsFiniteSet(remembered)
  <2>1. IsFiniteSet(Tasks)
    <3>1. IsFiniteSet({"main"}) /\ IsFiniteSet({"stream"})
      BY FS_Singleton
    <3>2. Tasks = ({"main"} \cup {"stream"}) \cup Reconcilers
      BY DEF Tasks
    <3>3. IsFiniteSet({"main"} \cup {"stream"})
      BY <3>1, FS_Union
    <3> QED
      BY <3>2, <3>3, TaskAssumption, FS_Union
  <2>2. PICK T : T = Tasks
    OBVIOUS
  <2>3. PICK f : f = [t \in T |-> task[t].seen]
    OBVIOUS
  <2>4. PICK S : S = {task[t].seen : t \in Tasks}
    OBVIOUS
  <2>5. f \in [T -> S] /\ \A s \in S : \E t \in T : f[t] = s
    BY <2>2, <2>3, <2>4
  <2>6. f \in Surjection(T, S)
    BY <2>5 DEF Surjection
  <2>7. IsFiniteSet(S)
    BY <2>1, <2>2, <2>6, FS_Surjection
  <2>8. \A s \in S : IsFiniteSet(s)
    BY <2>4 DEF Typed, EngineT, Works
  <2> QED
    BY <2>4, <2>7, <2>8, FS_UNION
<1>3. IsFiniteSet(filled)
  <2>1. DOMAIN exits = 1..Len(exits) /\ Len(exits) \in Nat
    BY DEF Typed, ExchangeT
  <2>2. PICK D : D = DOMAIN exits
    OBVIOUS
  <2>3. PICK f : f = [i \in D |-> exits[i].order]
    OBVIOUS
  <2>4. PICK F : F = filled
    OBVIOUS
  <2>5. IsFiniteSet(D)
    BY <2>1, <2>2, FS_Interval
  <2>6. f \in [D -> F] /\ \A s \in F : \E i \in D : f[i] = s
    BY <2>2, <2>3, <2>4
  <2>7. f \in Surjection(D, F)
    BY <2>6 DEF Surjection
  <2> QED
    BY <2>4, <2>5, <2>7, FS_Surjection
<1> HIDE DEF remembered, filled
<1>4. IsFiniteSet(Used) /\ Cardinality(Used) \in Nat
  <2>1. IsFiniteSet(conds \cup remembered)
    BY <1>1, <1>2, FS_Union
  <2>2. Used = (conds \cup remembered) \cup filled
    BY DEF Used, remembered, filled
  <2> QED
    BY <1>3, <2>1, <2>2, FS_Union, FS_CardinalityType
<1>5. PICK n \in Nat : n = Cardinality(Used)
  BY <1>4
<1>6. \E i \in 1..(n + 1) : Numbered(i) \notin Used
  <2> SUFFICES ASSUME \A i \in 1..(n + 1) : Numbered(i) \in Used PROVE FALSE
    OBVIOUS
  <2> DEFINE g == [i \in 1..(n + 1) |-> Numbered(i)]
  <2>1. g \in [1..(n + 1) -> Used]
    OBVIOUS
  <2>2. IsFiniteSet(1..(n + 1)) /\ Cardinality(1..(n + 1)) = n + 1
    BY FS_Interval
  <2>3. \E x, y \in 1..(n + 1) : x # y /\ g[x] = g[y]
    <3>1. Cardinality(Used) < Cardinality(1..(n + 1))
      BY <1>5, <2>2
    <3> HIDE DEF g
    <3> QED
      BY <1>4, <2>1, <2>2, <3>1, FS_PigeonHole
  <2>4. \A x \in 1..(n + 1) : g[x].id = x
    OBVIOUS
  <2> QED
    BY <2>3, <2>4
<1>7. (CHOOSE i \in 1..(n + 1) : Numbered(i) \notin Used) \in 1..(n + 1)
  BY <1>6
<1>8. NewOrder(kind, q, trig, ours)
        = Numbered(CHOOSE i \in 1..(Cardinality(Used) + 1) : Numbered(i) \notin Used)
  BY DEF NewOrder
<1>9. \A i \in Nat : Numbered(i) \in Condition /\ Numbered(i).ours = ours
  BY DEF Condition
<1> HIDE DEF Numbered
<1>10. (CHOOSE i \in 1..(Cardinality(Used) + 1) : Numbered(i) \notin Used) \in Nat
  BY <1>5, <1>7
<1> QED
  BY <1>8, <1>9, <1>10

LEMMA WithOrderTyped ==
  ASSUME Typed, NEW kind \in Kinds, NEW q \in Nat, NEW trig \in Nat
  PROVE  WithOrder(kind, q, trig) \in FiniteConds
BY NewOrderTyped, FiniteCondsFacts DEF WithOrder, Typed, ExchangeT

-----------------------------------------------------------------------------
(* Totals                                                                   *)

\* a set of numbers that is not empty has a least one
LEMMA LeastNumber ==
  ASSUME NEW S \in SUBSET Nat, S # {}
  PROVE  \E n \in S : \A m \in S : n <= m
<1> DEFINE R == OpToRel(<, Nat)
<1>1. IsWellFoundedOn(R, Nat)
  BY NatLessThanWellFounded
<1>2. \A m, n \in Nat : m < n => <<m, n>> \in R
  BY DEF OpToRel
<1> HIDE DEF R
<1>3. PICK n \in S : \A m \in S : ~(<<m, n>> \in R)
  BY <1>1, WFMin
<1>4. \A m \in S : ~(m < n) /\ m \in Nat /\ n \in Nat
  BY <1>2, <1>3
<1>5. \A m \in S : n <= m
  BY <1>4
<1> QED
  BY <1>3, <1>5

\* f adds up the first n values of w
Sums(f, w, n) == f[0] = 0 /\ \A i \in 1..n : f[i] = f[i - 1] + w[i]

LEMMA SumsExist ==
  ASSUME NEW m \in Nat, NEW w \in [1..m -> Nat]
  PROVE  \A n \in Nat : n <= m => \E f \in [0..n -> Nat] : Sums(f, w, n)
<1> DEFINE Bad == {n \in Nat : n <= m /\ ~\E f \in [0..n -> Nat] : Sums(f, w, n)}
<1>1. SUFFICES ASSUME Bad # {} PROVE FALSE
  OBVIOUS
<1>2. PICK n \in Bad : \A k \in Bad : n <= k
  BY <1>1, LeastNumber
<1>3. CASE n = 0
  <2>1. [k \in 0..0 |-> 0] \in [0..0 -> Nat] /\ Sums([k \in 0..0 |-> 0], w, 0)
    BY DEF Sums
  <2> QED
    BY <1>2, <1>3, <2>1
<1>4. CASE n # 0
  <2>0. n \in Nat /\ n <= m
    BY <1>2
  <2>1. n \in Nat /\ n - 1 \in Nat /\ n - 1 <= m /\ n - 1 \notin Bad /\ n \in 1..m
    <3> HIDE DEF Bad
    <3> QED
      BY <1>2, <1>4, <2>0
  <2>2. PICK g \in [0..(n - 1) -> Nat] : Sums(g, w, n - 1)
    BY <2>1
  <2> DEFINE h == [k \in 0..n |-> IF k = n THEN g[n - 1] + w[n] ELSE g[k]]
  <2>3. g[n - 1] \in Nat /\ w[n] \in Nat
    BY <2>1, <2>2
  <2>4. h \in [0..n -> Nat]
    BY <2>1, <2>2, <2>3
  <2>5. \A k \in 0..(n - 1) : h[k] = g[k]
    BY <2>1
  <2>6. h[n] = g[n - 1] + w[n]
    BY <2>1
  <2> HIDE DEF h
  <2>7. Sums(h, w, n)
    <3>1. h[0] = 0
      BY <1>4, <2>1, <2>2, <2>5 DEF Sums
    <3>2. ASSUME NEW k \in 1..n PROVE h[k] = h[k - 1] + w[k]
      <4>1. CASE k = n
        <5>1. h[n - 1] = g[n - 1]
          BY <1>4, <2>1, <2>5
        <5> QED
          BY <2>6, <4>1, <5>1
      <4>2. CASE k # n
        <5>1. k \in 1..(n - 1) /\ k - 1 \in 0..(n - 1) /\ k \in 0..(n - 1)
          BY <2>1, <4>2
        <5> QED
          BY <2>2, <2>5, <5>1 DEF Sums
      <4> QED
        BY <4>1, <4>2
    <3> QED
      BY <3>1, <3>2 DEF Sums
  <2> QED
    BY <1>2, <2>4, <2>7
<1> QED
  BY <1>3, <1>4

\* Total adds up
LEMMA TotalSums ==
  ASSUME NEW m \in Nat, NEW w \in [1..m -> Nat]
  PROVE  \E f \in [0..m -> Nat] : Sums(f, w, m) /\ Total(w, m) = f[m]
<1> DEFINE upto[i \in 0..m] == IF i = 0 THEN 0 ELSE upto[i - 1] + w[i]
<1>1. Total(w, m) = upto[m]
  BY DEF Total
<1>2. PICK g \in [0..m -> Nat] : Sums(g, w, m)
  <2>1. m <= m
    OBVIOUS
  <2> QED
    BY <2>1, SumsExist
<1>3. upto = [i \in 0..m |-> IF i = 0 THEN 0 ELSE upto[i - 1] + w[i]]
  <2> SUFFICES \E f : f = [i \in 0..m |-> IF i = 0 THEN 0 ELSE f[i - 1] + w[i]]
    OBVIOUS
  <2>1. \A i \in 0..m : g[i] = IF i = 0 THEN 0 ELSE g[i - 1] + w[i]
    BY <1>2 DEF Sums
  <2> QED
    BY <1>2, <2>1
<1> HIDE DEF upto
<1>4. upto[0] = 0 /\ \A i \in 1..m : upto[i] = upto[i - 1] + w[i]
  BY <1>3
<1>5. \A i \in Nat : i <= m => upto[i] = g[i]
  <2> DEFINE Bad == {i \in Nat : i <= m /\ upto[i] # g[i]}
  <2>1. SUFFICES ASSUME Bad # {} PROVE FALSE
    OBVIOUS
  <2>2. PICK i \in Bad : \A j \in Bad : i <= j
    BY <2>1, LeastNumber
  <2>3. i # 0
    BY <1>2, <1>4, <2>2 DEF Sums
  <2>4. i \in 1..m /\ i - 1 \in Nat /\ i - 1 \in 0..m /\ i - 1 \notin Bad
    BY <2>2, <2>3
  <2>5. upto[i - 1] = g[i - 1]
    BY <2>4
  <2> QED
    BY <1>2, <1>4, <2>2, <2>4, <2>5 DEF Sums
<1> QED
  BY <1>1, <1>2, <1>5

LEMMA TotalTyped ==
  ASSUME NEW m \in Nat, NEW w \in [1..m -> Nat]
  PROVE  Total(w, m) \in Nat
<1>1. PICK f \in [0..m -> Nat] : Sums(f, w, m) /\ Total(w, m) = f[m]
  BY TotalSums
<1> QED
  BY <1>1

\* totals add up term by term
LEMMA TotalSplits ==
  ASSUME NEW m \in Nat, NEW u \in [1..m -> Nat], NEW v \in [1..m -> Nat], NEW w \in [1..m -> Nat],
         \A i \in 1..m : w[i] = u[i] + v[i]
  PROVE  Total(w, m) = Total(u, m) + Total(v, m)
<1>1. PICK f \in [0..m -> Nat] : Sums(f, u, m) /\ Total(u, m) = f[m]
  BY TotalSums
<1>2. PICK g \in [0..m -> Nat] : Sums(g, v, m) /\ Total(v, m) = g[m]
  BY TotalSums
<1>3. PICK h \in [0..m -> Nat] : Sums(h, w, m) /\ Total(w, m) = h[m]
  BY TotalSums
<1>4. \A i \in Nat : i <= m => h[i] = f[i] + g[i]
  <2> DEFINE Bad == {i \in Nat : i <= m /\ h[i] # f[i] + g[i]}
  <2>1. SUFFICES ASSUME Bad # {} PROVE FALSE
    OBVIOUS
  <2>2. PICK i \in Bad : \A j \in Bad : i <= j
    BY <2>1, LeastNumber
  <2>3. i # 0
    BY <1>1, <1>2, <1>3, <2>2 DEF Sums
  <2>4. i \in 1..m /\ i - 1 \in Nat /\ i - 1 \in 0..m /\ i - 1 \notin Bad
    BY <2>2, <2>3
  <2>5. h[i - 1] = f[i - 1] + g[i - 1]
    BY <2>4
  <2>6. h[i] = h[i - 1] + w[i] /\ f[i] = f[i - 1] + u[i] /\ g[i] = g[i - 1] + v[i]
    BY <1>1, <1>2, <1>3, <2>4 DEF Sums
  <2>7. /\ f[i - 1] \in Nat /\ g[i - 1] \in Nat /\ u[i] \in Nat /\ v[i] \in Nat
    BY <1>1, <1>2, <2>4
  <2> QED
    BY <2>2, <2>4, <2>5, <2>6, <2>7
<1> QED
  BY <1>1, <1>2, <1>3, <1>4

\* a total has one term if all others are nothing
LEMMA TotalOfOne ==
  ASSUME NEW m \in Nat, NEW w \in [1..m -> Nat], NEW j \in 0..m,
         \A i \in 1..m : i # j => w[i] = 0
  PROVE  Total(w, m) = IF j = 0 THEN 0 ELSE w[j]
<1>1. PICK f \in [0..m -> Nat] : Sums(f, w, m) /\ Total(w, m) = f[m]
  BY TotalSums
<1> DEFINE value(i) == IF j = 0 \/ i < j THEN 0 ELSE w[j]
<1>2. \A i \in Nat : i <= m => f[i] = value(i)
  <2> DEFINE Bad == {i \in Nat : i <= m /\ f[i] # value(i)}
  <2>1. SUFFICES ASSUME Bad # {} PROVE FALSE
    OBVIOUS
  <2>2. PICK i \in Bad : \A k \in Bad : i <= k
    BY <2>1, LeastNumber
  <2>3. i # 0
    BY <1>1, <2>2 DEF Sums
  <2>4. i \in 1..m /\ i - 1 \in Nat /\ i - 1 \in 0..m /\ i - 1 \notin Bad
    BY <2>2, <2>3
  <2>5. f[i - 1] = value(i - 1) /\ f[i] = f[i - 1] + w[i] /\ f[i - 1] \in Nat /\ w[i] \in Nat
    BY <1>1, <2>4 DEF Sums
  <2>6. CASE i = j
    BY <2>2, <2>4, <2>5, <2>6
  <2>7. CASE i # j
    <3>1. value(i) = value(i - 1)
      BY <2>4, <2>7
    <3>2. w[i] = 0
      BY <2>4, <2>7
    <3> QED
      BY <2>2, <2>5, <3>1, <3>2
  <2> QED
    BY <2>6, <2>7
<1> QED
  BY <1>1, <1>2

\* one more term
LEMMA TotalGrows ==
  ASSUME NEW m \in Nat, NEW w \in [1..m -> Nat], NEW v \in [1..(m + 1) -> Nat],
         \A i \in 1..m : v[i] = w[i]
  PROVE  Total(v, m + 1) = Total(w, m) + v[m + 1]
<1>1. PICK f \in [0..m -> Nat] : Sums(f, w, m) /\ Total(w, m) = f[m]
  BY TotalSums
<1>2. PICK g \in [0..(m + 1) -> Nat] : Sums(g, v, m + 1) /\ Total(v, m + 1) = g[m + 1]
  <2>1. PICK n \in Nat : n = m + 1
    OBVIOUS
  <2>2. v \in [1..n -> Nat]
    BY <2>1
  <2>3. \E g \in [0..n -> Nat] : Sums(g, v, n) /\ Total(v, n) = g[n]
    BY <2>2, TotalSums
  <2> QED
    BY <2>1, <2>3
<1>3. \A i \in Nat : i <= m => g[i] = f[i]
  <2> DEFINE Bad == {i \in Nat : i <= m /\ g[i] # f[i]}
  <2>1. SUFFICES ASSUME Bad # {} PROVE FALSE
    OBVIOUS
  <2>2. PICK i \in Bad : \A j \in Bad : i <= j
    BY <2>1, LeastNumber
  <2>3. i # 0
    BY <1>1, <1>2, <2>2 DEF Sums
  <2>4. i \in 1..m /\ i \in 1..(m + 1) /\ i - 1 \in Nat /\ i - 1 \in 0..m /\ i - 1 \notin Bad
    BY <2>2, <2>3
  <2>5. g[i - 1] = f[i - 1] /\ f[i] = f[i - 1] + w[i] /\ g[i] = g[i - 1] + v[i] /\ v[i] = w[i]
    BY <1>1, <1>2, <2>4 DEF Sums
  <2> QED
    BY <2>2, <2>5
<1>4. g[m + 1] = g[m] + v[m + 1]
  BY <1>2 DEF Sums
<1> QED
  BY <1>1, <1>2, <1>3, <1>4

-----------------------------------------------------------------------------
(* Every step keeps the types                                               *)

Counts == (\E k \in DOMAIN Limit : Count(k)) \/ (\E f \in AllFaults : Fault(f)) \/ NoFault

LEMMA TallyTyped ==
  ASSUME TallyT, Counts
  PROVE  TallyT'
<1>1. ASSUME NEW k \in DOMAIN Limit, Count(k)
      PROVE  TallyT'
  BY <1>1 DEF TallyT, Count
<1>2. ASSUME NoFault
      PROVE  TallyT'
  BY <1>2 DEF TallyT, NoFault
<1>3. "fault" \in DOMAIN Limit
  BY LimitDomain
<1> QED
  BY <1>1, <1>2, <1>3 DEF Counts, Fault

\* the ways of counting that the actions use
LEMMA Counting ==
  /\ NoFault => Counts
  /\ \A f : Fault(f) => Counts
  /\ \A k \in {"open", "adjust", "close", "cross", "foreign"} : Count(k) => Counts
<1>1. \A f : Fault(f) => f \in AllFaults
  BY FaultAssumption DEF Fault
<1> QED
  BY <1>1, LimitDomain DEF Counts

LEMMA ClaimTyped ==
  ASSUME BooksT, EndClaim
  PROVE  claim' \in Claim
BY DEF BooksT, EndClaim, Claim

\* exits and books as a pass reads and writes them
LEMMA HistoryTyped ==
  ASSUME ExchangeT, NEW r
  PROVE  /\ HistoryQty(r) \in Nat
         /\ Len(exits) \in Nat /\ DOMAIN exits = 1..Len(exits)
         /\ \A i \in 1..Len(exits) : exits[i] \in Exit
<1>1. Len(exits) \in Nat /\ DOMAIN exits = 1..Len(exits) /\ \A i \in 1..Len(exits) : exits[i] \in Exit
  <2>1. exits \in Seq(Exit)
    BY DEF ExchangeT
  <2> QED
    BY <2>1, LenProperties, ElementOfSeq
<1>2. PICK w : w = [i \in DOMAIN exits |-> IF i \in Unbooked(r) THEN exits[i].qty ELSE 0]
  OBVIOUS
<1>3. w \in [1..Len(exits) -> Nat]
  BY <1>1, <1>2 DEF Exit
<1>4. Total(w, Len(exits)) \in Nat
  BY <1>1, <1>3, TotalTyped
<1> QED
  BY <1>1, <1>2, <1>4 DEF HistoryQty

LEMMA ExitsTyped ==
  ASSUME ExchangeT
  PROVE  /\ \A r : ReadHistory(r) => exits' \in Seq(Exit)
         /\ exits' = [i \in DOMAIN exits |-> [exits[i] EXCEPT !.booked = TRUE, !.qty = 0]]
              => exits' \in Seq(Exit)
         /\ \A i \in DOMAIN exits :
              exits' = [exits EXCEPT ![i].due = FALSE, ![i].booked = TRUE]
                \/ exits' = [exits EXCEPT ![i].due = FALSE] => exits' \in Seq(Exit)
<1>1. Len(exits) \in Nat /\ DOMAIN exits = 1..Len(exits) /\ \A i \in 1..Len(exits) : exits[i] \in Exit
  BY HistoryTyped
<1>2. \A e \in [1..Len(exits) -> Exit] : e \in Seq(Exit)
  BY <1>1
<1>3. \A x \in Exit, b \in BOOLEAN : /\ [x EXCEPT !.booked = b] \in Exit
                                     /\ [x EXCEPT !.due = FALSE] \in Exit
                                     /\ [x EXCEPT !.due = FALSE, !.booked = TRUE] \in Exit
                                     /\ [x EXCEPT !.booked = TRUE, !.qty = 0] \in Exit
  BY DEF Exit
<1>4. ASSUME NEW r, ReadHistory(r) PROVE exits' \in [1..Len(exits) -> Exit]
  <2>1. exits' = [i \in 1..Len(exits) |-> [exits[i] EXCEPT !.booked = @ \/ i \in Unbooked(r)]]
    BY <1>1, <1>4 DEF ReadHistory
  <2>2. \A i \in 1..Len(exits) : [exits[i] EXCEPT !.booked = @ \/ i \in Unbooked(r)] \in Exit
    <3> SUFFICES ASSUME NEW i \in 1..Len(exits)
                 PROVE  [exits[i] EXCEPT !.booked = @ \/ i \in Unbooked(r)] \in Exit
      OBVIOUS
    <3>1. PICK b \in BOOLEAN : b = (exits[i].booked \/ i \in Unbooked(r))
      OBVIOUS
    <3>2. [exits[i] EXCEPT !.booked = b] \in Exit
      BY <1>1, <1>3
    <3> QED
      BY <3>1, <3>2
  <2> QED
    BY <2>1, <2>2
<1>5. ASSUME exits' = [i \in DOMAIN exits |-> [exits[i] EXCEPT !.booked = TRUE, !.qty = 0]]
      PROVE  exits' \in [1..Len(exits) -> Exit]
  BY <1>1, <1>3, <1>5
<1>6. ASSUME NEW i \in DOMAIN exits,
             exits' = [exits EXCEPT ![i].due = FALSE, ![i].booked = TRUE]
               \/ exits' = [exits EXCEPT ![i].due = FALSE]
      PROVE  exits' \in [1..Len(exits) -> Exit]
  <2>1. exits \in [1..Len(exits) -> Exit] /\ i \in 1..Len(exits) /\ exits[i] \in Exit
    BY <1>1 DEF ExchangeT
  <2>2. CASE exits' = [exits EXCEPT ![i].due = FALSE]
    BY <1>3, <2>1, <2>2
  <2>3. CASE exits' = [exits EXCEPT ![i].due = FALSE, ![i].booked = TRUE]
    <3>1. exits' = [exits EXCEPT ![i] = [exits[i] EXCEPT !.due = FALSE, !.booked = TRUE]]
      BY <2>1, <2>3 DEF Exit
    <3> QED
      BY <1>3, <2>1, <3>1
  <2> QED
    BY <1>6, <2>2, <2>3
<1> QED
  BY <1>2, <1>4, <1>5, <1>6

\* what a task is at, and what it remembers, one field at a time
LEMMA WorkFields ==
  ASSUME NEW x \in Works
  PROVE  /\ x.at \in Labels /\ x.qty \in Nat /\ x.seen \in FiniteConds
         /\ x.need \in SUBSET Kinds /\ x.got \in SUBSET Kinds /\ x.trig \in Nat
         /\ \A l \in Labels : [x EXCEPT !.at = l] \in Works
         /\ \A q \in Nat : [x EXCEPT !.qty = q] \in Works
         /\ \A u \in FiniteConds : [x EXCEPT !.seen = u] \in Works
         /\ \A k \in SUBSET Kinds : [x EXCEPT !.need = k] \in Works
         /\ \A k \in SUBSET Kinds : [x EXCEPT !.got = k] \in Works
         /\ \A g \in Nat : [x EXCEPT !.trig = g] \in Works
BY DEF Works, Task, Labels, FiniteConds

LEMMA WorkSet ==
  ASSUME NEW x \in Works, NEW l \in Labels, NEW q \in Nat, NEW k \in SUBSET Kinds, NEW g \in Nat,
         NEW u \in FiniteConds
  PROVE  /\ [x EXCEPT !.at = l, !.qty = q] \in Works
         /\ [x EXCEPT !.at = l, !.need = k, !.trig = g, !.qty = q] \in Works
         /\ [Idle EXCEPT !.at = l, !.qty = q, !.need = k, !.trig = g] \in Works
         /\ [Idle EXCEPT !.at = l, !.qty = q, !.seen = u, !.need = k, !.trig = g] \in Works
<1>1. Idle \in Works
  BY FiniteCondsFacts DEF Idle, Works, Task, SharedLabels, FiniteConds
<1> QED
  BY <1>1, WorkFields DEF Works, Task, Labels, FiniteConds

LEMMA TaskSet ==
  ASSUME EngineT, NEW t \in Tasks, NEW x \in Works
  PROVE  [task EXCEPT ![t] = x] \in [Tasks -> Works] /\ task[t] \in Works
BY DEF EngineT

\* a step that changes nothing of a group of variables
LEMMA Unchanged ==
  ASSUME Typed
  PROVE  /\ UNCHANGED exchange => ExchangeT'
         /\ UNCHANGED books => BooksT'
         /\ UNCHANGED <<justClosed, plan, task>> => EngineT'
         /\ (TallyT /\ Counts) => TallyT'
<1>1. UNCHANGED exchange => ExchangeT'
  BY DEF Typed, ExchangeT, exchange
<1>2. UNCHANGED books => BooksT'
  BY DEF Typed, BooksT, books
<1>3. UNCHANGED <<justClosed, plan, task>> => EngineT'
  BY DEF Typed, EngineT
<1> QED
  BY <1>1, <1>2, <1>3, TallyTyped

LEMMA OpeningTyped ==
  ASSUME Typed, OpenRefused \/ OpenStart \/ OpenUnfilled \/ OpenFilled \/ OpenLosesFill
  PROVE  Typed'
<1> USE DEF Typed
<1>1. "main" \in Tasks /\ {"order", "log"} \subseteq Labels /\ OrderQty \in Nat
  BY BoundAssumption DEF Tasks, Labels, MainLabels
<1>2. CASE OpenRefused
  <2>1. Counts /\ UNCHANGED exchange /\ UNCHANGED <<justClosed, plan, task>> /\ UNCHANGED <<lots, claims>>
    BY <1>2, Counting DEF OpenRefused
  <2>2. enabled' \in BOOLEAN
    BY <1>2 DEF OpenRefused
  <2>3. BooksT'
    BY <2>1, <2>2 DEF BooksT, lots, claims
  <2> QED
    BY <2>1, <2>3, Unchanged
<1>3. CASE OpenStart
  <2>1. Counts /\ UNCHANGED exchange /\ UNCHANGED <<lots, enabled, justClosed, plan>>
    BY <1>3, Counting DEF OpenStart
  <2>2. claim' \in Claim /\ stuck' \in BOOLEAN
    BY <1>1, <1>3 DEF OpenStart, Claim, ClaimActive
  <2>3. EngineT'
    BY <1>1, <1>3, <2>1, GoOn DEF OpenStart, EngineT
  <2> QED
    BY <2>1, <2>2, <2>3, Unchanged DEF BooksT, lots
<1>4. CASE OpenUnfilled
  <2>1. Counts /\ UNCHANGED exchange /\ UNCHANGED <<lots, stuck, enabled, justClosed, plan>>
    BY <1>4, Counting DEF OpenUnfilled
  <2>2. claim' \in Claim
    BY <1>4, ClaimTyped DEF OpenUnfilled
  <2>3. EngineT'
    BY <1>1, <1>4, <2>1, GoOn DEF OpenUnfilled, EngineT
  <2> QED
    BY <2>1, <2>2, <2>3, Unchanged DEF BooksT, lots
<1>5. CASE OpenFilled
  <2>1. /\ Counts /\ UNCHANGED <<foreign, conds, crossed, exits, justClosed, plan>>
        /\ UNCHANGED books
    BY <1>5, Counting DEF OpenFilled
  <2>2. PICK n \in 1..OrderQty : own' = own + n /\ lag' = n /\ Hold("main", "log", n, {})
    BY <1>5 DEF OpenFilled
  <2>3. n \in Nat
    BY <1>1
  <2>4. EngineT'
    BY <1>1, <2>1, <2>2, <2>3, GoOn, FiniteCondsFacts DEF EngineT
  <2>5. ExchangeT'
    BY <2>1, <2>2, <2>3 DEF ExchangeT
  <2> QED
    BY <2>1, <2>4, <2>5, Unchanged
<1>6. CASE OpenLosesFill
  <2>1. /\ Counts
        /\ UNCHANGED <<foreign, conds, crossed, exits, stuck, enabled, justClosed, plan>>
        /\ UNCHANGED lots
    BY <1>6, Counting DEF OpenLosesFill
  <2>2. own' \in Nat /\ lag' \in Nat
    BY <1>1, <1>6 DEF OpenLosesFill, ExchangeT
  <2>3. claim' \in Claim
    BY <1>6, ClaimTyped DEF OpenLosesFill
  <2>4. EngineT'
    BY <1>1, <1>6, <2>1, GoOn DEF OpenLosesFill, EngineT
  <2>5. ExchangeT' /\ BooksT'
    BY <2>1, <2>2, <2>3 DEF ExchangeT, BooksT, lots
  <2> QED
    BY <2>1, <2>4, <2>5, Unchanged
<1> QED
  BY <1>2, <1>3, <1>4, <1>5, <1>6

LEMMA AttachTyped ==
  ASSUME Typed, OpenLogged \/ Precheck \/ Attached
  PROVE  Typed'
<1> USE DEF Typed
<1>1. /\ "main" \in Tasks /\ {"precheck", "undo", "attach", "uncancel"} \subseteq Labels
      /\ task["main"] \in Works /\ task["main"].qty \in Nat
  <2>1. "main" \in Tasks /\ {"precheck", "undo", "attach", "uncancel"} \subseteq Labels
    BY DEF Tasks, Labels, MainLabels
  <2> QED
    BY <2>1, TaskSet, WorkFields DEF EngineT
<1>2. CASE OpenLogged
  <2>1. Counts /\ UNCHANGED exchange /\ UNCHANGED <<old, stuck, enabled, justClosed, plan>>
    BY <1>2, Counting DEF OpenLogged
  <2>2. /\ young' = young + task["main"].qty
        /\ claim' = [claim EXCEPT !.filled = TRUE, !.qty = task["main"].qty]
    BY <1>2 DEF OpenLogged
  <2>4. young' \in Nat
    BY <1>1, <2>2 DEF BooksT
  <2>5. claim' \in Claim
    <3>1. \A c \in Claim, q \in Nat : [c EXCEPT !.filled = TRUE, !.qty = q] \in Claim
      BY DEF Claim
    <3> QED
      BY <1>1, <2>2, <3>1 DEF BooksT
  <2>3. EngineT'
    BY <1>1, <1>2, <2>1, GoOn DEF OpenLogged, EngineT
  <2> QED
    BY <2>1, <2>3, <2>4, <2>5, Unchanged DEF BooksT
<1>3. CASE Precheck
  <2>1. PICK p \in Answers, none \in {conds = {}, TRUE} :
          /\ IF none = (conds = {}) THEN NoFault ELSE Fault("fetch")
          /\ IF p = 0 \/ ~none
             THEN Goto("main", "undo") /\ enabled' = FALSE
             ELSE /\ task' = [task EXCEPT !["main"] =
                       [@ EXCEPT !.at = "attach", !.need = Kinds, !.trig = plan + 1,
                                 !.qty = Least(p, task["main"].qty)]]
                  /\ UNCHANGED enabled
    BY <1>3 DEF Precheck
  <2>2. Counts /\ UNCHANGED exchange /\ UNCHANGED <<lots, claims, justClosed, plan>>
    BY <1>3, <2>1, Counting DEF Precheck
  <2>3. enabled' \in BOOLEAN
    BY <2>1 DEF BooksT
  <2>4. EngineT'
    <3>1. CASE p = 0 \/ ~none
      BY <1>1, <2>1, <2>2, <3>1, GoOn DEF EngineT
    <3>2. CASE ~(p = 0 \/ ~none)
      <4>1. PICK q : q = Least(p, task["main"].qty)
        OBVIOUS
      <4>2. q \in Nat
        BY <1>1, <4>1, AnswerTyped DEF Least
      <4>3. plan + 1 \in Nat /\ Kinds \in SUBSET Kinds
        BY DEF EngineT
      <4>4. [task["main"] EXCEPT !.at = "attach", !.need = Kinds, !.trig = plan + 1, !.qty = q] \in Works
        BY <1>1, <4>2, <4>3, WorkSet, FiniteCondsFacts
      <4>5. task' = [task EXCEPT !["main"] =
                       [task["main"] EXCEPT !.at = "attach", !.need = Kinds, !.trig = plan + 1, !.qty = q]]
        BY <1>1, <2>1, <3>2, <4>1 DEF EngineT, Works, Task
      <4> QED
        BY <1>1, <2>2, <4>4, <4>5, TaskSet DEF EngineT
    <3> QED
      BY <3>1, <3>2
  <2> QED
    BY <2>2, <2>3, <2>4, Unchanged DEF BooksT, lots, claims
<1>4. CASE Attached
  <2>1. Counts /\ UNCHANGED exchange /\ UNCHANGED <<lots, stuck, justClosed, plan>>
    BY <1>4, Counting DEF Attached
  <2>2. claim' \in Claim /\ enabled' \in BOOLEAN
    BY <1>4, ClaimTyped DEF Attached, BooksT
  <2>3. EngineT'
    BY <1>1, <1>4, <2>1, GoOn, FiniteCondsFacts DEF Attached, EngineT
  <2> QED
    BY <2>1, <2>2, <2>3, Unchanged DEF BooksT, lots
<1> QED
  BY <1>2, <1>3, <1>4

LEMMA PlacingTyped ==
  ASSUME Typed, NEW t \in Tasks, Placed(t) \/ NotPlaced(t)
  PROVE  Typed'
<1> USE DEF Typed
<1>1. PICK kind \in Kinds : kind = NextKind(t)
  BY DEF NextKind, Kinds
<1>2. task[t] \in Works /\ \A x \in Works : [task EXCEPT ![t] = x] \in [Tasks -> Works]
  BY TaskSet DEF EngineT
<1>3. CASE Placed(t)
  <2>1. PICK q : /\ q = IF kind = "SL" \/ At(t, "repairplace") THEN task[t].qty
                        ELSE TargetQty(task[t].qty)
                 /\ conds' = WithOrder(kind, q, task[t].trig)
                 /\ task' = [task EXCEPT ![t].need = @ \ {kind}, ![t].got = @ \cup {kind}]
    BY <1>1, <1>3 DEF Placed
  <2>2. q \in Nat
    BY <1>2, <2>1, WorkFields DEF TargetQty
  <2>3. conds' \in FiniteConds
    BY <1>2, <2>1, <2>2, WithOrderTyped, WorkFields
  <2>4. task' \in [Tasks -> Works]
    <3>1. PICK x : x = [task[t] EXCEPT !.need = task[t].need \ {kind}, !.got = task[t].got \cup {kind}]
      OBVIOUS
    <3>2. x \in Works
      BY <1>2, <3>1, WorkFields
    <3>3. task' = [task EXCEPT ![t] = x]
      BY <1>2, <2>1, <3>1 DEF EngineT, Works, Task
    <3> QED
      BY <1>2, <3>2, <3>3
  <2>5. plan' \in Nat
    BY <1>2, <1>3, WorkFields DEF Placed, EngineT
  <2>6. Counts /\ UNCHANGED <<own, foreign, lag, crossed, exits, justClosed>> /\ UNCHANGED books
    BY <1>3, Counting DEF Placed
  <2> QED
    BY <2>3, <2>4, <2>5, <2>6, Unchanged DEF ExchangeT, EngineT
<1>4. CASE NotPlaced(t)
  <2>1. Counts /\ UNCHANGED exchange /\ UNCHANGED books /\ UNCHANGED <<justClosed, plan>>
    BY <1>4, Counting DEF NotPlaced
  <2>2. task' \in [Tasks -> Works]
    <3>1. PICK x : x = [task[t] EXCEPT !.need = task[t].need \ {kind}]
      OBVIOUS
    <3>2. x \in Works
      BY <1>2, <3>1, WorkFields
    <3>3. task' = [task EXCEPT ![t] = x]
      BY <1>1, <1>2, <1>4, <3>1 DEF EngineT, NotPlaced
    <3> QED
      BY <1>2, <3>2, <3>3
  <2> QED
    BY <2>1, <2>2, Unchanged DEF EngineT
<1> QED
  BY <1>3, <1>4

LEMMA SellingTyped ==
  ASSUME Typed, NEW t \in Tasks, Sold(t) \/ NotSold(t) \/ SaleBooked(t)
  PROVE  Typed'
<1> USE DEF Typed
<1>1. task[t] \in Works /\ task[t].qty \in Nat
      /\ \A x \in Works : [task EXCEPT ![t] = x] \in [Tasks -> Works]
  BY TaskSet, WorkFields DEF EngineT
<1>2. {"closecancel", "repair", "undone", "undonepart", "closed", "closedpart", "dumped",
       "dumpedpart"} \subseteq Labels
  BY DEF Labels, MainLabels, SharedLabels
<1>3. CASE Sold(t)
  <2>1. PICK n \in 1..Least(task[t].qty, Live) :
          /\ (n = Least(task[t].qty, Live) /\ NoFault) \/ Fault("partial")
          /\ Sell(n)
          /\ task' = [task EXCEPT ![t] = [@ EXCEPT !.qty = n,
               !.at = IF n = task[t].qty THEN SoldAt[task[t].at] ELSE SoldPartAt[task[t].at]]]
    BY <1>3 DEF Sold
  <2>2. n \in Nat /\ n <= Live
    BY <1>1, <2>1, AnswerTyped DEF Least
  <2>3. own' \in Nat /\ foreign' \in Nat /\ lag' \in Nat
    BY <2>1, <2>2, SellTyped
  <2>4. task' \in [Tasks -> Works]
    <3>1. PICK l : l = IF n = task[t].qty THEN SoldAt[task[t].at] ELSE SoldPartAt[task[t].at]
      OBVIOUS
    <3>2. l \in Labels
      <4>1. PICK from \in {"undo", "close", "dump"} : from = task[t].at
        BY <1>3 DEF Sold, Selling
      <4>2. SoldAt[from] \in Labels /\ SoldPartAt[from] \in Labels
        BY <1>2, <4>1 DEF SoldAt, SoldPartAt
      <4> QED
        BY <3>1, <4>1, <4>2
    <3>3. PICK x : x = [task[t] EXCEPT !.at = l, !.qty = n]
      OBVIOUS
    <3>4. x \in Works
      BY <1>1, <2>2, <3>2, <3>3, WorkFields
    <3>5. task' = [task EXCEPT ![t] = x]
      BY <1>1, <2>1, <3>1, <3>3 DEF EngineT, Works, Task
    <3> QED
      BY <1>1, <3>4, <3>5
  <2>5. Counts /\ UNCHANGED <<conds, crossed, exits, justClosed, plan>> /\ UNCHANGED books
    BY <1>3, <2>1, Counting DEF Sold
  <2> QED
    BY <2>3, <2>4, <2>5, Unchanged DEF ExchangeT, EngineT
<1>4. CASE NotSold(t)
  <2>1. Counts /\ UNCHANGED exchange /\ UNCHANGED <<lots, stuck, enabled, justClosed, plan>>
    BY <1>4, Counting DEF NotSold
  <2>2. claim' \in Claim
    BY <1>4, ClaimTyped DEF NotSold, BooksT
  <2>3. EngineT'
    BY <1>2, <1>4, <2>1, GoOn DEF NotSold, EngineT
  <2> QED
    BY <2>1, <2>2, <2>3, Unchanged DEF BooksT, lots
<1>5. CASE SaleBooked(t)
  <2>1. Counts /\ UNCHANGED exchange /\ UNCHANGED <<stuck, enabled, plan>>
    BY <1>5, Counting DEF SaleBooked
  <2>2. claim' \in Claim /\ justClosed' \in BOOLEAN
    BY <1>5, ClaimTyped DEF SaleBooked, BooksT, EngineT
  <2>3. young' \in Nat /\ old' \in Nat
    BY <1>1, <1>5, BookExitTyped DEF SaleBooked
  <2>4. task' \in [Tasks -> Works]
    BY <1>2, <1>5, GoOn DEF SaleBooked
  <2> QED
    BY <2>1, <2>2, <2>3, <2>4, Unchanged DEF BooksT, EngineT
<1> QED
  BY <1>3, <1>4, <1>5

LEMMA DecisionTyped ==
  ASSUME Typed, CloseStart \/ AdjustStart \/ Adjusted \/ AdjustCancels
  PROVE  Typed'
<1> USE DEF Typed
<1>1. /\ "main" \in Tasks /\ {"close", "adjust", "adjustcancel", "emergency"} \subseteq Labels
      /\ task["main"] \in Works
  <2>1. "main" \in Tasks /\ {"close", "adjust", "adjustcancel", "emergency"} \subseteq Labels
    BY DEF Tasks, Labels, MainLabels, SharedLabels
  <2> QED
    BY <2>1, TaskSet DEF EngineT
<1>2. CASE CloseStart
  <2>1. Counts /\ UNCHANGED exchange /\ UNCHANGED books /\ UNCHANGED <<justClosed, plan>>
    BY <1>2, Counting DEF CloseStart
  <2>2. task' \in [Tasks -> Works]
    BY <1>1, <1>2, AnswerTyped, GoOn, FiniteCondsFacts DEF CloseStart
  <2> QED
    BY <2>1, <2>2, Unchanged DEF EngineT
<1>3. CASE AdjustStart
  <2>1. Counts /\ UNCHANGED exchange /\ UNCHANGED books /\ UNCHANGED <<justClosed, plan>>
    BY <1>3, Counting DEF AdjustStart
  <2>2. PICK p \in Answers :
          task' = [task EXCEPT !["main"] =
            [Idle EXCEPT !.at = "adjust", !.qty = Slice(p), !.seen = conds,
                         !.need = Kinds, !.trig = plan + 1]]
    BY <1>3 DEF AdjustStart
  <2>3. PICK q \in Nat : q = Slice(p)
    BY AnswerTyped
  <2>4. PICK x : x = [Idle EXCEPT !.at = "adjust", !.qty = q, !.seen = conds, !.need = Kinds, !.trig = plan + 1]
    OBVIOUS
  <2>5. x \in Works
    <3>1. /\ "adjust" \in Labels /\ plan + 1 \in Nat /\ Kinds \in SUBSET Kinds
          /\ conds \in FiniteConds
      BY <1>1 DEF ExchangeT, EngineT
    <3> QED
      BY <1>1, <2>4, <3>1, WorkSet
  <2>6. task' = [task EXCEPT !["main"] = x]
    BY <2>2, <2>3, <2>4
  <2> QED
    BY <1>1, <2>1, <2>5, <2>6, TaskSet, Unchanged DEF EngineT
<1>4. CASE Adjusted
  <2>1. /\ Counts /\ UNCHANGED exchange /\ UNCHANGED <<lots, claims, justClosed, plan>>
        /\ enabled' \in BOOLEAN
    BY <1>4, Counting DEF Adjusted, BooksT
  <2>2. task' \in [Tasks -> Works]
    <3>1. CASE "SL" \in task["main"].got
      <4>1. PICK x : x = [task["main"] EXCEPT !.at = "adjustcancel",
                            !.seen = {c \in task["main"].seen : c.kind \in task["main"].got}]
        OBVIOUS
      <4>2. {c \in task["main"].seen : c.kind \in task["main"].got} \in FiniteConds
        BY <1>1, WorkFields, FiniteCondsFacts
      <4>3. x \in Works
        BY <1>1, <4>1, <4>2, WorkFields
      <4>4. task' = [task EXCEPT !["main"] = x]
        BY <1>1, <1>4, <3>1, <4>1 DEF Adjusted, EngineT, Works, Task
      <4> QED
        BY <1>1, <4>3, <4>4, TaskSet
    <3>2. CASE "SL" \notin task["main"].got
      BY <1>1, <1>4, <3>2, GoOn DEF Adjusted
    <3> QED
      BY <3>1, <3>2
  <2> QED
    BY <2>1, <2>2, Unchanged DEF EngineT, BooksT, lots, claims
<1>5. CASE AdjustCancels
  <2>1. /\ Counts /\ UNCHANGED <<own, foreign, lag, crossed, exits, justClosed, plan>>
        /\ UNCHANGED books
    BY <1>5, Counting DEF AdjustCancels
  <2>2. conds' \in FiniteConds
    BY <1>5, FiniteCondsFacts DEF AdjustCancels, ExchangeT
  <2>3. task' \in [Tasks -> Works]
    BY <1>1, <1>5, GoOn DEF AdjustCancels
  <2> QED
    BY <2>1, <2>2, <2>3, Unchanged DEF ExchangeT, EngineT
<1> QED
  BY <1>2, <1>3, <1>4, <1>5

\* what a repair does next
LEMMA PlanTyped ==
  ASSUME Typed, NEW t \in Tasks
  PROVE  /\ \A c : RepairFails(t, c) => task' \in [Tasks -> Works] /\ enabled' \in BOOLEAN
         /\ \A q \in Nat : PlanRepair(t, q) => task' \in [Tasks -> Works] /\ enabled' \in BOOLEAN
<1> USE DEF Typed
<1>1. {"emergency", "repairplace"} \subseteq Labels
  BY DEF Labels, SharedLabels
<1>2. \A c : RepairFails(t, c) => task' \in [Tasks -> Works] /\ enabled' \in BOOLEAN
  BY <1>1, GoOn DEF RepairFails
<1>3. ASSUME NEW q \in Nat, PlanRepair(t, q)
      PROVE  task' \in [Tasks -> Works] /\ enabled' \in BOOLEAN
  <2>1. PICK missing \in SUBSET Kinds : missing = {k \in Kinds : ~Has(conds, k, q)}
    OBVIOUS
  <2>2. CASE "SL" \in missing /\ crossed
    BY <1>2, <1>3, <2>1, <2>2 DEF PlanRepair
  <2>3. CASE ~("SL" \in missing /\ crossed)
    <3>1. enabled' \in BOOLEAN
      BY <1>3, <2>1, <2>3 DEF PlanRepair, BooksT
    <3>2. CASE missing = {}
      BY <1>1, <1>3, <2>1, <2>3, <3>1, <3>2, GoOn DEF PlanRepair
    <3>3. CASE missing # {}
      <4>1. PICK x : x = [Idle EXCEPT !.at = "repairplace", !.qty = q, !.need = missing, !.trig = plan]
        OBVIOUS
      <4>2. x \in Works
        <5>1. Idle \in Works /\ plan \in Nat
          BY FiniteCondsFacts DEF Idle, Works, Task, SharedLabels, FiniteConds, EngineT
        <5> QED
          BY <1>1, <2>1, <4>1, <5>1, WorkSet, FiniteCondsFacts
      <4>3. task' = [task EXCEPT ![t] = x]
        BY <1>3, <2>1, <2>3, <3>3, <4>1 DEF PlanRepair
      <4> QED
        BY <3>1, <4>2, <4>3, TaskSet
    <3> QED
      BY <3>2, <3>3
  <2> QED
    BY <2>2, <2>3
<1> QED
  BY <1>2, <1>3

LEMMA RepairTyped ==
  ASSUME Typed, NEW t \in Tasks,
         Emergency(t) \/ CancelAll(t) \/ Repair(t) \/ RepairCancels(t) \/ Replan(t) \/ Repaired(t)
  PROVE  Typed'
<1> USE DEF Typed
<1>1. {"dump", "undo", "repaircancel", "replan"} \subseteq Labels
  BY DEF Labels, MainLabels, SharedLabels
<1>2. task[t] \in Works /\ task[t].qty \in Nat
  BY TaskSet, WorkFields DEF EngineT
<1>3. CASE Emergency(t)
  <2>1. Counts /\ UNCHANGED exchange /\ UNCHANGED books /\ UNCHANGED <<justClosed, plan>>
    BY <1>3, Counting DEF Emergency
  <2>2. task' \in [Tasks -> Works]
    BY <1>1, <1>3, AnswerTyped, GoOn, FiniteCondsFacts DEF Emergency
  <2> QED
    BY <2>1, <2>2, Unchanged DEF EngineT
<1>4. CASE CancelAll(t)
  <2>1. /\ Counts /\ UNCHANGED <<own, foreign, lag, crossed, exits, justClosed, plan>>
        /\ UNCHANGED <<lots, claims>>
    BY <1>4, Counting DEF CancelAll
  <2>2. conds' \in FiniteConds /\ enabled' \in BOOLEAN
    BY <1>4, FiniteCondsFacts DEF CancelAll, ExchangeT, BooksT
  <2>3. task' \in [Tasks -> Works]
    BY <1>1, <1>4, GoOn DEF CancelAll
  <2> QED
    BY <2>1, <2>2, <2>3, Unchanged DEF ExchangeT, EngineT, BooksT, lots, claims
<1>5. CASE Repair(t)
  <2>1. Counts /\ UNCHANGED exchange /\ UNCHANGED <<lots, claims, justClosed, plan>>
    BY <1>5, Counting DEF Repair
  <2>2. task' \in [Tasks -> Works] /\ enabled' \in BOOLEAN
    <3>1. CASE \E c : RepairFails(t, c)
      BY <3>1, PlanTyped
    <3>2. CASE \E q \in Nat : PlanRepair(t, q)
      BY <3>2, PlanTyped
    <3>3. CASE Done(t) /\ UNCHANGED enabled
      BY <1>1, <3>3, GoOn DEF BooksT
    <3>4. CASE \E p \in Answers : Hold(t, "repaircancel", Slice(p), Stale(conds, Slice(p)))
                                  /\ UNCHANGED enabled
      <4>1. PICK p \in Answers : Hold(t, "repaircancel", Slice(p), Stale(conds, Slice(p)))
                                 /\ UNCHANGED enabled
        BY <3>4
      <4>2. Slice(p) \in Nat /\ Stale(conds, Slice(p)) \in FiniteConds
        BY AnswerTyped, FiniteCondsFacts DEF Stale, ExchangeT
      <4> QED
        BY <1>1, <4>1, <4>2, GoOn DEF BooksT
    <3> QED
      BY <1>5, <3>1, <3>2, <3>3, <3>4, AnswerTyped DEF Repair
  <2> QED
    BY <2>1, <2>2, Unchanged DEF EngineT, BooksT, lots, claims
<1>6. CASE RepairCancels(t)
  <2>1. /\ Counts /\ UNCHANGED <<own, foreign, lag, crossed, exits, justClosed, plan>>
        /\ UNCHANGED <<lots, claims>>
    BY <1>6, Counting DEF RepairCancels
  <2>2. conds' \in FiniteConds
    BY <1>6, FiniteCondsFacts DEF RepairCancels, ExchangeT
  <2>3. task' \in [Tasks -> Works] /\ enabled' \in BOOLEAN
    BY <1>1, <1>2, <1>6, PlanTyped, GoOn, FiniteCondsFacts DEF RepairCancels, BooksT
  <2> QED
    BY <2>1, <2>2, <2>3, Unchanged DEF ExchangeT, EngineT, BooksT, lots, claims
<1>7. CASE Replan(t)
  <2>1. Counts /\ UNCHANGED exchange /\ UNCHANGED <<lots, claims, justClosed, plan>>
    BY <1>7, Counting DEF Replan
  <2>2. task' \in [Tasks -> Works] /\ enabled' \in BOOLEAN
    BY <1>2, <1>7, PlanTyped DEF Replan
  <2> QED
    BY <2>1, <2>2, Unchanged DEF EngineT, BooksT, lots, claims
<1>8. CASE Repaired(t)
  <2>1. Counts /\ UNCHANGED exchange /\ UNCHANGED <<lots, claims, justClosed, plan>>
    BY <1>8, Counting DEF Repaired
  <2>2. task' \in [Tasks -> Works] /\ enabled' \in BOOLEAN
    BY <1>1, <1>8, PlanTyped, GoOn DEF Repaired, BooksT
  <2> QED
    BY <2>1, <2>2, Unchanged DEF EngineT, BooksT, lots, claims
<1> QED
  BY <1>3, <1>4, <1>5, <1>6, <1>7, <1>8

LEMMA FlatTyped ==
  ASSUME Typed, NEW r \in Reconcilers,
         SyncStart(r) \/ SyncConds(r) \/ ConfirmFlat(r) \/ BookFlat(r) \/ SyncCancels(r)
  PROVE  Typed'
<1> USE DEF Typed
<1>1. r \in Tasks /\ {"conds", "live", "confirm", "flat", "flatcancel", "restop"} \subseteq Labels
  BY DEF Tasks, Labels, SyncLabels
<1>2. task[r] \in Works /\ task[r].qty \in Nat /\ task[r].seen \in FiniteConds /\ conds \in FiniteConds
  BY <1>1, TaskSet, WorkFields DEF EngineT, ExchangeT
<1>3. CASE SyncStart(r)
  <2>1. Counts /\ UNCHANGED exchange /\ UNCHANGED books /\ UNCHANGED <<justClosed, plan>>
    BY <1>3, Counting DEF SyncStart
  <2>2. task' \in [Tasks -> Works]
    BY <1>1, <1>3, AnswerTyped, GoOn, FiniteCondsFacts DEF SyncStart
  <2> QED
    BY <2>1, <2>2, Unchanged DEF EngineT
<1>4. CASE SyncConds(r)
  <2>1. Counts /\ UNCHANGED exchange /\ UNCHANGED books /\ UNCHANGED <<justClosed, plan>>
    BY <1>4, Counting DEF SyncConds
  <2>2. task' \in [Tasks -> Works]
    BY <1>1, <1>2, <1>4, GoOn DEF SyncConds
  <2> QED
    BY <2>1, <2>2, Unchanged DEF EngineT
<1>5. CASE ConfirmFlat(r)
  <2>1. Counts /\ UNCHANGED exchange /\ UNCHANGED books /\ UNCHANGED <<justClosed, plan>>
    BY <1>5, Counting DEF ConfirmFlat
  <2>2. task' \in [Tasks -> Works]
    BY <1>1, <1>2, <1>5, AnswerTyped, GoOn DEF ConfirmFlat
  <2> QED
    BY <2>1, <2>2, Unchanged DEF EngineT
<1>6. CASE BookFlat(r)
  <2>1. /\ Counts /\ UNCHANGED <<own, foreign, lag, conds, crossed, enabled, justClosed, plan>>
        /\ UNCHANGED claims
    BY <1>6, Counting DEF BookFlat
  <2>2. exits' \in Seq(Exit)
    BY <1>6, ExitsTyped DEF BookFlat
  <2>3. young' \in Nat /\ old' \in Nat
    BY <1>6, HistoryTyped, BookExitTyped DEF BookFlat, BooksT
  <2>4. task' \in [Tasks -> Works]
    BY <1>1, <1>6, GoOn DEF BookFlat
  <2> QED
    BY <2>1, <2>2, <2>3, <2>4, Unchanged DEF ExchangeT, EngineT, BooksT, claims
<1>7. CASE SyncCancels(r)
  <2>1. /\ Counts /\ UNCHANGED <<own, foreign, lag, crossed, exits, justClosed, plan>>
        /\ UNCHANGED <<lots, claims>>
    BY <1>7, Counting DEF SyncCancels
  <2>2. conds' \in FiniteConds /\ enabled' \in BOOLEAN
    BY <1>7, FiniteCondsFacts DEF SyncCancels, ExchangeT, BooksT
  <2>3. task' \in [Tasks -> Works]
    BY <1>1, <1>2, <1>7, GoOn, FiniteCondsFacts DEF SyncCancels
  <2> QED
    BY <2>1, <2>2, <2>3, Unchanged DEF ExchangeT, EngineT, BooksT, lots, claims
<1> QED
  BY <1>3, <1>4, <1>5, <1>6, <1>7

LEMMA EnforceTyped ==
  ASSUME Typed, NEW r \in Reconcilers,
         \/ Enforce(r) \/ Adopt(r) \/ Adopted(r) \/ Reread(r) \/ Unmanaged(r) \/ Check(r)
         \/ Recheck(r)
  PROVE  Typed'
<1> USE DEF Typed
<1>1. /\ r \in Tasks
      /\ {"check", "adopt", "adoptplace", "unmanaged", "reread", "synccancel", "repair"} \subseteq Labels
  BY DEF Tasks, Labels, SyncLabels, SharedLabels
<1>2. task[r] \in Works /\ task[r].qty \in Nat /\ task[r].seen \in FiniteConds /\ conds \in FiniteConds
  BY <1>1, TaskSet, WorkFields DEF EngineT, ExchangeT
<1>3. CASE Enforce(r)
  <2>1. /\ Counts /\ UNCHANGED <<own, foreign, lag, conds, crossed, enabled, justClosed, plan>>
        /\ UNCHANGED claims
    BY <1>3, Counting DEF Enforce
  <2>2. exits' \in Seq(Exit)
    BY <1>3, ExitsTyped DEF Enforce, ExchangeT
  <2>3. young' \in Nat /\ old' \in Nat
    BY <1>3, HistoryTyped, BookExitTyped DEF Enforce, BooksT, lots
  <2>4. task' \in [Tasks -> Works]
    BY <1>1, <1>3, GoOn DEF Enforce
  <2> QED
    BY <2>1, <2>2, <2>3, <2>4, Unchanged DEF ExchangeT, EngineT, BooksT, claims
<1>4. CASE Adopt(r)
  <2>1. Counts /\ UNCHANGED exchange /\ UNCHANGED <<old, claims, justClosed, plan>>
    BY <1>4, Counting DEF Adopt
  <2>2. CASE Goto(r, "unmanaged") /\ UNCHANGED <<young, enabled>>
    BY <1>1, <2>1, <2>2, GoOn, Unchanged DEF EngineT, BooksT, claims
  <2>3. CASE \E p \in Answers :
               /\ young' = young + Least(p, claim.qty)
               /\ enabled' = TRUE
               /\ task' = [task EXCEPT ![r] = [Idle EXCEPT !.at = "adoptplace",
                    !.qty = Least(p, claim.qty), !.need = Kinds, !.trig = plan + 1]]
    <3>1. PICK p \in Answers :
               /\ young' = young + Least(p, claim.qty)
               /\ enabled' = TRUE
               /\ task' = [task EXCEPT ![r] = [Idle EXCEPT !.at = "adoptplace",
                    !.qty = Least(p, claim.qty), !.need = Kinds, !.trig = plan + 1]]
      BY <2>3
    <3>2. PICK q : q = Least(p, claim.qty)
      OBVIOUS
    <3>3. q \in Nat
      <4>1. claim.qty \in Nat
        BY DEF BooksT, Claim
      <4> QED
        BY <3>2, <4>1, AnswerTyped DEF Least
    <3>4. PICK x : x = [Idle EXCEPT !.at = "adoptplace", !.qty = q, !.need = Kinds, !.trig = plan + 1]
      OBVIOUS
    <3>5. x \in Works
      <4>1. Idle \in Works /\ plan + 1 \in Nat /\ Kinds \in SUBSET Kinds
        BY FiniteCondsFacts DEF Idle, Works, Task, SharedLabels, FiniteConds, EngineT
      <4> QED
        BY <1>1, <3>3, <3>4, <4>1, WorkSet, FiniteCondsFacts
    <3>6. task' = [task EXCEPT ![r] = x]
      BY <3>1, <3>2, <3>4
    <3>7. task' \in [Tasks -> Works]
      BY <1>1, <3>5, <3>6, TaskSet
    <3>8. young' \in Nat /\ enabled' \in BOOLEAN
      BY <3>1, <3>2, <3>3 DEF BooksT
    <3> QED
      BY <2>1, <3>7, <3>8, Unchanged DEF EngineT, BooksT, claims
  <2> QED
    BY <1>4, <2>2, <2>3 DEF Adopt
<1>5. CASE Adopted(r) \/ Reread(r) \/ Check(r) \/ Recheck(r)
  <2>1. Counts /\ UNCHANGED exchange /\ UNCHANGED books /\ UNCHANGED <<justClosed, plan>>
    BY <1>5, Counting DEF Adopted, Reread, Check, Recheck
  <2>2. Stale(task[r].seen, task[r].qty) \in FiniteConds
    BY <1>2, FiniteCondsFacts DEF Stale
  <2>3. CASE Adopted(r) \/ Reread(r) \/ Recheck(r)
    <3>1. task' \in [Tasks -> Works]
      BY <1>1, <1>2, <2>3, GoOn, FiniteCondsFacts DEF Adopted, Reread, Recheck
    <3> QED
      BY <2>1, <3>1, Unchanged DEF EngineT
  <2>4. CASE Check(r)
    <3>1. task' \in [Tasks -> Works]
      BY <1>1, <1>2, <2>2, <2>4, GoOn DEF Check
    <3> QED
      BY <2>1, <3>1, Unchanged DEF EngineT
  <2> QED
    BY <1>5, <2>3, <2>4
<1>6. CASE Unmanaged(r)
  <2>1. Counts /\ UNCHANGED exchange /\ UNCHANGED <<lots, claims, justClosed, plan>>
    BY <1>6, Counting DEF Unmanaged
  <2>2. task' \in [Tasks -> Works] /\ enabled' \in BOOLEAN
    BY <1>1, <1>6, GoOn DEF Unmanaged
  <2> QED
    BY <2>1, <2>2, Unchanged DEF EngineT, BooksT, lots, claims
<1> QED
  BY <1>3, <1>4, <1>5, <1>6

LEMMA OutsideTyped ==
  ASSUME Typed,
         \/ \E c \in conds : Trigger(c)
         \/ StreamExit \/ LoseExit \/ Cross \/ ForeignAct
         \/ Settle \/ Mature \/ ClaimExpires \/ CloseForgotten
  PROVE  Typed'
<1> USE DEF Typed
<1>1. CASE \E c \in conds : Trigger(c)
  <2>1. PICK c \in conds : Trigger(c)
    BY <1>1
  <2>2. c \in Condition /\ c.qty \in Nat /\ c.ours \in BOOLEAN
    BY DEF ExchangeT, FiniteConds, Condition
  <2>3. PICK n : n = Least(c.qty, Live)
    OBVIOUS
  <2>4. n \in Nat /\ n <= Live
    BY <2>2, <2>3, AnswerTyped DEF Least
  <2>5. own' \in Nat /\ foreign' \in Nat /\ lag' \in Nat
    <3>1. CASE c.ours
      BY <2>1, <2>3, <2>4, <3>1, SellTyped DEF Trigger
    <3>2. CASE ~c.ours
      <4>1. /\ foreign' = foreign - Least(n, foreign)
            /\ own' = own - (n - Least(n, foreign))
            /\ lag' = Least(lag, own')
        BY <2>1, <2>3, <3>2 DEF Trigger
      <4>2. own' \in Nat /\ foreign' \in Nat
        BY <2>4, <4>1 DEF ExchangeT, Live, Least
      <4> QED
        BY <4>1, <4>2 DEF ExchangeT, Least
    <3> QED
      BY <3>1, <3>2
  <2>6. conds' \in FiniteConds
    BY <2>1, FiniteCondsFacts DEF Trigger, ExchangeT
  <2>7. exits' \in Seq(Exit)
    <3>1. PICK e : e = [order |-> c, qty |-> IF c.ours THEN n ELSE 0, booked |-> ~c.ours, due |-> TRUE]
      OBVIOUS
    <3>2. e \in Exit
      BY <2>2, <2>4, <3>1 DEF Exit
    <3>3. exits' = exits \/ exits' = Append(exits, e)
      BY <2>1, <2>3, <3>1 DEF Trigger
    <3> QED
      BY <3>2, <3>3 DEF ExchangeT
  <2>8. Counts /\ UNCHANGED <<crossed, justClosed, plan, task>> /\ UNCHANGED books
    BY <2>1, Counting DEF Trigger
  <2> QED
    BY <2>5, <2>6, <2>7, <2>8, Unchanged DEF ExchangeT
<1>2. CASE StreamExit
  <2>1. PICK i \in DOMAIN exits :
          /\ BookExit(exits[i].qty)
          /\ exits' = [exits EXCEPT ![i].due = FALSE, ![i].booked = TRUE]
    BY <1>2 DEF StreamExit
  <2>2. exits' \in Seq(Exit)
    BY <2>1, ExitsTyped
  <2>3. exits[i].qty \in Nat
    BY HistoryTyped DEF Exit
  <2>4. young' \in Nat /\ old' \in Nat
    BY <2>1, <2>3, BookExitTyped
  <2>5. "stream" \in Tasks /\ "exit" \in Labels
    BY DEF Tasks, Labels, SharedLabels
  <2>6. task' \in [Tasks -> Works]
    BY <1>2, <2>5, GoOn DEF StreamExit
  <2>7. /\ Counts /\ UNCHANGED <<own, foreign, lag, conds, crossed, enabled, justClosed, plan>>
        /\ UNCHANGED claims
    BY <1>2, Counting DEF StreamExit
  <2> QED
    BY <2>2, <2>4, <2>6, <2>7, Unchanged DEF ExchangeT, EngineT, BooksT, claims
<1>3. CASE LoseExit
  <2>1. exits' \in Seq(Exit)
    BY <1>3, ExitsTyped DEF LoseExit
  <2>2. /\ Counts /\ UNCHANGED <<own, foreign, lag, conds, crossed, justClosed, plan, task>>
        /\ UNCHANGED books
    BY <1>3, Counting DEF LoseExit
  <2> QED
    BY <2>1, <2>2, Unchanged DEF ExchangeT
<1>4. CASE Cross
  <2>1. crossed' \in BOOLEAN
    BY <1>4 DEF Cross
  <2>2. /\ Counts /\ UNCHANGED <<own, foreign, lag, conds, exits, justClosed, plan, task>>
        /\ UNCHANGED books
    BY <1>4, Counting DEF Cross
  <2> QED
    BY <2>1, <2>2, Unchanged DEF ExchangeT
<1>5. CASE ForeignAct
  <2>1. /\ Counts /\ UNCHANGED <<crossed, exits, justClosed, plan, task>> /\ UNCHANGED books
    BY <1>5, Counting DEF ForeignAct
  <2>2. CASE foreign' = foreign + 1 /\ UNCHANGED <<own, lag, conds>>
    BY <2>1, <2>2, Unchanged DEF ExchangeT
  <2>3. CASE \E k \in Kinds : conds' = conds \cup {NewOrder(k, 1, 0, FALSE)} /\ UNCHANGED <<own, foreign, lag>>
    <3>1. PICK k \in Kinds : conds' = conds \cup {NewOrder(k, 1, 0, FALSE)} /\ UNCHANGED <<own, foreign, lag>>
      BY <2>3
    <3>2. NewOrder(k, 1, 0, FALSE) \in Condition
      BY NewOrderTyped
    <3>3. conds' \in FiniteConds
      BY <3>1, <3>2, FiniteCondsFacts DEF ExchangeT
    <3> QED
      BY <2>1, <3>1, <3>3, Unchanged DEF ExchangeT
  <2>4. CASE own' = 0 /\ foreign' = 0 /\ lag' = 0 /\ UNCHANGED conds
    BY <2>1, <2>4, Unchanged DEF ExchangeT
  <2> QED
    BY <1>5, <2>2, <2>3, <2>4 DEF ForeignAct
<1>6. CASE Settle \/ CloseForgotten
  <2>1. CASE Settle
    <3>1. /\ Counts /\ UNCHANGED <<own, foreign, conds, crossed, exits, justClosed, plan, task>>
          /\ UNCHANGED books /\ lag' = 0
      BY <2>1, Counting DEF Settle
    <3> QED
      BY <3>1, Unchanged DEF ExchangeT
  <2>2. CASE CloseForgotten
    <3>1. /\ Counts /\ UNCHANGED <<plan, task>> /\ UNCHANGED exchange
          /\ UNCHANGED books /\ justClosed' = FALSE
      BY <2>2, Counting DEF CloseForgotten
    <3> QED
      BY <3>1, Unchanged DEF EngineT
  <2> QED
    BY <1>6, <2>1, <2>2
<1>7. CASE Mature
  <2>1. Counts /\ UNCHANGED exchange /\ UNCHANGED <<enabled, justClosed, plan, task>> /\ UNCHANGED claims
    BY <1>7, Counting DEF Mature
  <2>2. young' \in Nat /\ old' \in Nat
    BY <1>7 DEF Mature, BooksT
  <2> QED
    BY <2>1, <2>2, Unchanged DEF BooksT, claims
<1>8. CASE ClaimExpires
  <2>1. Counts /\ UNCHANGED exchange /\ UNCHANGED <<enabled, justClosed, plan, task>> /\ UNCHANGED lots
    BY <1>8, Counting DEF ClaimExpires
  <2>2. NoClaim \in Claim /\ \A c \in Claim : [c EXCEPT !.inTTL = FALSE] \in Claim
    BY DEF NoClaim, Claim
  <2>3. claim' \in Claim /\ stuck' \in BOOLEAN
    BY <1>8, <2>2 DEF ClaimExpires, BooksT
  <2> QED
    BY <2>1, <2>3, Unchanged DEF BooksT, lots
<1> QED
  BY <1>1, <1>2, <1>3, <1>4, <1>5, <1>6, <1>7, <1>8

LEMMA StepTyped ==
  ASSUME Typed, [Next]_vars
  PROVE  Typed'
<1>1. CASE Decide \/ MainFlow
  <2>1. "main" \in Tasks
    BY DEF Tasks
  <2> QED
    BY <1>1, <2>1, OpeningTyped, AttachTyped, DecisionTyped, PlacingTyped, SellingTyped,
       RepairTyped DEF Decide, MainFlow, Flow
<1>2. CASE StreamFlow
  <2>1. "stream" \in Tasks
    BY DEF Tasks
  <2> QED
    BY <1>2, <2>1, OutsideTyped, PlacingTyped, SellingTyped, RepairTyped DEF StreamFlow, Flow
<1>3. CASE \E r \in Reconcilers : Pass(r)
  <2>1. \A r \in Reconcilers : r \in Tasks
    BY DEF Tasks
  <2> QED
    BY <1>3, <2>1, FlatTyped, EnforceTyped, PlacingTyped, SellingTyped, RepairTyped DEF Pass, Flow
<1>4. CASE Time \/ Outside
  BY <1>4, OutsideTyped DEF Time, Outside
<1>5. CASE UNCHANGED vars
  BY <1>5 DEF vars, Typed, ExchangeT, BooksT, EngineT, TallyT
<1> QED
  BY <1>1, <1>2, <1>3, <1>4, <1>5 DEF Next

LEMMA InitTyped ==
  ASSUME Init
  PROVE  Typed
<1>1. Idle \in Works
  BY FiniteCondsFacts DEF Idle, Works, Task, SharedLabels, FiniteConds
<1>2. NoClaim \in Claim
  BY DEF NoClaim, Claim
<1>3. task \in [Tasks -> Works] /\ tally \in [DOMAIN Limit -> Nat]
  BY <1>1 DEF Init
<1>4. ExchangeT
  BY FiniteCondsFacts, EmptySeq DEF Init, ExchangeT
<1>5. BooksT
  BY <1>2 DEF Init, BooksT
<1> QED
  BY <1>3, <1>4, <1>5 DEF Init, Typed, EngineT, TallyT

\* Every step of the engine, of the exchange and of others keeps the state
\* well-typed, for any number of passes and any bounds: no sale and no booked exit
\* makes a quantity negative, and no request leaves a flow at a step that it does
\* not have (executor, _enforce_exchange_invariants).
THEOREM TypeCorrect == Spec => []TypeOK
<1>1. Init => Typed
  BY InitTyped
<1>2. Typed /\ [Next]_vars => Typed'
  BY StepTyped
<1>3. Typed => TypeOK
  BY DEF Typed, TypeOK, ExchangeT, BooksT, EngineT, TallyT, Works, FiniteConds
<1> QED
  BY <1>1, <1>2, <1>3, PTL DEF Spec

-----------------------------------------------------------------------------
(* What the engine bought is in its books                                   *)

\* Nobody else trades the symbol and no fill is lost by open_position, an event
\* comes before the order history, and there are no two passes of which one closes
\* a position because the price is beyond its stop.
Undisturbed == /\ StreamFirst /\ "orphan" \notin Faults /\ MaxForeign = 0
               /\ MaxCrossings = 0 \/ \A r, s \in Reconcilers : r = s

\* a filled order that a pass or the stream will still book
Counted(x) == IF x.booked /\ ~x.due THEN 0 ELSE x.qty
DueQty == Total([i \in DOMAIN exits |-> Counted(exits[i])], Len(exits))

\* a sale that its task has not booked
SoldLabels == {"undone", "undonepart", "closed", "closedpart", "dumped", "dumpedpart"}
SoldBy(t) == IF task[t].at \in SoldLabels THEN task[t].qty ELSE 0
MainSold  == task["main"].at \in SoldLabels
Others    == Tasks \ {"main"}

\* The books cover what is open, what was filled and what was sold; or everything is
\* gone, a pass has closed the trades, and "main" still books its own sale.
Kept == \A t \in Others : own + DueQty + SoldBy("main") + SoldBy(t) <= Managed + Unlogged
Gone == own = 0 /\ DueQty = 0 /\ MainSold /\ \A t \in Others : SoldBy(t) = 0

\* when a pass may close the trades older than 60 s
FlatSafe == \/ own + SoldBy("main") <= young + Unlogged
            \/ own = 0 /\ MainSold

\* where the stream and a pass may be
Dumping == {"emergency", "dump", "dumped", "dumpedpart"}
Lawful(t, l) == /\ t = "stream" => l \in {"idle", "exit"}
                /\ t \in Reconcilers => l \in SyncLabels \cup SharedLabels
                /\ t \in Reconcilers /\ MaxCrossings = 0 => l \notin Dumping

Alone   == foreign = 0 /\ \A c \in conds : c.ours
Places  == /\ \A t \in Tasks : Lawful(t, task[t].at)
           /\ MaxCrossings = 0 => ~crossed
FlatOK  == \A r \in Reconcilers : At(r, "flat") => FlatSafe
\* a fill that queries may omit is young; an entry that is under way has its claim
LagOK   == lag > 0 => young > 0 \/ old = 0 \/ At("main", "log")
ClaimOK == task["main"].at \in {"order", "log"} => claim.status = "active" /\ claim.inTTL
LogOK   == At("main", "log") => task["main"].qty > 0

BooksInv == Alone /\ Places /\ (Kept \/ Gone) /\ FlatOK /\ LagOK /\ ClaimOK /\ LogOK

\* t alone goes on
Moved(t, l) == (\A s \in Tasks \ {t} : task'[s] = task[s]) /\ task'[t].at = l

LEMMA Moves ==
  ASSUME Typed, NEW t \in Tasks, NEW l
  PROVE  /\ Goto(t, l) => Moved(t, l) /\ task'[t].qty = task[t].qty
         /\ \A q, u : Hold(t, l, q, u) => Moved(t, l) /\ task'[t].qty = q
         /\ Turn(t, l) => Moved(t, l)
         /\ Done(t) => Moved(t, "idle")
<1>1. task \in [Tasks -> Works] /\ task[t] \in Works
  BY DEF Typed, EngineT
<1>2. Goto(t, l) => Moved(t, l) /\ task'[t].qty = task[t].qty
  BY <1>1 DEF Goto, Moved, Works, Task
<1>3. \A k, q, u : Hold(t, k, q, u) => Moved(t, k) /\ task'[t].qty = q
  BY <1>1 DEF Hold, Moved, Idle
<1> QED
  BY <1>2, <1>3 DEF Turn, Done

LEMMA SoldTyped ==
  ASSUME Typed, NEW t \in Tasks
  PROVE  SoldBy(t) \in Nat /\ Unlogged \in Nat /\ task[t].qty \in Nat
<1>1. "main" \in Tasks
  BY DEF Tasks
<1>2. \A s \in Tasks : task[s].qty \in Nat
  BY TaskSet, WorkFields DEF Typed, EngineT
<1> QED
  BY <1>1, <1>2 DEF SoldBy, Unlogged

LEMMA BookExitFacts ==
  ASSUME BooksT, NEW n \in Nat, BookExit(n)
  PROVE  /\ young' \in Nat /\ old' \in Nat /\ Managed \in Nat
         /\ young + old <= young' + old' + n
         /\ young' <= young /\ young <= young' + n
         /\ young' < young => old' = 0
         /\ young > 0 \/ old = 0 => young' > 0 \/ old' = 0
         /\ n >= old => old' = 0
         /\ n = 0 => young' = young /\ old' = old
BY DEF BooksT, BookExit, Least, Managed

\* the quantities that are due, before and after
LEMMA DueTyped ==
  ASSUME ExchangeT
  PROVE  /\ DueQty \in Nat
         /\ Len(exits) \in Nat /\ DOMAIN exits = 1..Len(exits)
         /\ \A i \in 1..Len(exits) : exits[i] \in Exit /\ Counted(exits[i]) \in Nat
<1>1. Len(exits) \in Nat /\ DOMAIN exits = 1..Len(exits)
      /\ \A i \in 1..Len(exits) : exits[i] \in Exit
  BY HistoryTyped
<1>2. \A i \in 1..Len(exits) : Counted(exits[i]) \in Nat
  BY <1>1 DEF Counted, Exit
<1>3. PICK w : w = [i \in DOMAIN exits |-> Counted(exits[i])]
  OBVIOUS
<1>4. w \in [1..Len(exits) -> Nat]
  BY <1>1, <1>2, <1>3
<1> QED
  BY <1>1, <1>2, <1>3, <1>4, TotalTyped DEF DueQty

LEMMA DueNext ==
  ASSUME ExchangeT'
  PROVE  /\ DueQty' \in Nat
         /\ Len(exits') \in Nat /\ DOMAIN exits' = 1..Len(exits')
         /\ \A i \in 1..Len(exits') : exits'[i] \in Exit /\ Counted(exits'[i]) \in Nat
<1>1. exits' \in Seq(Exit)
  BY DEF ExchangeT
<1>2. Len(exits') \in Nat /\ DOMAIN exits' = 1..Len(exits')
      /\ \A i \in 1..Len(exits') : exits'[i] \in Exit
  BY <1>1, LenProperties, ElementOfSeq
<1>3. \A i \in 1..Len(exits') : Counted(exits'[i]) \in Nat
  BY <1>2 DEF Counted, Exit
<1>4. PICK w : w = [i \in DOMAIN exits' |-> Counted(exits'[i])]
  OBVIOUS
<1>5. w \in [1..Len(exits') -> Nat]
  BY <1>2, <1>3, <1>4
<1> QED
  BY <1>2, <1>3, <1>4, <1>5, TotalTyped DEF DueQty

LEMMA DueFalls ==
  ASSUME ExchangeT, ExchangeT', NEW u \in [1..Len(exits) -> Nat],
         Len(exits') = Len(exits),
         \A i \in 1..Len(exits) : Counted(exits[i]) = u[i] + Counted(exits'[i])
  PROVE  DueQty = Total(u, Len(exits)) + DueQty'
<1>1. /\ Len(exits) \in Nat /\ DOMAIN exits = 1..Len(exits)
      /\ \A i \in 1..Len(exits) : exits[i] \in Exit /\ Counted(exits[i]) \in Nat
  BY DueTyped
<1>2. /\ Len(exits') \in Nat /\ DOMAIN exits' = 1..Len(exits')
      /\ \A i \in 1..Len(exits') : exits'[i] \in Exit /\ Counted(exits'[i]) \in Nat
  BY DueNext
<1>3. PICK m \in Nat : m = Len(exits)
  BY <1>1
<1>4. PICK w : w = [i \in DOMAIN exits |-> Counted(exits[i])]
  OBVIOUS
<1>5. PICK v : v = [i \in DOMAIN exits' |-> Counted(exits'[i])]
  OBVIOUS
<1>6. w \in [1..m -> Nat] /\ v \in [1..m -> Nat] /\ u \in [1..m -> Nat]
  BY <1>1, <1>2, <1>3, <1>4, <1>5
<1>7. \A i \in 1..m : w[i] = u[i] + v[i]
  BY <1>1, <1>2, <1>3, <1>4, <1>5
<1>8. Total(w, m) = Total(u, m) + Total(v, m)
  BY <1>6, <1>7, TotalSplits
<1>9. DueQty = Total(w, m) /\ DueQty' = Total(v, m)
  BY <1>3, <1>4, <1>5 DEF DueQty
<1> QED
  BY <1>3, <1>8, <1>9

\* A pass that reads the history books what is due: the events of what it reads are
\* in.
LEMMA HistoryDue ==
  ASSUME ExchangeT, ExchangeT', StreamFirst, NEW r
  PROVE  /\ InOrder(r) => HistoryQty(r) <= DueQty
         /\ ReadHistory(r) => DueQty = HistoryQty(r) + DueQty'
         /\ exits' = [i \in DOMAIN exits |-> [exits[i] EXCEPT !.booked = TRUE, !.qty = 0]]
              => DueQty' = 0
<1>1. /\ Len(exits) \in Nat /\ DOMAIN exits = 1..Len(exits)
      /\ \A i \in 1..Len(exits) : exits[i] \in Exit /\ Counted(exits[i]) \in Nat
  BY DueTyped
<1>2. PICK u : u = [i \in DOMAIN exits |-> IF i \in Unbooked(r) THEN exits[i].qty ELSE 0]
  OBVIOUS
<1>3. u \in [1..Len(exits) -> Nat] /\ HistoryQty(r) = Total(u, Len(exits))
  BY <1>1, <1>2 DEF Exit, HistoryQty
<1>4. ASSUME InOrder(r) PROVE \A i \in Unbooked(r) : ~exits[i].booked /\ ~exits[i].due
  BY <1>4 DEF InOrder, Unbooked
<1>5. ASSUME InOrder(r) PROVE HistoryQty(r) <= DueQty
  <2>1. PICK w : w = [i \in DOMAIN exits |-> Counted(exits[i])]
    OBVIOUS
  <2>2. PICK v : v = [i \in DOMAIN exits |-> IF i \in Unbooked(r) THEN 0 ELSE w[i]]
    OBVIOUS
  <2>3. \A i \in 1..Len(exits) : i \in Unbooked(r) => w[i] = exits[i].qty
    BY <1>1, <1>4, <1>5, <2>1 DEF Counted
  <2>4. w \in [1..Len(exits) -> Nat]
    BY <1>1, <2>1
  <2>5. v \in [1..Len(exits) -> Nat] /\ \A i \in 1..Len(exits) : w[i] = u[i] + v[i]
    BY <1>1, <1>2, <2>2, <2>3, <2>4
  <2>6. Total(w, Len(exits)) = Total(u, Len(exits)) + Total(v, Len(exits))
    BY <1>1, <1>3, <2>4, <2>5, TotalSplits
  <2>7. Total(v, Len(exits)) \in Nat /\ Total(u, Len(exits)) \in Nat
    BY <1>1, <1>3, <2>5, TotalTyped
  <2> QED
    BY <1>3, <2>1, <2>6, <2>7 DEF DueQty
<1>6. ASSUME ReadHistory(r) PROVE DueQty = HistoryQty(r) + DueQty'
  <2>1. /\ InOrder(r)
        /\ exits' = [i \in 1..Len(exits) |-> [exits[i] EXCEPT !.booked = @ \/ i \in Unbooked(r)]]
    BY <1>1, <1>6 DEF ReadHistory
  <2>2. Len(exits') = Len(exits)
    BY <1>1, <2>1 DEF ExchangeT
  <2>3. \A i \in 1..Len(exits) : Counted(exits[i]) = u[i] + Counted(exits'[i])
    <3> SUFFICES ASSUME NEW i \in 1..Len(exits)
                 PROVE  Counted(exits[i]) = u[i] + Counted(exits'[i])
      OBVIOUS
    <3>1. exits[i] \in Exit /\ Counted(exits[i]) \in Nat
      BY <1>1
    <3>2. CASE i \in Unbooked(r)
      <4>1. u[i] = exits[i].qty /\ Counted(exits[i]) = exits[i].qty
        BY <1>1, <1>2, <1>4, <2>1, <3>2 DEF Counted
      <4>2. exits'[i].booked /\ ~exits'[i].due
        BY <1>4, <2>1, <3>1, <3>2 DEF Exit
      <4> QED
        BY <3>1, <4>1, <4>2 DEF Counted
    <3>3. CASE i \notin Unbooked(r)
      <4>1. exits'[i] = exits[i]
        BY <2>1, <3>1, <3>3 DEF Exit
      <4> QED
        BY <1>1, <1>2, <3>1, <3>3, <4>1
    <3> QED
      BY <3>2, <3>3
  <2> QED
    BY <1>3, <2>2, <2>3, DueFalls
<1>7. ASSUME exits' = [i \in DOMAIN exits |-> [exits[i] EXCEPT !.booked = TRUE, !.qty = 0]]
      PROVE  DueQty' = 0
  <2>1. DOMAIN exits' = 1..Len(exits) /\ Len(exits') = Len(exits)
    <3>1. exits' = [i \in 1..Len(exits) |-> [exits[i] EXCEPT !.booked = TRUE, !.qty = 0]]
      BY <1>1, <1>7
    <3>2. DOMAIN exits' = 1..Len(exits)
      BY <3>1
    <3>3. Len(exits') \in Nat /\ DOMAIN exits' = 1..Len(exits')
      BY DueNext
    <3> QED
      BY <1>1, <3>2, <3>3
  <2>2. \A i \in 1..Len(exits) : Counted(exits'[i]) = 0
    BY <1>1, <1>7 DEF Exit, Counted
  <2>3. PICK w : w = [i \in DOMAIN exits' |-> Counted(exits'[i])]
    OBVIOUS
  <2>4. w \in [1..Len(exits) -> Nat] /\ \A i \in 1..Len(exits) : w[i] = 0
    BY <2>1, <2>2, <2>3
  <2>5. 0 \in 0..Len(exits)
    BY <1>1
  <2>6. Total(w, Len(exits)) = 0
    BY <1>1, <2>4, <2>5, TotalOfOne
  <2> QED
    BY <2>1, <2>3, <2>6 DEF DueQty
<1> QED
  BY <1>5, <1>6, <1>7

\* an event is handled, or lost; an order is filled
LEMMA ExitDue ==
  ASSUME ExchangeT, ExchangeT'
  PROVE  /\ \A i \in DOMAIN exits :
              /\ exits[i].due /\ exits' = [exits EXCEPT ![i].due = FALSE, ![i].booked = TRUE]
                   => DueQty = exits[i].qty + DueQty'
              /\ exits[i].due /\ exits' = [exits EXCEPT ![i].due = FALSE] => DueQty' <= DueQty
         /\ \A x \in Exit : exits' = Append(exits, x) => DueQty' = DueQty + Counted(x)
<1>1. /\ Len(exits) \in Nat /\ DOMAIN exits = 1..Len(exits) /\ DueQty \in Nat
      /\ \A i \in 1..Len(exits) : exits[i] \in Exit /\ Counted(exits[i]) \in Nat
  BY DueTyped
<1>2. ASSUME NEW i \in DOMAIN exits, exits[i].due,
             exits' = [exits EXCEPT ![i].due = FALSE, ![i].booked = TRUE]
      PROVE  DueQty = exits[i].qty + DueQty'
  <2>1. PICK u : u = [k \in 1..Len(exits) |-> IF k = i THEN exits[i].qty ELSE 0]
    OBVIOUS
  <2>2. u \in [1..Len(exits) -> Nat] /\ i \in 0..Len(exits) /\ i # 0
    BY <1>1, <2>1 DEF Exit
  <2>3. Total(u, Len(exits)) = exits[i].qty
    <3>1. \A k \in 1..Len(exits) : k # i => u[k] = 0
      BY <2>1
    <3>2. u[i] = exits[i].qty
      BY <1>1, <2>1
    <3> QED
      BY <1>1, <2>2, <3>1, <3>2, TotalOfOne
  <2>4. /\ Len(exits') = Len(exits) /\ exits'[i].booked /\ ~exits'[i].due
        /\ \A k \in 1..Len(exits) : k # i => exits'[k] = exits[k]
    BY <1>1, <1>2 DEF Exit
  <2>5. \A k \in 1..Len(exits) : Counted(exits[k]) = u[k] + Counted(exits'[k])
    <3> SUFFICES ASSUME NEW k \in 1..Len(exits) PROVE Counted(exits[k]) = u[k] + Counted(exits'[k])
      OBVIOUS
    <3>1. CASE k = i
      <4>1. Counted(exits[i]) = exits[i].qty /\ Counted(exits'[i]) = 0 /\ u[i] = exits[i].qty
        BY <1>1, <1>2, <2>1, <2>4 DEF Counted
      <4> QED
        BY <1>1, <3>1, <4>1
    <3>2. CASE k # i
      BY <1>1, <2>1, <2>4, <3>2
    <3> QED
      BY <3>1, <3>2
  <2> QED
    BY <2>2, <2>3, <2>4, <2>5, DueFalls
<1>3. ASSUME NEW i \in DOMAIN exits, exits[i].due, exits' = [exits EXCEPT ![i].due = FALSE]
      PROVE  DueQty' <= DueQty
  <2>1. PICK u : u = [k \in 1..Len(exits) |->
                        IF k = i /\ exits[i].booked THEN exits[i].qty ELSE 0]
    OBVIOUS
  <2>2. u \in [1..Len(exits) -> Nat]
    BY <1>1, <2>1 DEF Exit
  <2>3. /\ Len(exits') = Len(exits) /\ ~exits'[i].due /\ exits'[i].booked = exits[i].booked
        /\ exits'[i].qty = exits[i].qty
        /\ \A k \in 1..Len(exits) : k # i => exits'[k] = exits[k]
    BY <1>1, <1>3 DEF Exit
  <2>4. \A k \in 1..Len(exits) : Counted(exits[k]) = u[k] + Counted(exits'[k])
    <3> SUFFICES ASSUME NEW k \in 1..Len(exits) PROVE Counted(exits[k]) = u[k] + Counted(exits'[k])
      OBVIOUS
    <3>1. CASE k = i
      <4>1. exits[i].qty \in Nat
        BY <1>1 DEF Exit
      <4> QED
        BY <1>1, <1>3, <2>1, <2>3, <3>1, <4>1 DEF Counted
    <3>2. CASE k # i
      BY <1>1, <2>1, <2>3, <3>2
    <3> QED
      BY <3>1, <3>2
  <2>5. DueQty = Total(u, Len(exits)) + DueQty'
    BY <2>2, <2>3, <2>4, DueFalls
  <2>6. Total(u, Len(exits)) \in Nat
    BY <1>1, <2>2, TotalTyped
  <2>7. DueQty' \in Nat
    BY DueNext
  <2> QED
    BY <1>1, <2>5, <2>6, <2>7
<1>4. ASSUME NEW x \in Exit, exits' = Append(exits, x)
      PROVE  DueQty' = DueQty + Counted(x)
  <2>1. PICK m \in Nat : m = Len(exits)
    BY <1>1
  <2>2. /\ Len(exits') = m + 1 /\ DOMAIN exits' = 1..(m + 1) /\ exits'[m + 1] = x
        /\ \A i \in 1..m : exits'[i] = exits[i]
    BY <1>4, <2>1 DEF ExchangeT
  <2>3. Counted(x) \in Nat
    BY DEF Counted, Exit
  <2>4. PICK w : w = [i \in DOMAIN exits |-> Counted(exits[i])]
    OBVIOUS
  <2>5. PICK v : v = [i \in DOMAIN exits' |-> Counted(exits'[i])]
    OBVIOUS
  <2>6. w \in [1..m -> Nat]
    BY <1>1, <2>1, <2>4
  <2>7. v \in [1..(m + 1) -> Nat] /\ v[m + 1] = Counted(x) /\ \A i \in 1..m : v[i] = w[i]
    BY <1>1, <2>1, <2>2, <2>3, <2>4, <2>5
  <2>8. Total(v, m + 1) = Total(w, m) + v[m + 1]
    BY <2>6, <2>7, TotalGrows
  <2>9. DueQty = Total(w, m) /\ DueQty' = Total(v, m + 1)
    BY <2>1, <2>2, <2>4, <2>5 DEF DueQty
  <2> QED
    BY <2>7, <2>8, <2>9
<1> QED
  BY <1>2, <1>3, <1>4

LEMMA Tasked == "main" \in Tasks /\ "stream" \in Others /\ Reconcilers \subseteq Others
BY TaskAssumption DEF Tasks, Others

\* while one pass sells no other task but "main" does
LEMMA OneSells ==
  ASSUME Undisturbed, Typed, Places, NEW t \in Reconcilers, task[t].at \in Dumping
  PROVE  \A s \in Others : s # t => SoldBy(s) = 0 /\ ~At(s, "flat")
<1>1. MaxCrossings # 0
  BY Tasked DEF Places, Lawful, Others
<1>2. \A s \in Others : s # t => s = "stream"
  BY <1>1 DEF Undisturbed, Others, Tasks
<1>3. task["stream"].at \in {"idle", "exit"}
  BY DEF Places, Lawful, Tasks
<1> QED
  BY <1>2, <1>3 DEF SoldBy, SoldLabels, At

\* no pass that is not selling, and not the stream, has a sale to book
LEMMA OthersSold ==
  ASSUME Typed, Places, NEW s \in Others, SoldBy(s) # 0
  PROVE  s \in Reconcilers /\ task[s].at \in Dumping
<1>1. Lawful(s, task[s].at) /\ task[s].at \in SoldLabels
  BY DEF Places, SoldBy, Others
<1> QED
  BY <1>1 DEF Lawful, SoldLabels, Dumping, SyncLabels, SharedLabels, Others, Tasks

\* a step that changes one task and neither quantities nor exits
LEMMA Quiet ==
  ASSUME Typed, Typed', BooksInv, NEW t \in Tasks, NEW l, Moved(t, l), Lawful(t, l),
         task[t].at \notin SoldLabels \cup {"log"}, l \notin SoldLabels \cup {"log"},
         UNCHANGED <<own, foreign, lag, crossed, exits>>, UNCHANGED lots,
         \A c \in conds' : c.ours,
         l = "flat" => t # "main" /\ FlatSafe,
         \/ UNCHANGED claim /\ l # "order"
         \/ t = "main" /\ (l = "order" => claim'.status = "active" /\ claim'.inTTL)
  PROVE  BooksInv'
<1>1. \A s \in Tasks : s # t => task'[s] = task[s]
  BY DEF Moved
<1>2. task'[t].at = l
  BY DEF Moved
<1>3. DueQty' = DueQty
  BY DEF DueQty
<1>4. \A s \in Tasks : SoldBy(s)' = SoldBy(s)
  BY <1>1, <1>2 DEF SoldBy
<1>5. Unlogged' = Unlogged
  BY <1>1, <1>2, Tasked DEF Unlogged, At
<1>6. MainSold' <=> MainSold
  BY <1>1, <1>2, Tasked DEF MainSold
<1>7. own' = own /\ young' = young /\ old' = old /\ lag' = lag /\ Managed' = Managed
  BY DEF lots, Managed
<1>8. Others' = Others /\ Others \subseteq Tasks
  BY DEF Others, Tasks
<1>9. Alone'
  BY DEF BooksInv, Alone
<1>10. Places'
  <2>1. \A s \in Tasks : Lawful(s, task'[s].at)
    BY <1>1, <1>2 DEF BooksInv, Places
  <2> QED
    BY <2>1 DEF BooksInv, Places, Tasks, Lawful
<1>11. (Kept \/ Gone)'
  <2>1. Kept \/ Gone
    BY DEF BooksInv
  <2>2. SoldBy("main")' = SoldBy("main") /\ \A s \in Others : SoldBy(s)' = SoldBy(s)
    BY <1>4, <1>8, Tasked
  <2> QED
    BY <1>3, <1>5, <1>6, <1>7, <1>8, <2>1, <2>2 DEF Kept, Gone
<1>12. FlatSafe => FlatSafe'
  <2>1. SoldBy("main")' = SoldBy("main")
    BY <1>4, Tasked
  <2> QED
    BY <1>5, <1>6, <1>7, <2>1 DEF FlatSafe
<1>13. FlatOK'
  BY <1>1, <1>2, <1>12, Tasked DEF BooksInv, FlatOK, At, Others
<1>14. LagOK'
  BY <1>1, <1>2, <1>7, Tasked DEF BooksInv, LagOK, At
<1>15. ClaimOK'
  BY <1>1, <1>2, Tasked DEF BooksInv, ClaimOK
<1>16. LogOK'
  BY <1>1, <1>2, Tasked DEF BooksInv, LogOK, At
<1> QED
  BY <1>9, <1>10, <1>11, <1>13, <1>14, <1>15, <1>16 DEF BooksInv

\* exits are booked by a task that is not selling
LEMMA Booking ==
  ASSUME Typed, Typed', BooksInv, NEW t \in Others, NEW l, Moved(t, l), Lawful(t, l),
         task[t].at \notin SoldLabels, l \notin SoldLabels \cup {"flat"},
         UNCHANGED <<own, foreign, lag, crossed, conds, claim>>,
         NEW n \in Nat, BookExit(n), DueQty = n + DueQty'
  PROVE  BooksInv'
<1>1. \A s \in Tasks : s # t => task'[s] = task[s]
  BY DEF Moved
<1>2. task'[t].at = l /\ task'["main"] = task["main"]
  BY <1>1, Tasked DEF Moved, Others
<1>3. /\ young' \in Nat /\ old' \in Nat
      /\ young + old <= young' + old' + n
      /\ young' <= young /\ young <= young' + n
      /\ young' < young => old' = 0
      /\ young > 0 \/ old = 0 => young' > 0 \/ old' = 0
      /\ n = 0 => young' = young /\ old' = old
  BY BookExitFacts DEF Typed
<1>0. Managed = young + old /\ Managed' = young' + old'
  BY DEF Managed
<1>4. /\ \A s \in Others : SoldBy(s)' = SoldBy(s) /\ SoldBy(s) \in Nat
      /\ SoldBy("main")' = SoldBy("main") /\ SoldBy("main") \in Nat
      /\ Unlogged' = Unlogged /\ Unlogged \in Nat
      /\ MainSold' <=> MainSold
  <2>1. \A s \in Others : SoldBy(s)' = SoldBy(s)
    BY <1>1, <1>2 DEF SoldBy, Others
  <2> QED
    BY <1>2, <2>1, SoldTyped, Tasked DEF SoldBy, Unlogged, MainSold, At, Others
<1>5. own \in Nat /\ young \in Nat /\ old \in Nat /\ DueQty \in Nat
  BY DueTyped DEF Typed, ExchangeT, BooksT
<1>6. DueQty' \in Nat
  BY DueNext DEF Typed
<1>7. Others' = Others /\ own' = own /\ lag' = lag
  BY DEF Others, Tasks
<1>8. Kept => Kept'
  <2> SUFFICES ASSUME Kept, NEW s \in Others
               PROVE  own' + DueQty' + SoldBy("main")' + SoldBy(s)' <= Managed' + Unlogged'
    BY <1>7 DEF Kept
  <2>1. PICK d \in Nat, e \in Nat : d = DueQty /\ e = DueQty'
    BY <1>5, <1>6
  <2>2. PICK m \in Nat, k \in Nat : m = Managed /\ k = Managed'
    <3>1. young + old \in Nat
      BY <1>5
    <3>2. PICK p \in Nat, q \in Nat : p = young' /\ q = old'
      BY <1>3, Zenon
    <3>3. p + q \in Nat
      OBVIOUS
    <3>4. young' + old' \in Nat
      BY <3>2, <3>3, Zenon
    <3> QED
      BY <1>0, <3>1, <3>4, Zenon
  <2>3. d = n + e /\ m <= k + n
    <3>1. d = n + e
      BY <2>1
    <3>2. m = young + old /\ k = young' + old'
      BY <1>0, <2>2
    <3> QED
      BY <1>3, <1>5, <3>1, <3>2
  <2>4. PICK x \in Nat, y \in Nat, u \in Nat :
          x = SoldBy("main") /\ y = SoldBy(s) /\ u = Unlogged
    BY <1>4
  <2>5. own + d + x + y <= m + u
    BY <2>1, <2>2, <2>4 DEF Kept
  <2>6. own + e + x + y <= k + u
    BY <1>5, <2>3, <2>5
  <2> QED
    BY <1>4, <1>7, <2>1, <2>2, <2>4, <2>6
<1>9. Gone => Gone' /\ n = 0
  <2> SUFFICES ASSUME Gone PROVE Gone' /\ n = 0
    OBVIOUS
  <2>1. PICK d \in Nat, e \in Nat : d = DueQty /\ e = DueQty'
    BY <1>5, <1>6
  <2>2. d = n + e /\ d = 0
    BY <2>1 DEF Gone
  <2>3. n = 0 /\ e = 0
    BY <2>2
  <2>4. DueQty' = 0
    BY <2>1, <2>3, Zenon
  <2> QED
    BY <1>4, <1>7, <2>3, <2>4 DEF Gone
<1>10. FlatSafe => FlatSafe'
  <2>1. CASE Gone
    BY <1>9, <1>4, <1>7, <2>1 DEF Gone, FlatSafe
  <2>2. CASE Kept
    <3>1. CASE young' = young
      BY <1>4, <1>7, <3>1 DEF FlatSafe
    <3>2. CASE young' < young
      <4>0. old' = 0 /\ young' \in Nat
        BY <1>3, <3>2
      <4>1. Managed' = young' + 0
        BY <1>0, <4>0
      <4>2. own' + DueQty' + SoldBy("main")' + SoldBy(t)' <= Managed' + Unlogged'
        BY <1>7, <1>8, <2>2 DEF Kept
      <4>3. own + SoldBy("main") <= young' + Unlogged
        BY <1>3, <1>4, <1>5, <1>6, <1>7, <4>1, <4>2
      <4> QED
        BY <1>4, <1>7, <4>3 DEF FlatSafe
    <3> QED
      BY <1>3, <1>5, <3>1, <3>2
  <2> QED
    BY <2>1, <2>2 DEF BooksInv
<1>11. Alone'
  BY DEF BooksInv, Alone
<1>12. Places'
  <2>1. \A s \in Tasks : Lawful(s, task'[s].at)
    BY <1>1, <1>2 DEF BooksInv, Places
  <2> QED
    BY <2>1 DEF BooksInv, Places, Tasks, Lawful
<1>13. FlatOK'
  BY <1>1, <1>2, <1>10, Tasked DEF BooksInv, FlatOK, At, Others
<1>14. LagOK'
  BY <1>2, <1>3, <1>7 DEF BooksInv, LagOK, At
<1>15. ClaimOK' /\ LogOK'
  BY <1>2 DEF BooksInv, ClaimOK, LogOK, At
<1> QED
  BY <1>8, <1>9, <1>11, <1>12, <1>13, <1>14, <1>15 DEF BooksInv

LEMMA MainLawful == \A l : Lawful("main", l)
BY TaskAssumption DEF Lawful

LEMMA OpeningKept ==
  ASSUME Undisturbed, Typed, Typed', BooksInv,
         \/ OpenRefused \/ OpenStart \/ OpenUnfilled \/ OpenFilled \/ OpenLosesFill
         \/ OpenLogged \/ Precheck \/ Attached
  PROVE  BooksInv'
<1>1. "main" \in Tasks /\ "main" \in {"main"} /\ \A l : Lawful("main", l)
  BY Tasked, MainLawful
<1>2. \A c \in conds : c.ours
  BY DEF BooksInv, Alone
<1>3. CASE OpenRefused
  <2>1. Moved("main", "idle") /\ At("main", "idle")
    BY <1>3 DEF OpenRefused, Moved, At
  <2> QED
    BY <1>1, <1>2, <1>3, <2>1, Quiet DEF OpenRefused, exchange, lots, claims, SoldLabels, At
<1>4. CASE OpenStart
  <2>1. Moved("main", "order") /\ At("main", "idle") /\ claim'.status = "active" /\ claim'.inTTL
    BY <1>1, <1>4, Moves DEF OpenStart
  <2> QED
    BY <1>1, <1>2, <1>4, <2>1, Quiet DEF OpenStart, exchange, SoldLabels, At
<1>5. CASE OpenUnfilled
  <2>1. Moved("main", "idle") /\ At("main", "order")
    BY <1>1, <1>5, Moves DEF OpenUnfilled
  <2> QED
    BY <1>1, <1>2, <1>5, <2>1, Quiet DEF OpenUnfilled, exchange, SoldLabels, At
<1>6. CASE OpenFilled
  <2>1. PICK n \in 1..OrderQty : own' = own + n /\ lag' = n /\ Hold("main", "log", n, {})
    BY <1>6 DEF OpenFilled
  <2>2. n \in Nat /\ n > 0 /\ n = n + 0
    BY <2>1, BoundAssumption
  <2>3. Moved("main", "log") /\ task'["main"].qty = n /\ At("main", "order")
    BY <1>1, <1>6, <2>1, Moves DEF OpenFilled
  <2>4. \A s \in Others : task'[s] = task[s] /\ SoldBy(s)' = SoldBy(s)
    BY <2>3 DEF Moved, Others, SoldBy
  <2>5. SoldBy("main") = 0 /\ SoldBy("main")' = 0 /\ Unlogged = 0 /\ Unlogged' = n /\ ~MainSold
    BY <2>3 DEF Moved, SoldBy, SoldLabels, Unlogged, At, MainSold
  <2>6. /\ UNCHANGED <<foreign, conds, crossed, exits, young, old, claim>>
        /\ DueQty' = DueQty /\ Managed' = Managed /\ Others' = Others
    BY <1>6 DEF OpenFilled, books, DueQty, Managed, Others, Tasks
  <2>7. /\ own \in Nat /\ young \in Nat /\ DueQty \in Nat /\ Managed \in Nat
        /\ \A s \in Others : SoldBy(s) \in Nat
    BY DueTyped, AnswerTyped, SoldTyped DEF Typed, ExchangeT, BooksT, Others
  <2>8. Kept'
    <3>1. Kept
      BY <2>5 DEF BooksInv, Gone
    <3>2. \A s \in Others : own + DueQty + 0 + SoldBy(s) <= Managed + 0
      BY <2>5, <3>1 DEF Kept
    <3>3. \A s \in Others : own + n + DueQty + 0 + SoldBy(s) <= Managed + n
      BY <2>2, <2>7, <3>2
    <3> QED
      BY <2>1, <2>4, <2>5, <2>6, <3>3 DEF Kept
  <2>9. FlatSafe => FlatSafe'
    <3>1. own + 0 <= young + 0 => own + n + 0 <= young + n
      BY <2>2, <2>7
    <3> QED
      BY <2>1, <2>5, <2>6, <3>1 DEF FlatSafe
  <2>10. FlatOK'
    BY <2>4, <2>9, Tasked DEF BooksInv, FlatOK, At
  <2>11. Places'
    <3>1. \A s \in Tasks : Lawful(s, task'[s].at)
      BY <1>1, <2>4 DEF BooksInv, Places, Others
    <3> QED
      BY <2>6, <3>1 DEF BooksInv, Places, Tasks, Lawful
  <2> QED
    BY <2>2, <2>3, <2>6, <2>8, <2>10, <2>11
       DEF BooksInv, Alone, LagOK, ClaimOK, LogOK, At, Moved
<1>7. CASE OpenLosesFill
  BY <1>7 DEF OpenLosesFill, Fault, Undisturbed
<1>8. CASE OpenLogged
  <2>1. /\ At("main", "log") /\ Moved("main", "precheck") /\ task["main"].qty \in Nat
        /\ young' = young + task["main"].qty /\ task["main"].qty > 0
    BY <1>1, <1>8, Moves, SoldTyped DEF OpenLogged, BooksInv, LogOK
  <2>2. \A s \in Others : task'[s] = task[s] /\ SoldBy(s)' = SoldBy(s)
    BY <2>1 DEF Moved, Others, SoldBy
  <2>3. /\ SoldBy("main") = 0 /\ SoldBy("main")' = 0 /\ Unlogged = task["main"].qty
        /\ Unlogged' = 0 /\ ~MainSold
    BY <2>1 DEF Moved, SoldBy, SoldLabels, Unlogged, At, MainSold
  <2>4. /\ UNCHANGED <<own, foreign, lag, conds, crossed, exits, old>>
        /\ DueQty' = DueQty /\ Others' = Others
    BY <1>8 DEF OpenLogged, exchange, DueQty, Others, Tasks
  <2>5. /\ own \in Nat /\ young \in Nat /\ old \in Nat /\ DueQty \in Nat
        /\ \A s \in Others : SoldBy(s) \in Nat
    BY DueTyped, SoldTyped DEF Typed, ExchangeT, BooksT, Others
  <2>6. Managed' + 0 = Managed + task["main"].qty
    BY <2>1, <2>4, <2>5 DEF Managed
  <2>7. Kept'
    BY <2>2, <2>3, <2>4, <2>6 DEF BooksInv, Kept, Gone
  <2>8. FlatSafe => FlatSafe'
    <3>1. young' + 0 = young + task["main"].qty
      BY <2>1, <2>5
    <3> QED
      BY <2>3, <2>4, <3>1 DEF FlatSafe
  <2>9. FlatOK'
    BY <2>2, <2>8, Tasked DEF BooksInv, FlatOK, At
  <2>10. Places'
    <3>1. \A s \in Tasks : Lawful(s, task'[s].at)
      BY <1>1, <2>2 DEF BooksInv, Places, Others
    <3> QED
      BY <2>4, <3>1 DEF BooksInv, Places, Tasks, Lawful
  <2>11. young' > 0
    BY <2>1, <2>5
  <2> QED
    BY <2>1, <2>4, <2>7, <2>9, <2>10, <2>11
       DEF BooksInv, Alone, LagOK, ClaimOK, LogOK, At, Moved
<1>9. CASE Precheck
  <2>1. PICK l \in {"undo", "attach"} : Moved("main", l)
    <3>1. Goto("main", "undo") => Moved("main", "undo")
      BY <1>1, Moves
    <3>2. ASSUME NEW p, task' = [task EXCEPT !["main"] =
                    [@ EXCEPT !.at = "attach", !.need = Kinds, !.trig = plan + 1,
                              !.qty = Least(p, task["main"].qty)]]
          PROVE  Moved("main", "attach")
      BY <1>1, <3>2 DEF Moved, Typed, EngineT, Works, Task
    <3> QED
      BY <1>9, <3>1, <3>2 DEF Precheck
  <2> QED
    BY <1>1, <1>2, <1>9, <2>1, Quiet DEF Precheck, exchange, claims, SoldLabels, At
<1>10. CASE Attached
  <2>1. PICK l \in {"idle", "uncancel"} : Moved("main", l)
    BY <1>1, <1>10, Moves DEF Attached
  <2> QED
    BY <1>1, <1>2, <1>10, <2>1, Quiet DEF Attached, exchange, SoldLabels, At
<1> QED
  BY <1>3, <1>4, <1>5, <1>6, <1>7, <1>8, <1>9, <1>10

\* the stream only cancels; any task may go on inside a flow that all may be in
LEMMA SharedLawful ==
  ASSUME Typed, Places, NEW t \in Tasks
  PROVE  /\ task[t].at \notin {"idle", "exit"} => t # "stream"
         /\ t # "stream" => \A l \in SharedLabels \ Dumping : Lawful(t, l)
         /\ t # "stream" /\ (t = "main" \/ MaxCrossings # 0) => \A l \in SharedLabels : Lawful(t, l)
         /\ Lawful(t, "idle") /\ Lawful(t, task[t].at)
         /\ task[t].at \in Dumping => t = "main" \/ (t \in Reconcilers /\ MaxCrossings # 0)
         /\ t # "main" => task[t].at \in SyncLabels \cup SharedLabels
<1>1. Lawful(t, task[t].at)
  BY DEF Places
<1>2. t = "main" \/ t = "stream" \/ t \in Reconcilers
  BY DEF Tasks
<1>3. "stream" \notin Reconcilers /\ "main" \notin Reconcilers
  BY TaskAssumption
<1>4. CASE t = "main"
  <2>1. \A l : Lawful(t, l)
    BY <1>4, MainLawful
  <2>2. t # "stream"
    BY <1>4
  <2> QED
    BY <1>4, <2>1, <2>2
<1>5. CASE t = "stream"
  <2>1. task[t].at \in {"idle", "exit"}
    BY <1>1, <1>5 DEF Lawful
  <2>2. Lawful(t, "idle")
    BY <1>3, <1>5 DEF Lawful
  <2> QED
    BY <1>1, <1>3, <1>5, <2>1, <2>2 DEF SharedLabels, Dumping
<1>6. CASE t \in Reconcilers
  <2>1. t # "stream" /\ t # "main"
    BY <1>3, <1>6
  <2>2. task[t].at \in SyncLabels \cup SharedLabels /\ (MaxCrossings = 0 => task[t].at \notin Dumping)
    BY <1>1, <1>6 DEF Lawful
  <2>3. \A l \in SharedLabels : l \notin Dumping \/ MaxCrossings # 0 => Lawful(t, l)
    BY <1>6, <2>1 DEF Lawful
  <2>4. "idle" \in SharedLabels \ Dumping
    BY DEF SharedLabels, Dumping
  <2> QED
    BY <1>1, <1>6, <2>1, <2>2, <2>3, <2>4
<1> QED
  BY <1>2, <1>4, <1>5, <1>6

LEMMA PlacingKept ==
  ASSUME Typed, Typed', BooksInv, NEW t \in Tasks, Placed(t) \/ NotPlaced(t)
  PROVE  BooksInv'
<1>1. Moved(t, task[t].at)
  <2>1. \A k : task' = [task EXCEPT ![t].need = @ \ {k}, ![t].got = @ \cup {k}]
                 \/ task' = [task EXCEPT ![t].need = @ \ {k}]  => Moved(t, task[t].at)
    <3>1. task \in [Tasks -> Works] /\ task[t] \in Works
      BY DEF Typed, EngineT
    <3> QED
      BY <3>1 DEF Moved, Works, Task
  <2> QED
    BY <2>1 DEF Placed, NotPlaced
<1>2. task[t].at \in Placing /\ task[t].at \notin SoldLabels \cup {"log", "order", "flat"}
  BY DEF Placed, NotPlaced, Placing, SoldLabels
<1>3. \A c \in conds' : c.ours
  <2>1. \A c \in conds : c.ours
    BY DEF BooksInv, Alone
  <2>2. CASE Placed(t)
    <3>1. PICK kind \in Kinds : kind = NextKind(t)
      BY DEF NextKind, Kinds
    <3>2. PICK q : /\ q = IF kind = "SL" \/ At(t, "repairplace") THEN task[t].qty
                          ELSE TargetQty(task[t].qty)
                   /\ conds' = WithOrder(kind, q, task[t].trig)
      BY <2>2, <3>1 DEF Placed
    <3>3. task[t].qty \in Nat /\ task[t].trig \in Nat
      BY TaskSet, WorkFields DEF Typed, EngineT
    <3>4. q \in Nat
      BY <3>2, <3>3 DEF TargetQty
    <3>5. NewOrder(kind, q, task[t].trig, TRUE).ours = TRUE
      BY <3>3, <3>4, NewOrderTyped
    <3> QED
      BY <2>1, <3>2, <3>5 DEF WithOrder
  <2>3. CASE NotPlaced(t)
    BY <2>1, <2>3 DEF NotPlaced, exchange
  <2> QED
    BY <2>2, <2>3
<1>4. UNCHANGED <<own, foreign, lag, crossed, exits, claim>> /\ UNCHANGED lots
  BY DEF Placed, NotPlaced, exchange, books, lots
<1>5. Lawful(t, task[t].at)
  BY DEF BooksInv, Places
<1> QED
  BY <1>1, <1>2, <1>3, <1>4, <1>5, Quiet

LEMMA DecisionKept ==
  ASSUME Typed, Typed', BooksInv, CloseStart \/ AdjustStart \/ Adjusted \/ AdjustCancels
  PROVE  BooksInv'
<1>1. "main" \in Tasks /\ \A l : Lawful("main", l)
  BY Tasked, MainLawful
<1>2. \A c \in conds : c.ours
  BY DEF BooksInv, Alone
<1>3. CASE CloseStart
  <2>1. Moved("main", "close") /\ At("main", "idle")
    BY <1>1, <1>3, Moves DEF CloseStart
  <2> QED
    BY <1>1, <1>2, <1>3, <2>1, Quiet DEF CloseStart, exchange, books, lots, SoldLabels, At
<1>4. CASE AdjustStart
  <2>1. Moved("main", "adjust") /\ At("main", "idle")
    <3>1. \A p : task' = [task EXCEPT !["main"] =
            [Idle EXCEPT !.at = "adjust", !.qty = Slice(p), !.seen = conds,
                         !.need = Kinds, !.trig = plan + 1]] => Moved("main", "adjust")
      BY <1>1 DEF Moved, Typed, EngineT, Idle
    <3> QED
      BY <1>4, <3>1 DEF AdjustStart
  <2> QED
    BY <1>1, <1>2, <1>4, <2>1, Quiet DEF AdjustStart, exchange, books, lots, SoldLabels, At
<1>5. CASE Adjusted
  <2>1. PICK l \in {"adjustcancel", "emergency"} : Moved("main", l)
    <3>1. \A u : task' = [task EXCEPT !["main"].at = "adjustcancel", !["main"].seen = {c \in @ : c.kind \in u}]
            => Moved("main", "adjustcancel")
      BY <1>1 DEF Moved, Typed, EngineT, Works, Task
    <3>2. Turn("main", "emergency") => Moved("main", "emergency")
      BY <1>1, Moves
    <3> QED
      BY <1>5, <3>1, <3>2 DEF Adjusted
  <2> QED
    BY <1>1, <1>2, <1>5, <2>1, Quiet DEF Adjusted, exchange, claims, SoldLabels, At
<1>6. CASE AdjustCancels
  <2>1. Moved("main", "idle") /\ At("main", "adjustcancel")
    BY <1>1, <1>6, Moves DEF AdjustCancels
  <2> QED
    BY <1>1, <1>2, <1>6, <2>1, Quiet DEF AdjustCancels, books, lots, SoldLabels, At
<1> QED
  BY <1>3, <1>4, <1>5, <1>6

LEMMA RepairKept ==
  ASSUME Typed, Typed', BooksInv, NEW t \in Tasks,
         Emergency(t) \/ CancelAll(t) \/ Repair(t) \/ RepairCancels(t) \/ Replan(t) \/ Repaired(t)
  PROVE  BooksInv'
<1>1. Places /\ (MaxCrossings = 0 => ~crossed) /\ \A c \in conds : c.ours
  BY DEF BooksInv, Places, Alone
<1>2. task[t].at \in {"emergency", "closecancel", "uncancel", "exit", "repair", "repaircancel",
                      "replan", "repairplace"}
  BY DEF Emergency, CancelAll, Repair, RepairCancels, Replan, Repaired, At
<1>3. \A c \in conds' : c.ours
  BY <1>1 DEF Emergency, CancelAll, Repair, RepairCancels, Replan, Repaired, exchange
<1>4. UNCHANGED <<own, foreign, lag, crossed, exits, claim>> /\ UNCHANGED lots
  BY DEF Emergency, CancelAll, Repair, RepairCancels, Replan, Repaired, exchange, books, lots, claims
<1>5. \E l : Moved(t, l) /\ Lawful(t, l) /\ l \notin SoldLabels \cup {"log", "flat", "order"}
  <2>1. /\ \A l : Goto(t, l) => Moved(t, l)
        /\ \A l, q, u : Hold(t, l, q, u) => Moved(t, l)
        /\ \A l : Turn(t, l) => Moved(t, l)
        /\ Done(t) => Moved(t, "idle")
    BY Moves
  <2>2. Lawful(t, "idle") /\ "idle" \notin SoldLabels \cup {"log", "flat", "order"}
    BY <1>1, SharedLawful DEF SoldLabels
  <2>3. ASSUME t # "stream", NEW l \in SharedLabels \ Dumping, Moved(t, l)
        PROVE  Moved(t, l) /\ Lawful(t, l) /\ l \notin SoldLabels \cup {"log", "flat", "order"}
    BY <1>1, <2>3, SharedLawful DEF SharedLabels, Dumping, SoldLabels
  <2>4. ASSUME t # "stream", t = "main" \/ MaxCrossings # 0, NEW l \in {"emergency", "dump"}, Moved(t, l)
        PROVE  Moved(t, l) /\ Lawful(t, l) /\ l \notin SoldLabels \cup {"log", "flat", "order"}
    BY <1>1, <2>4, SharedLawful DEF SharedLabels, SoldLabels
  <2>5. {"repaircancel", "replan", "repairplace"} \subseteq SharedLabels \ Dumping
    BY DEF SharedLabels, Dumping
  <2>6. ASSUME NEW c, RepairFails(t, c), c => MaxCrossings # 0, t # "stream"
        PROVE  \E l : Moved(t, l) /\ Lawful(t, l) /\ l \notin SoldLabels \cup {"log", "flat", "order"}
    BY <2>1, <2>2, <2>4, <2>6 DEF RepairFails
  <2>7. ASSUME NEW q, PlanRepair(t, q), t # "stream"
        PROVE  \E l : Moved(t, l) /\ Lawful(t, l) /\ l \notin SoldLabels \cup {"log", "flat", "order"}
    <3>1. ASSUME NEW u, task' = [task EXCEPT ![t] = [Idle EXCEPT !.at = "repairplace",
                          !.qty = q, !.need = u, !.trig = plan]]
          PROVE  Moved(t, "repairplace")
      BY <3>1 DEF Moved, Typed, EngineT, Idle
    <3>2. (RepairFails(t, TRUE) /\ crossed) \/ Done(t) \/ Moved(t, "repairplace")
      BY <2>7, <3>1 DEF PlanRepair
    <3> QED
      BY <1>1, <2>1, <2>2, <2>3, <2>5, <2>6, <2>7, <3>2
  <2>8. t # "stream" \/ At(t, "exit")
    BY <1>1, <1>2, SharedLawful DEF At
  <2>9. CASE Emergency(t)
    <3>1. t # "stream" /\ (t = "main" \/ MaxCrossings # 0)
      BY <1>1, <2>8, <2>9, SharedLawful DEF Emergency, At, Dumping
    <3>2. Moved(t, "idle") \/ Moved(t, "dump")
      BY <2>1, <2>9 DEF Emergency
    <3> QED
      BY <2>2, <2>4, <3>1, <3>2
  <2>10. CASE CancelAll(t)
    <3>1. Done(t) \/ (At(t, "uncancel") /\ Goto(t, "undo"))
      <4>1. CASE At(t, "uncancel")
        BY <2>10, <4>1 DEF CancelAll
      <4>2. CASE ~At(t, "uncancel")
        BY <2>10, <4>2 DEF CancelAll
      <4> QED
        BY <4>1, <4>2
    <3>2. At(t, "uncancel") => t = "main"
      BY <1>1, SharedLawful DEF At, SyncLabels, SharedLabels
    <3>3. Lawful("main", "undo") /\ "undo" \notin SoldLabels \cup {"log", "flat", "order"}
      BY MainLawful DEF SoldLabels
    <3> QED
      BY <2>1, <2>2, <3>1, <3>2, <3>3
  <2>11. CASE Repair(t)
    <3>1. t # "stream"
      BY <2>8, <2>11 DEF Repair, At
    <3>2. \/ Done(t) \/ RepairFails(t, FALSE) \/ \E q : PlanRepair(t, q)
          \/ \E q, u : Hold(t, "repaircancel", q, u)
      BY <2>11 DEF Repair
    <3> QED
      BY <2>1, <2>2, <2>3, <2>5, <2>6, <2>7, <3>1, <3>2
  <2>12. CASE RepairCancels(t)
    <3>1. t # "stream"
      BY <2>8, <2>12 DEF RepairCancels, At
    <3>2. RepairFails(t, FALSE) \/ \E q, u : Hold(t, "replan", q, u)
      BY <2>12 DEF RepairCancels
    <3> QED
      BY <2>1, <2>3, <2>5, <2>6, <3>1, <3>2
  <2>13. CASE Replan(t)
    <3>1. t # "stream"
      BY <2>8, <2>13 DEF Replan, At
    <3>2. RepairFails(t, FALSE) \/ \E q : PlanRepair(t, q)
      BY <2>13 DEF Replan
    <3> QED
      BY <2>6, <2>7, <3>1, <3>2
  <2>14. CASE Repaired(t)
    <3>1. t # "stream"
      BY <2>8, <2>14 DEF Repaired, At
    <3>2. RepairFails(t, FALSE) \/ Done(t)
      BY <2>14 DEF Repaired
    <3> QED
      BY <2>1, <2>2, <2>6, <3>1, <3>2
  <2> QED
    BY <2>9, <2>10, <2>11, <2>12, <2>13, <2>14
<1>6. task[t].at \notin SoldLabels \cup {"log"}
  BY <1>2 DEF SoldLabels
<1> QED
  BY <1>3, <1>4, <1>5, <1>6, Quiet

\* a step of the exchange, of time or of others: no task moves
LEMMA Outer ==
  ASSUME Typed, Typed', BooksInv, UNCHANGED <<task, foreign>>, \A c \in conds' : c.ours,
         own' <= own, own' + DueQty' <= own + DueQty, Managed' = Managed,
         young' = young \/ \A r \in Reconcilers : ~At(r, "flat"),
         crossed' = crossed \/ MaxCrossings # 0, LagOK',
         claim' = claim \/ task["main"].at \notin {"order", "log"}
  PROVE  BooksInv'
<1>1. /\ \A s \in Tasks : SoldBy(s)' = SoldBy(s)
      /\ Unlogged' = Unlogged /\ (MainSold' <=> MainSold) /\ Others' = Others
  BY DEF SoldBy, Unlogged, MainSold, Others, Tasks, At
<1>2. Others \subseteq Tasks
  BY DEF Others
<1>3. /\ own \in Nat /\ own' \in Nat /\ DueQty \in Nat /\ DueQty' \in Nat
      /\ Managed \in Nat /\ young \in Nat /\ young' \in Nat
  BY DueTyped, DueNext, AnswerTyped DEF Typed, ExchangeT, BooksT
<1>4. /\ \A s \in Tasks : SoldBy(s) \in Nat
      /\ Unlogged \in Nat
  BY SoldTyped, Tasked
<1>5. Kept => Kept'
  <2> SUFFICES ASSUME Kept, NEW s \in Others
               PROVE  own' + DueQty' + SoldBy("main")' + SoldBy(s)' <= Managed' + Unlogged'
    BY <1>1 DEF Kept
  <2>1. own + DueQty + SoldBy("main") + SoldBy(s) <= Managed + Unlogged
    BY DEF Kept
  <2>2. SoldBy("main")' = SoldBy("main") /\ SoldBy(s)' = SoldBy(s)
    BY <1>1, <1>2, Tasked
  <2>3. SoldBy("main") \in Nat /\ SoldBy(s) \in Nat
    BY <1>2, <1>4, Tasked
  <2>4. PICK a \in Nat, b \in Nat : a = own + DueQty /\ b = own' + DueQty'
    <3>1. own + DueQty \in Nat
      BY <1>3
    <3>2. PICK o \in Nat, d \in Nat : o = own' /\ d = DueQty'
      BY <1>3
    <3>3. o + d \in Nat
      OBVIOUS
    <3> QED
      BY <3>1, <3>2, <3>3
  <2>5. PICK x \in Nat, y \in Nat : x = SoldBy("main") /\ y = SoldBy(s)
    BY <2>3
  <2>6. b <= a
    BY <2>4
  <2>7. a + x + y <= Managed + Unlogged
    BY <2>1, <2>4, <2>5
  <2>8. b + x + y <= Managed + Unlogged
    BY <1>3, <1>4, <2>6, <2>7
  <2> QED
    BY <1>1, <2>2, <2>4, <2>5, <2>8
<1>6. Gone => Gone'
  <2> SUFFICES ASSUME Gone PROVE Gone'
    OBVIOUS
  <2>1. PICK o \in Nat, d \in Nat : o = own' /\ d = DueQty'
    BY <1>3
  <2>2. PICK b \in Nat : b = own + DueQty
    BY <1>3
  <2>3. b = 0
    BY <2>2 DEF Gone
  <2>4. o + d <= b
    BY <2>1, <2>2
  <2>5. own' = 0 /\ DueQty' = 0
    <3>1. o = 0 /\ d = 0
      BY <2>3, <2>4
    <3> QED
      BY <2>1, <3>1, Zenon
  <2> QED
    BY <1>1, <1>2, <2>5 DEF Gone
<1>7. FlatOK'
  <2>1. ASSUME NEW r \in Reconcilers, At(r, "flat") PROVE FlatSafe'
    <3>1. FlatSafe /\ young' = young
      BY <2>1 DEF BooksInv, FlatOK
    <3>2. SoldBy("main")' = SoldBy("main") /\ SoldBy("main") \in Nat
      BY <1>1, <1>4, Tasked
    <3> QED
      BY <1>1, <1>3, <1>4, <3>1, <3>2 DEF FlatSafe
  <2> QED
    BY <2>1 DEF FlatOK, At
<1>8. Alone'
  BY DEF BooksInv, Alone
<1>9. Places'
  BY DEF BooksInv, Places, Tasks, Lawful
<1>10. ClaimOK' /\ LogOK'
  BY DEF BooksInv, ClaimOK, LogOK, At
<1> QED
  BY <1>5, <1>6, <1>7, <1>8, <1>9, <1>10 DEF BooksInv

LEMMA OuterKept ==
  ASSUME Undisturbed, Typed, Typed', BooksInv,
         \/ \E c \in conds : Trigger(c)
         \/ LoseExit \/ Cross \/ ForeignAct \/ Settle \/ Mature \/ ClaimExpires \/ CloseForgotten
         \/ UNCHANGED vars
  PROVE  BooksInv'
<1>1. /\ \A c \in conds : c.ours
      /\ foreign = 0 /\ LagOK /\ ClaimOK
  BY DEF BooksInv, Alone
<1>2. /\ own \in Nat /\ lag \in Nat /\ young \in Nat /\ old \in Nat /\ DueQty \in Nat
      /\ tally["cross"] \in Nat /\ tally["foreign"] \in Nat
  BY DueTyped, LimitDomain DEF Typed, ExchangeT, BooksT, TallyT
<1>3. Limit["cross"] = MaxCrossings /\ Limit["foreign"] = MaxForeign
  BY DEF Limit
<1>4. CASE \E c \in conds : Trigger(c)
  <2>1. PICK c \in conds : Trigger(c)
    BY <1>4
  <2>2. c \in Condition /\ c.qty \in Nat /\ c.ours
    BY <1>1 DEF Typed, ExchangeT, FiniteConds, Condition
  <2>3. PICK n : n = Least(c.qty, own)
    OBVIOUS
  <2>4. n \in Nat /\ n <= own
    BY <1>2, <2>2, <2>3 DEF Least
  <2>5. Live = own
    BY <1>1, <1>2 DEF Live
  <2>6. /\ Sell(n)
        /\ exits' = IF n = 0 THEN exits
                    ELSE Append(exits, [order |-> c, qty |-> n, booked |-> FALSE, due |-> TRUE])
    BY <2>1, <2>2, <2>3, <2>5 DEF Trigger
  <2>7. own' = own - n /\ foreign' = foreign /\ lag' = Least(lag, own')
    <3>1. Least(n, own) = n
      BY <1>2, <2>4 DEF Least
    <3>2. own' = own - n /\ foreign' = 0 - (n - n) /\ lag' = Least(lag, own')
      BY <1>1, <2>6, <3>1 DEF Sell
    <3>3. 0 - (n - n) = 0
      BY <2>4
    <3> QED
      BY <1>1, <3>2, <3>3
  <2>8. DueQty' = DueQty + n
    <3>1. CASE n = 0
      <4>1. exits' = exits
        BY <2>6, <3>1
      <4>2. DueQty' = DueQty
        BY <4>1 DEF DueQty
      <4> QED
        BY <1>2, <3>1, <4>2
    <3>2. CASE n # 0
      <4>1. PICK x : x = [order |-> c, qty |-> n, booked |-> FALSE, due |-> TRUE]
        OBVIOUS
      <4>2. x \in Exit /\ Counted(x) = n
        BY <2>2, <2>4, <4>1 DEF Exit, Counted
      <4>3. exits' = Append(exits, x)
        BY <2>6, <3>2, <4>1
      <4> QED
        BY <4>2, <4>3, ExitDue DEF Typed
    <3> QED
      BY <3>1, <3>2
  <2>9. UNCHANGED <<task, crossed, young, old, claim>> /\ \A d \in conds' : d.ours
    BY <1>1, <2>1 DEF Trigger, books
  <2>10. lag' <= lag /\ own' <= own /\ own' + DueQty' <= own + DueQty /\ own' \in Nat /\ lag' \in Nat
    BY <1>2, <2>4, <2>7, <2>8 DEF Least
  <2>11. LagOK' /\ Managed' = Managed
    BY <1>1, <1>2, <2>9, <2>10 DEF LagOK, At, Managed
  <2> QED
    BY <2>7, <2>9, <2>10, <2>11, Outer
<1>5. CASE LoseExit
  <2>1. DueQty' <= DueQty /\ UNCHANGED <<own, foreign, lag, conds, crossed, young, old, claim, task>>
    BY <1>5, ExitDue DEF LoseExit, books, Typed
  <2>2. LagOK' /\ Managed' = Managed
    BY <1>1, <2>1 DEF LagOK, At, Managed
  <2>3. own' + DueQty' <= own + DueQty /\ own' <= own
    <3>1. DueQty' \in Nat
      BY DueNext DEF Typed
    <3>2. PICK a \in Nat, b \in Nat : a = DueQty /\ b = DueQty'
      BY <1>2, <3>1
    <3>3. own' = own /\ b <= a
      BY <2>1, <3>2
    <3>4. own + b <= own + a /\ own <= own
      BY <1>2, <3>3
    <3> QED
      BY <3>2, <3>3, <3>4
  <2> QED
    BY <1>1, <2>1, <2>2, <2>3, Outer
<1>6. CASE ForeignAct
  BY <1>2, <1>3, <1>6, BoundAssumption DEF ForeignAct, Count, Undisturbed
<1>7. CASE Cross \/ Settle \/ ClaimExpires \/ CloseForgotten \/ UNCHANGED vars
  <2>1. UNCHANGED <<own, foreign, conds, exits, young, old, task>>
    BY <1>7 DEF Cross, Settle, ClaimExpires, CloseForgotten, vars, exchange, books, lots
  <2>2. DueQty' = DueQty /\ Managed' = Managed
    BY <2>1 DEF DueQty, Managed
  <2>3. crossed' = crossed \/ MaxCrossings # 0
    BY <1>2, <1>3, <1>7, BoundAssumption
       DEF Cross, Settle, ClaimExpires, CloseForgotten, Count, vars, exchange
  <2>4. lag' = lag \/ lag' = 0
    BY <1>7 DEF Cross, Settle, ClaimExpires, CloseForgotten, vars, exchange
  <2>5. LagOK'
    BY <1>1, <2>1, <2>4 DEF LagOK, At
  <2>6. claim' = claim \/ task["main"].at \notin {"order", "log"}
    <3>1. CASE ClaimExpires
      BY <1>1, <3>1 DEF ClaimExpires, Opening, ClaimOK
    <3>2. CASE ~ClaimExpires
      BY <1>7, <3>2 DEF Cross, Settle, CloseForgotten, vars, books
    <3> QED
      BY <3>1, <3>2
  <2>7. own' + DueQty' <= own + DueQty /\ own' <= own
    BY <1>2, <2>1, <2>2
  <2> QED
    BY <1>1, <2>1, <2>2, <2>3, <2>5, <2>6, <2>7, Outer
<1>8. CASE Mature
  <2>1. UNCHANGED <<own, foreign, lag, conds, crossed, exits, claim, task>> /\ lag = 0
    BY <1>8 DEF Mature, exchange, claims
  <2>2. old' = old + young /\ young' = 0 /\ \A r \in Reconcilers : ~At(r, "flat")
    BY <1>8 DEF Mature, At
  <2>3. DueQty' = DueQty /\ LagOK'
    BY <2>1 DEF DueQty, LagOK
  <2>4. Managed' = Managed
    BY <1>2, <2>2 DEF Managed
  <2>5. own' + DueQty' <= own + DueQty /\ own' <= own
    BY <1>2, <2>1, <2>3
  <2> QED
    BY <1>1, <2>1, <2>2, <2>3, <2>4, <2>5, Outer
<1> QED
  BY <1>4, <1>5, <1>6, <1>7, <1>8

LEMMA SellingKept ==
  ASSUME Undisturbed, Typed, Typed', BooksInv, NEW t \in Tasks, Sold(t) \/ NotSold(t) \/ SaleBooked(t)
  PROVE  BooksInv'
<1>1. /\ Places /\ foreign = 0 /\ \A c \in conds : c.ours
      /\ (Kept \/ Gone) /\ LagOK /\ FlatOK /\ ClaimOK
  BY DEF BooksInv, Alone
<1>2. /\ own \in Nat /\ young \in Nat /\ old \in Nat /\ lag \in Nat /\ DueQty \in Nat
      /\ Managed = young + old
      /\ \A s \in Tasks : SoldBy(s) \in Nat
      /\ Unlogged \in Nat
  BY DueTyped, SoldTyped, Tasked DEF Typed, ExchangeT, BooksT, Managed
<1>3. /\ task[t].qty \in Nat
      /\ task[t].at \in Selling \cup SoldLabels
  BY SoldTyped DEF Sold, NotSold, SaleBooked, At, SoldLabels
<1>4. /\ t # "stream"
      /\ t = "main" \/ (t \in Reconcilers /\ MaxCrossings # 0 /\ task[t].at \in Dumping)
      /\ t \in Reconcilers => t # "main"
  <2>1. t # "stream" /\ (t # "main" => task[t].at \in SyncLabels \cup SharedLabels)
    BY <1>1, <1>3, SharedLawful DEF Selling, SoldLabels
  <2>2. t # "main" => task[t].at \in Dumping
    BY <1>3, <2>1 DEF SyncLabels, SharedLabels, Selling, SoldLabels, Dumping
  <2> QED
    BY <1>1, <2>1, <2>2, SharedLawful, TaskAssumption
<1>5. t # "main" => \A s \in Others : s # t => SoldBy(s) = 0 /\ ~At(s, "flat")
  BY <1>1, <1>4, OneSells
<1>6. Others' = Others /\ Others \subseteq Tasks /\ (t # "main" => t \in Others)
  BY DEF Others, Tasks
<1>7. CASE NotSold(t)
  <2>1. Moved(t, "idle") /\ task[t].at \in Selling
    BY <1>7, Moves DEF NotSold
  <2>2. UNCHANGED claim \/ t = "main"
    BY <1>4, <1>7 DEF NotSold, At, Dumping
  <2>3. UNCHANGED exchange /\ UNCHANGED lots
    BY <1>7 DEF NotSold
  <2>4. Lawful(t, "idle")
    BY <1>1, SharedLawful
  <2> QED
    BY <1>1, <2>1, <2>2, <2>3, <2>4, Quiet DEF exchange, Selling, SoldLabels
<1>8. CASE Sold(t)
  <2>1. PICK n \in 1..Least(task[t].qty, Live) :
          /\ Sell(n)
          /\ task' = [task EXCEPT ![t] = [@ EXCEPT !.qty = n,
               !.at = IF n = task[t].qty THEN SoldAt[task[t].at] ELSE SoldPartAt[task[t].at]]]
    BY <1>8 DEF Sold
  <2>2. n \in Nat /\ n > 0 /\ n <= own
    BY <1>1, <1>2, <1>3, <2>1 DEF Least, Live
  <2>3. own' = own - n /\ foreign' = 0 /\ lag' = Least(lag, own')
    <3>1. Least(n, own) = n
      BY <1>2, <2>2 DEF Least
    <3>2. own' = own - n /\ foreign' = 0 - (n - n) /\ lag' = Least(lag, own')
      BY <1>1, <2>1, <3>1 DEF Sell
    <3>3. 0 - (n - n) = 0
      BY <2>2
    <3> QED
      BY <3>2, <3>3
  <2>4. PICK l \in SoldLabels : Moved(t, l) /\ task'[t].qty = n /\ Lawful(t, l)
    <3>1. task[t].at \in Selling /\ task \in [Tasks -> Works] /\ task[t] \in Works
      BY <1>8 DEF Sold, Typed, EngineT
    <3>2. PICK from \in Selling : from = task[t].at
      BY <3>1
    <3>3. PICK l : l = IF n = task[t].qty THEN SoldAt[from] ELSE SoldPartAt[from]
      OBVIOUS
    <3>4. l \in SoldLabels /\ (from = "dump" => l \in {"dumped", "dumpedpart"})
      BY <3>2, <3>3 DEF Selling, SoldAt, SoldPartAt, SoldLabels
    <3>5. Moved(t, l) /\ task'[t].qty = n
      BY <2>1, <3>1, <3>2, <3>3 DEF Moved, Works, Task
    <3>6. Lawful(t, l)
      <4>1. CASE t = "main"
        BY <4>1, MainLawful
      <4>2. CASE t # "main"
        <5>1. from = "dump"
          BY <1>4, <3>2, <4>2 DEF Selling, Dumping
        <5>2. l \in SharedLabels
          BY <3>4, <5>1 DEF SharedLabels
        <5> QED
          BY <1>1, <1>4, <4>2, <5>2, SharedLawful
      <4> QED
        BY <4>1, <4>2
    <3> QED
      BY <3>4, <3>5, <3>6
  <2>5. task[t].at \in Selling /\ SoldBy(t) = 0 /\ SoldBy(t)' = n
    BY <1>8, <2>4 DEF Sold, Selling, SoldBy, SoldLabels, Moved
  <2>6. \A s \in Tasks : s # t => task'[s] = task[s] /\ SoldBy(s)' = SoldBy(s)
    BY <2>4 DEF Moved, SoldBy
  <2>7. UNCHANGED <<conds, crossed, exits, young, old, claim>> /\ DueQty' = DueQty /\ Managed' = Managed
    BY <1>8 DEF Sold, books, DueQty, Managed
  <2>8. Unlogged' = Unlogged
    BY <2>4, <2>5, <2>6, Tasked DEF Unlogged, At, Moved, Selling, SoldLabels
  <2>9. t # "main" => (MainSold' <=> MainSold)
    BY <2>6, Tasked DEF MainSold
  <2>10. Kept
    BY <1>1, <1>2, <2>2 DEF Gone
  <2>11. Kept'
    <3> SUFFICES ASSUME NEW s \in Others
                 PROVE  own' + DueQty' + SoldBy("main")' + SoldBy(s)' <= Managed' + Unlogged'
      BY <1>6 DEF Kept
    <3>1. own + DueQty + SoldBy("main") + SoldBy(s) <= Managed + Unlogged
      BY <2>10 DEF Kept
    <3>2. PICK x \in Nat, y \in Nat, d \in Nat : x = SoldBy("main") /\ y = SoldBy(s) /\ d = DueQty
      BY <1>2, <1>6, Tasked
    <3>3. CASE t = "main"
      <4>1. SoldBy("main")' = n /\ x = 0 /\ SoldBy(s)' = y
        BY <2>5, <2>6, <3>2, <3>3, <1>6 DEF Others
      <4>2. own - n + d + n + y <= Managed + Unlogged
        BY <1>2, <2>2, <3>1, <3>2, <4>1
      <4> QED
        BY <2>3, <2>7, <2>8, <3>2, <4>1, <4>2
    <3>4. CASE t # "main"
      <4>1. SoldBy("main")' = x
        BY <2>6, <3>2, <3>4, Tasked
      <4>2. PICK z \in Nat : z = SoldBy(s)' /\ z <= y + n
        BY <1>6, <2>2, <2>5, <2>6, <3>2
      <4>3. own - n + d + x + z <= Managed + Unlogged
        BY <1>2, <2>2, <3>1, <3>2, <4>2
      <4> QED
        BY <2>3, <2>7, <2>8, <3>2, <4>1, <4>2, <4>3
    <3> QED
      BY <3>3, <3>4
  <2>12. FlatSafe => FlatSafe'
    <3>1. own # 0
      BY <1>2, <2>2
    <3>2. PICK x \in Nat : x = SoldBy("main")
      BY <1>2, Tasked
    <3>3. PICK z \in Nat : z = SoldBy("main")' /\ z <= x + n
      BY <2>2, <2>5, <2>6, <3>2, Tasked
    <3>4. own + x <= young + Unlogged => own - n + z <= young + Unlogged
      BY <1>2, <2>2, <3>3
    <3> QED
      BY <2>3, <2>7, <2>8, <3>1, <3>2, <3>3, <3>4 DEF FlatSafe
  <2>13. FlatOK'
    <3>1. \A r \in Reconcilers : At(r, "flat")' => At(r, "flat")
      <4>1. l # "flat"
        BY DEF SoldLabels
      <4> QED
        BY <2>4, <2>6, <4>1, Tasked, <1>6 DEF At, Moved
    <3> QED
      BY <1>1, <2>12, <3>1 DEF FlatOK
  <2>14. Places'
    <3>1. \A s \in Tasks : Lawful(s, task'[s].at)
      BY <1>1, <2>4, <2>6 DEF Places, Moved
    <3> QED
      BY <1>1, <2>7, <3>1 DEF Places, Tasks, Lawful
  <2>15. LagOK'
    <3>1. lag' > 0 => lag > 0
      BY <1>2, <2>2, <2>3 DEF Least
    <3>2. At("main", "log") => At("main", "log")'
      BY <2>5, <2>6, Tasked DEF At, Selling
    <3> QED
      BY <1>1, <2>7, <3>1, <3>2 DEF LagOK
  <2>16. ClaimOK' /\ LogOK'
    <3>1. task'["main"] = task["main"] \/ task'["main"].at \notin {"order", "log"}
      BY <2>4, <2>6, Tasked DEF Moved, SoldLabels
    <3> QED
      BY <2>7, <3>1 DEF BooksInv, ClaimOK, LogOK, At
  <2> QED
    BY <1>1, <2>3, <2>7, <2>11, <2>13, <2>14, <2>15, <2>16 DEF BooksInv, Alone
<1>9. CASE SaleBooked(t)
  <2>1. PICK n \in Nat : n = task[t].qty /\ BookExit(n)
    BY <1>3, <1>9 DEF SaleBooked
  <2>2. /\ young' \in Nat /\ old' \in Nat
        /\ young + old <= young' + old' + n
        /\ young' <= young /\ young <= young' + n
        /\ young' < young => old' = 0
        /\ young > 0 \/ old = 0 => young' > 0 \/ old' = 0
        /\ n = 0 => young' = young /\ old' = old
    BY <2>1, BookExitFacts DEF Typed
  <2>3. task[t].at \in SoldLabels /\ SoldBy(t) = n
    BY <1>9, <2>1 DEF SaleBooked, At, SoldLabels, SoldBy
  <2>4. PICK l : Moved(t, l) /\ Lawful(t, l) /\ l \in {"idle", "closecancel", "repair"}
    <3>1. \/ Done(t) /\ Lawful(t, "idle")
          \/ Turn(t, "closecancel") /\ At(t, "closed")
          \/ Turn(t, "repair") /\ At(t, "closedpart")
      BY <1>1, <1>9, SharedLawful DEF SaleBooked
    <3>2. At(t, "closed") \/ At(t, "closedpart") => t = "main"
      BY <1>4 DEF At, Dumping
    <3> QED
      BY <3>1, <3>2, MainLawful, Moves
  <2>5. SoldBy(t)' = 0 /\ l \notin SoldLabels
    BY <2>4 DEF SoldBy, SoldLabels, Moved
  <2>6. \A s \in Tasks : s # t => task'[s] = task[s] /\ SoldBy(s)' = SoldBy(s)
    BY <2>4 DEF Moved, SoldBy
  <2>7. UNCHANGED <<own, foreign, lag, conds, crossed, exits>> /\ DueQty' = DueQty
    BY <1>9 DEF SaleBooked, exchange, DueQty
  <2>8. Unlogged' = Unlogged /\ (t = "main" => Unlogged = 0)
    BY <2>3, <2>4, <2>6, Tasked DEF Unlogged, At, Moved, SoldLabels
  <2>9. claim' = claim \/ t = "main"
    BY <1>4, <1>9 DEF SaleBooked, Dumping, At
  <2>10. t # "main" => (MainSold' <=> MainSold) /\ SoldBy("main")' = SoldBy("main")
    BY <2>6, Tasked DEF MainSold
  <2>11. PICK m \in Nat : young + old <= m + n /\ m = Managed'
    <3>1. PICK a \in Nat, b \in Nat : a = young' /\ b = old' /\ young + old <= a + b + n
      BY <2>2
    <3>2. Managed' = a + b
      BY <3>1 DEF Managed
    <3>3. a + b \in Nat
      OBVIOUS
    <3>4. PICK m \in Nat : m = a + b
      BY <3>3
    <3>5. young + old <= m + n
      BY <1>2, <3>1, <3>4
    <3> QED
      BY <3>2, <3>4, <3>5
  <2>19. m \in Nat /\ young + old <= m + n
    BY <2>11
  <2>12. PICK d \in Nat : d = DueQty
    BY <1>2
  <2>13. ASSUME Kept PROVE Kept'
    <3> SUFFICES ASSUME NEW s \in Others
                 PROVE  own' + DueQty' + SoldBy("main")' + SoldBy(s)' <= Managed' + Unlogged'
      BY <1>6 DEF Kept
    <3>1. CASE t = "main"
      <4>1. own + DueQty + SoldBy("main") + SoldBy(s) <= Managed + Unlogged
        BY <2>13 DEF Kept
      <4>2. PICK y \in Nat : y = SoldBy(s) /\ SoldBy(s)' = y /\ s # t
        BY <1>2, <1>6, <2>6, <3>1 DEF Others
      <4>3. own + d + n + y <= young + old + 0
        BY <1>2, <2>3, <2>8, <2>12, <3>1, <4>1, <4>2
      <4>4. own + d + 0 + y <= m + 0
        BY <1>2, <2>19, <4>3
      <4> QED
        BY <2>5, <2>7, <2>8, <2>11, <2>12, <3>1, <4>2, <4>4
    <3>2. CASE t # "main"
      <4>1. own + DueQty + SoldBy("main") + SoldBy(t) <= Managed + Unlogged
        BY <1>6, <2>13, <3>2 DEF Kept
      <4>2. PICK x \in Nat : x = SoldBy("main") /\ SoldBy("main")' = x
        BY <1>2, <2>10, <3>2, Tasked
      <4>3. SoldBy(s)' = 0
        BY <1>5, <1>6, <2>5, <2>6, <3>2
      <4>4. own + d + x + n <= young + old + Unlogged
        BY <1>2, <2>3, <2>12, <4>1, <4>2
      <4>5. own + d + x + 0 <= m + Unlogged
        BY <1>2, <2>19, <4>4
      <4> QED
        BY <2>7, <2>8, <2>11, <2>12, <4>2, <4>3, <4>5
    <3> QED
      BY <3>1, <3>2
  <2>14. ASSUME Gone PROVE Kept' \/ Gone'
    <3>1. own = 0 /\ d = 0 /\ \A s \in Others : SoldBy(s) = 0
      BY <2>12, <2>14 DEF Gone
    <3>2. \A s \in Others : SoldBy(s)' = 0
      BY <1>6, <2>5, <2>6, <3>1
    <3>3. CASE t = "main"
      <4>1. 0 + 0 + 0 + 0 <= m + Unlogged
        BY <1>2
      <4> QED
        BY <1>6, <2>5, <2>7, <2>8, <2>11, <2>12, <3>1, <3>2, <3>3, <4>1 DEF Kept
    <3>4. CASE t # "main"
      BY <1>6, <2>7, <2>10, <2>12, <2>14, <3>1, <3>2, <3>4 DEF Gone
    <3> QED
      BY <3>3, <3>4
  <2>15. FlatOK'
    <3>1. ASSUME NEW r \in Reconcilers, At(r, "flat")' PROVE FlatSafe'
      <4>1. r # t /\ At(r, "flat") /\ r \in Others
        BY <2>4, <2>6, <3>1, <1>6, Tasked DEF At, Moved
      <4>2. t = "main"
        BY <1>5, <4>1
      <4>3. SoldBy("main") = n /\ SoldBy("main")' = 0 /\ Unlogged = 0
        BY <2>3, <2>5, <2>8, <4>2
      <4>4. own + n <= young + 0 \/ own = 0
        BY <1>1, <4>1, <4>3 DEF FlatOK, FlatSafe
      <4>5. own + 0 <= young' + 0
        <5>1. PICK a \in Nat : young <= a + n /\ a = young'
          BY <2>2
        <5>2. young <= a + n /\ a \in Nat
          BY <5>1
        <5>3. own + 0 <= a + 0
          BY <1>2, <4>4, <5>2
        <5> QED
          BY <5>1, <5>3
      <4> QED
        BY <2>7, <2>8, <4>3, <4>5 DEF FlatSafe
    <3> QED
      BY <3>1 DEF FlatOK
  <2>16. LagOK'
    <3>1. At("main", "log") => At("main", "log")'
      BY <2>3, <2>6, Tasked DEF At, SoldLabels
    <3> QED
      BY <1>1, <2>2, <2>7, <3>1 DEF LagOK
  <2>17. ClaimOK' /\ LogOK'
    <3>1. (task'["main"] = task["main"] /\ claim' = claim) \/ task'["main"].at \notin {"order", "log"}
      <4>1. CASE t = "main"
        BY <2>4, <4>1 DEF Moved
      <4>2. CASE t # "main"
        BY <2>6, <2>9, <4>2, Tasked
      <4> QED
        BY <4>1, <4>2
    <3>2. task'["main"] = task["main"] \/ task'["main"].at \notin {"order", "log"}
      BY <2>4, <2>6, Tasked DEF Moved
    <3> QED
      BY <3>1, <3>2 DEF BooksInv, ClaimOK, LogOK, At
  <2>18. Places'
    <3>1. \A s \in Tasks : Lawful(s, task'[s].at)
      BY <1>1, <2>4, <2>6 DEF Places, Moved
    <3> QED
      BY <1>1, <2>7, <3>1 DEF Places, Tasks, Lawful
  <2> QED
    BY <1>1, <2>7, <2>13, <2>14, <2>15, <2>16, <2>17, <2>18 DEF BooksInv, Alone
<1> QED
  BY <1>7, <1>8, <1>9

LEMMA PassLawful ==
  ASSUME NEW r \in Reconcilers
  PROVE  /\ r \in Tasks /\ r \in Others /\ r # "main"
         /\ \A l \in SyncLabels \cup (SharedLabels \ Dumping) : Lawful(r, l)
BY TaskAssumption DEF Tasks, Others, Lawful, SyncLabels, SharedLabels, Dumping

\* A pass finds the symbol flat twice: nothing is open, or the fill that the query
\* omits is of a trade that is not old enough to be closed.
LEMMA FlatConfirmed ==
  ASSUME Typed, BooksInv, NEW p \in Answers, p = 0, ~FlatDeferred
  PROVE  FlatSafe
<1>1. /\ own \in Nat /\ lag \in Nat /\ young \in Nat /\ old \in Nat /\ DueQty \in Nat
      /\ foreign = 0 /\ young = 0
  BY DueTyped DEF Typed, ExchangeT, BooksT, BooksInv, Alone, FlatDeferred
<1>2. SoldBy("main") \in Nat /\ SoldBy("stream") \in Nat /\ "stream" \in Others
  BY SoldTyped, Tasked DEF Tasks
<1>3. task["main"].at \notin {"order", "log"}
  BY DEF FlatDeferred, RecentEntry, BooksInv, ClaimOK
<1>4. Unlogged = 0
  BY <1>3 DEF Unlogged, At
<1>5. own = 0 \/ (lag > 0 /\ own <= lag)
  BY <1>1 DEF Answers, Live, Least
<1>6. CASE own = 0
  <2>1. MainSold \/ SoldBy("main") = 0
    BY DEF MainSold, SoldBy
  <2> QED
    BY <1>1, <1>4, <1>6, <2>1 DEF FlatSafe
<1>7. CASE own # 0
  <2>1. old = 0
    BY <1>1, <1>3, <1>5, <1>7 DEF BooksInv, LagOK, At
  <2>2. Kept
    BY <1>7 DEF BooksInv, Gone
  <2>3. own + DueQty + SoldBy("main") + SoldBy("stream") <= Managed + Unlogged
    BY <1>2, <2>2 DEF Kept
  <2>4. Managed = 0
    BY <1>1, <2>1 DEF Managed
  <2>5. own + DueQty + SoldBy("main") + SoldBy("stream") <= 0
    BY <1>4, <2>3, <2>4
  <2> QED
    BY <1>1, <1>2, <1>7, <2>5
<1> QED
  BY <1>6, <1>7

LEMMA FlatKept ==
  ASSUME Undisturbed, Typed, Typed', BooksInv, NEW r \in Reconcilers, BookFlat(r)
  PROVE  BooksInv'
<1>1. /\ Places /\ foreign = 0 /\ (\A c \in conds : c.ours) /\ (Kept \/ Gone) /\ FlatSafe
      /\ At(r, "flat")
  BY DEF BooksInv, Alone, FlatOK, BookFlat
<1>2. /\ r \in Tasks /\ r \in Others /\ r # "main" /\ Others \subseteq Tasks
      /\ \A l \in {"idle", "flatcancel"} : Lawful(r, l)
  BY PassLawful DEF SyncLabels, SharedLabels, Dumping, Others
<1>3. PICK l \in {"idle", "flatcancel"} : Moved(r, l)
  BY <1>2, Moves DEF BookFlat
<1>4. /\ \A s \in Tasks : s # r => task'[s] = task[s]
      /\ task'["main"] = task["main"]
  BY <1>2, <1>3, Tasked DEF Moved
<1>5. \A s \in Others : SoldBy(s) = 0 /\ SoldBy(s)' = 0
  <2>1. SoldBy(r) = 0 /\ SoldBy(r)' = 0
    BY <1>1, <1>3 DEF SoldBy, SoldLabels, At, Moved
  <2>2. ASSUME NEW s \in Others, SoldBy(s) # 0 PROVE FALSE
    <3>1. s \in Reconcilers /\ task[s].at \in Dumping
      BY <1>1, <2>2, OthersSold
    <3>2. s # r
      BY <2>1, <2>2
    <3> QED
      BY <1>1, <1>2, <3>1, <3>2, OneSells
  <2>3. \A s \in Others : s # r => SoldBy(s)' = SoldBy(s)
    BY <1>2, <1>4 DEF SoldBy
  <2> QED
    BY <2>1, <2>2, <2>3
<1>6. /\ SoldBy("main")' = SoldBy("main") /\ Unlogged' = Unlogged /\ (MainSold' <=> MainSold)
      /\ Others' = Others /\ UNCHANGED <<own, foreign, lag, conds, crossed, claim>>
  BY <1>4 DEF SoldBy, Unlogged, MainSold, At, Others, Tasks, BookFlat, claims
<1>7. PICK h \in Nat : /\ h >= old /\ (h = old \/ h <= DueQty) /\ BookExit(h)
                       /\ DueQty' = 0
  <2>1. HistoryQty(r) \in Nat /\ old \in Nat
    BY HistoryTyped DEF Typed, BooksT
  <2>2. HistoryQty(r) <= DueQty /\ DueQty' = 0
    BY HistoryDue DEF BookFlat, Undisturbed, Typed
  <2>3. PICK h : h = IF HistoryQty(r) > old THEN HistoryQty(r) ELSE old
    OBVIOUS
  <2>4. h \in Nat /\ h >= old /\ (h = old \/ h <= DueQty)
    BY <2>1, <2>2, <2>3
  <2> QED
    BY <2>2, <2>3, <2>4 DEF BookFlat
<1>8. /\ young' \in Nat /\ old' = 0 /\ young' <= young /\ young + old <= young' + h
      /\ (h = old => young' = young)
  <2>1. /\ young' \in Nat /\ old' \in Nat /\ young' <= young
        /\ young + old <= young' + old' + h /\ (h >= old => old' = 0)
    BY <1>7, BookExitFacts DEF Typed
  <2>2. old' = 0
    BY <1>7, <2>1
  <2>3. young \in Nat /\ old \in Nat
    BY DEF Typed, BooksT
  <2>4. PICK a \in Nat : a <= young /\ young + old <= a + 0 + h /\ a = young'
    BY <2>1, <2>2
  <2>5. a \in Nat /\ a <= young /\ young + old <= a + 0 + h
    BY <2>4
  <2>6. young + old <= a + h /\ (h = old => a = young)
    BY <1>7, <2>3, <2>5
  <2> QED
    BY <2>1, <2>2, <2>4, <2>6
<1>9. /\ own \in Nat /\ young \in Nat /\ old \in Nat /\ DueQty \in Nat /\ SoldBy("main") \in Nat
      /\ Unlogged \in Nat
  BY DueTyped, SoldTyped, Tasked DEF Typed, ExchangeT, BooksT
<1>10. FlatSafe'
  <2>1. CASE own = 0 /\ MainSold
    BY <1>6, <2>1 DEF FlatSafe
  <2>2. CASE ~(own = 0 /\ MainSold)
    <3>1. own + SoldBy("main") <= young + Unlogged
      BY <1>1, <2>2 DEF FlatSafe
    <3>2. \A s \in Others : own + DueQty + SoldBy("main") + SoldBy(s) <= Managed + Unlogged
      BY <1>1, <2>2 DEF Kept, Gone
    <3>3. own + DueQty + SoldBy("main") + 0 <= Managed + Unlogged
      BY <1>2, <1>5, <3>2
    <3>4. Managed = young + old
      BY DEF Managed
    <3>5. own + DueQty + SoldBy("main") <= young + old + Unlogged
      BY <1>9, <3>3, <3>4
    <3>6. PICK a \in Nat : a = young'
      BY <1>8
    <3>7. a \in Nat /\ young + old <= a + h /\ (h = old => a = young)
      BY <1>8, <3>6
    <3>8. h \in Nat /\ (h = old \/ h <= DueQty)
      BY <1>7
    <3>9. own + SoldBy("main") <= a + Unlogged
      BY <1>9, <3>1, <3>5, <3>7, <3>8
    <3> QED
      BY <1>6, <3>6, <3>9 DEF FlatSafe
  <2> QED
    BY <2>1, <2>2
<1>11. (Kept \/ Gone)'
  <2>1. CASE own = 0 /\ MainSold
    BY <1>5, <1>6, <1>7, <2>1 DEF Gone
  <2>2. CASE ~(own = 0 /\ MainSold)
    <3>1. own + SoldBy("main") <= young' + Unlogged
      BY <1>6, <1>10, <2>2 DEF FlatSafe
    <3>2. PICK a \in Nat : a = young'
      BY <1>8
    <3>3. Managed' = a + 0
      BY <1>8, <3>2 DEF Managed
    <3>4. own + 0 + SoldBy("main") + 0 <= a + 0 + Unlogged
      BY <1>9, <3>1, <3>2
    <3> QED
      BY <1>5, <1>6, <1>7, <3>3, <3>4 DEF Kept
  <2> QED
    BY <2>1, <2>2
<1>12. Places'
  <2>1. \A s \in Tasks : Lawful(s, task'[s].at)
    BY <1>1, <1>2, <1>3, <1>4 DEF Places, Moved
  <2> QED
    BY <1>1, <1>6, <2>1 DEF Places, Tasks, Lawful
<1> QED
  BY <1>1, <1>4, <1>6, <1>8, <1>10, <1>11, <1>12
     DEF BooksInv, Alone, FlatOK, LagOK, ClaimOK, LogOK, At

LEMMA PassKept ==
  ASSUME Undisturbed, Typed, Typed', BooksInv, NEW r \in Reconcilers,
         \/ SyncStart(r) \/ SyncConds(r) \/ ConfirmFlat(r) \/ SyncCancels(r) \/ Enforce(r)
         \/ Adopt(r) \/ Adopted(r) \/ Reread(r) \/ Unmanaged(r) \/ Check(r) \/ Recheck(r)
  PROVE  BooksInv'
<1>1. /\ r \in Tasks /\ r \in Others /\ r # "main"
      /\ \A l \in SyncLabels \cup (SharedLabels \ Dumping) : Lawful(r, l)
  BY PassLawful
<1>2. \A c \in conds : c.ours
  BY DEF BooksInv, Alone
<1>3. /\ \A l : Goto(r, l) => Moved(r, l)
      /\ \A l, q, u : Hold(r, l, q, u) => Moved(r, l)
      /\ \A l : Turn(r, l) => Moved(r, l)
      /\ Done(r) => Moved(r, "idle")
  BY <1>1, Moves
<1> DEFINE After == {"idle", "conds", "live", "confirm", "restop", "check", "adopt", "unmanaged",
                     "reread", "synccancel", "repair", "adoptplace"}
<1>4. \A l \in After : Lawful(r, l) /\ l \notin SoldLabels \cup {"log", "flat", "order"}
  BY <1>1 DEF SyncLabels, SharedLabels, Dumping, SoldLabels
<1>5. ASSUME NEW l \in After, Moved(r, l), task[r].at \notin SoldLabels \cup {"log"},
             UNCHANGED <<own, foreign, lag, crossed, exits, claim>>, UNCHANGED lots,
             \A c \in conds' : c.ours
      PROVE  BooksInv'
  BY <1>1, <1>4, <1>5, Quiet
<1>6. {"idle", "conds", "confirm", "flatcancel", "synccancel", "live", "adopt", "adoptplace", "reread",
       "unmanaged", "check", "restop"} \cap (SoldLabels \cup {"log"}) = {}
  BY DEF SoldLabels
<1> HIDE DEF After
<1>7. {"idle", "conds", "live", "confirm", "restop", "check", "adopt", "unmanaged",
       "reread", "synccancel", "repair", "adoptplace"} = After
  BY DEF After
<1>8. CASE SyncStart(r) \/ SyncConds(r) \/ Adopted(r) \/ Reread(r) \/ Check(r) \/ Recheck(r)
  <2>1. /\ UNCHANGED <<own, foreign, lag, crossed, exits, claim, conds>> /\ UNCHANGED lots
        /\ task[r].at \notin SoldLabels \cup {"log"}
    BY <1>6, <1>8 DEF SyncStart, SyncConds, Adopted, Reread, Check, Recheck, exchange, books, lots, At
  <2>2. \E l \in {"idle", "conds", "live", "confirm", "check", "reread", "synccancel", "repair"} : Moved(r, l)
    <3>1. CASE SyncStart(r)
      BY <1>3, <3>1 DEF SyncStart
    <3>2. CASE SyncConds(r)
      BY <1>3, <3>2 DEF SyncConds
    <3>3. CASE Adopted(r)
      BY <1>3, <3>3 DEF Adopted
    <3>4. CASE Reread(r)
      BY <1>3, <3>4 DEF Reread
    <3>5. CASE Check(r)
      BY <1>3, <3>5 DEF Check
    <3>6. CASE Recheck(r)
      BY <1>3, <3>6 DEF Recheck
    <3> QED
      BY <1>8, <3>1, <3>2, <3>3, <3>4, <3>5, <3>6
  <2>3. PICK l \in After : Moved(r, l)
    BY <1>7, <2>2
  <2> QED
    BY <1>2, <1>5, <2>1, <2>3
<1>9. CASE SyncCancels(r) \/ Unmanaged(r)
  <2>1. /\ UNCHANGED <<own, foreign, lag, crossed, exits, claim>> /\ UNCHANGED lots
        /\ task[r].at \notin SoldLabels \cup {"log"} /\ \A c \in conds' : c.ours
    BY <1>2, <1>6, <1>9 DEF SyncCancels, Unmanaged, exchange, claims, lots, At
  <2>2. \E l \in {"idle", "restop"} : Moved(r, l)
    BY <1>3, <1>9 DEF SyncCancels, Unmanaged
  <2>3. PICK l \in After : Moved(r, l)
    BY <1>7, <2>2
  <2> QED
    BY <1>5, <2>1, <2>3
<1>10. CASE ConfirmFlat(r)
  <2>1. /\ UNCHANGED <<own, foreign, lag, crossed, exits, claim, conds>> /\ UNCHANGED lots
        /\ task[r].at \notin SoldLabels \cup {"log"}
    BY <1>6, <1>10 DEF ConfirmFlat, exchange, books, lots, At
  <2>2. Done(r) \/ (\E p, u : Hold(r, "live", p, u))
        \/ \E p \in Answers : Answers \subseteq Nat /\ p = 0 /\ ~FlatDeferred /\ Goto(r, "flat")
    <3>1. \A p \in Answers : p \in Nat
      BY AnswerTyped DEF Typed
    <3>2. \A p \in Answers : ~(p > 0) => p = 0
      BY <3>1
    <3> QED
      BY <1>10, <3>1, <3>2 DEF ConfirmFlat
  <2>3. CASE Done(r) \/ \E p, u : Hold(r, "live", p, u)
    <3>1. \E l \in {"idle", "live"} : Moved(r, l)
      BY <1>3, <2>3
    <3>2. PICK l \in After : Moved(r, l)
      BY <1>7, <3>1
    <3> QED
      BY <1>2, <1>5, <2>1, <3>2
  <2>4. CASE \E p \in Answers : p = 0 /\ ~FlatDeferred /\ Goto(r, "flat")
    <3>1. FlatSafe /\ Moved(r, "flat")
      BY <1>3, <2>4, FlatConfirmed
    <3>2. Lawful(r, "flat") /\ "flat" \notin SoldLabels \cup {"log"}
      BY <1>1 DEF SyncLabels, SoldLabels
    <3> QED
      BY <1>1, <1>2, <2>1, <3>1, <3>2, Quiet
  <2> QED
    BY <2>2, <2>3, <2>4
<1>11. CASE Enforce(r)
  <2>1. UNCHANGED <<own, foreign, lag, crossed, claim, conds>> /\ task[r].at \notin SoldLabels \cup {"log"}
    BY <1>6, <1>11 DEF Enforce, claims, At
  <2>2. \E l \in {"idle", "check", "adopt"} : Moved(r, l)
    BY <1>3, <1>11 DEF Enforce
  <2>3. PICK l \in After : Moved(r, l)
    BY <1>7, <2>2
  <2>4. CASE UNCHANGED <<exits, lots>>
    BY <1>2, <1>5, <2>1, <2>3, <2>4
  <2>5. CASE ReadHistory(r) /\ BookExit(HistoryQty(r))
    <3>1. PICK n \in Nat : n = HistoryQty(r)
      BY HistoryTyped DEF Typed
    <3>2. DueQty = n + DueQty'
      BY <2>5, <3>1, HistoryDue DEF Typed, Undisturbed
    <3>3. BookExit(n)
      BY <2>5, <3>1
    <3>4. Lawful(r, l) /\ l \notin SoldLabels \cup {"flat"}
      BY <1>4, <2>3 DEF After
    <3> QED
      BY <1>1, <2>1, <2>3, <3>2, <3>3, <3>4, Booking
  <2> QED
    BY <1>11, <2>4, <2>5 DEF Enforce
<1>12. CASE Adopt(r)
  <2>1. /\ UNCHANGED <<own, foreign, lag, crossed, exits, claim, conds, old>>
        /\ task[r].at \notin SoldLabels \cup {"log"}
    BY <1>6, <1>12 DEF Adopt, exchange, claims, At
  <2>2. CASE Goto(r, "unmanaged") /\ young' = young
    <3>1. Moved(r, "unmanaged")
      BY <1>3, <2>2
    <3>2. "unmanaged" \in After
      BY <1>7
    <3> QED
      BY <1>2, <1>5, <2>1, <2>2, <3>1, <3>2 DEF lots
  <2>3. CASE \E q \in Nat : young' = young + q /\ Moved(r, "adoptplace")
    <3>1. PICK q \in Nat : young' = young + q /\ Moved(r, "adoptplace")
      BY <2>3
    <3>2. /\ \A s \in Tasks : s # r => task'[s] = task[s]
          /\ task'["main"] = task["main"]
      BY <1>1, <3>1, Tasked DEF Moved
    <3>3. \A s \in Tasks : SoldBy(s)' = SoldBy(s)
      BY <2>1, <3>1, <3>2 DEF SoldBy, Moved, SoldLabels
    <3>4. /\ Unlogged' = Unlogged /\ (MainSold' <=> MainSold) /\ Others' = Others
          /\ DueQty' = DueQty /\ Others \subseteq Tasks
      BY <2>1, <3>2 DEF Unlogged, MainSold, At, Others, Tasks, DueQty
    <3>5. /\ own \in Nat /\ young \in Nat /\ old \in Nat /\ DueQty \in Nat /\ Unlogged \in Nat
          /\ \A s \in Tasks : SoldBy(s) \in Nat
      BY DueTyped, SoldTyped, Tasked DEF Typed, ExchangeT, BooksT
    <3>6. (Kept \/ Gone)'
      <4>1. Kept \/ Gone
        BY DEF BooksInv
      <4>2. CASE Gone
        BY <2>1, <3>3, <3>4, <4>2, Tasked DEF Gone
      <4>3. CASE Kept
        <5> SUFFICES ASSUME NEW s \in Others
                     PROVE  own' + DueQty' + SoldBy("main")' + SoldBy(s)' <= Managed' + Unlogged'
          BY <3>4 DEF Kept
        <5>1. own + DueQty + SoldBy("main") + SoldBy(s) <= Managed + Unlogged
          BY <4>3 DEF Kept
        <5>2. SoldBy("main") \in Nat /\ SoldBy(s) \in Nat
          BY <3>4, <3>5, Tasked
        <5>3. PICK m \in Nat : m = Managed /\ m = young + old
          BY <3>5 DEF Managed
        <5>4. Managed' = m + q
          BY <2>1, <3>1, <3>5, <5>3 DEF Managed
        <5>5. own + DueQty + SoldBy("main") + SoldBy(s) <= m + q + Unlogged
          BY <3>5, <5>1, <5>2, <5>3
        <5> QED
          BY <2>1, <3>3, <3>4, <5>4, <5>5, Tasked
      <4> QED
        BY <4>1, <4>2, <4>3
    <3>7. FlatSafe => FlatSafe'
      <4>1. own + SoldBy("main") <= young + Unlogged => own + SoldBy("main") <= young + q + Unlogged
        BY <3>5, Tasked
      <4> QED
        BY <2>1, <3>1, <3>3, <3>4, <4>1, Tasked DEF FlatSafe
    <3>8. FlatOK'
      BY <1>1, <3>1, <3>2, <3>7, Tasked DEF BooksInv, FlatOK, At, Moved, Others
    <3>9. LagOK'
      <4>1. young > 0 => young + q > 0
        BY <3>5
      <4> QED
        BY <2>1, <3>1, <3>2, <4>1 DEF BooksInv, LagOK, At
    <3>10. Places'
      <4>1. Lawful(r, "adoptplace")
        BY <1>4, <1>7
      <4>2. \A s \in Tasks : Lawful(s, task'[s].at)
        BY <3>1, <3>2, <4>1 DEF BooksInv, Places, Moved
      <4> QED
        BY <2>1, <4>2 DEF BooksInv, Places, Tasks, Lawful
    <3> QED
      BY <2>1, <3>2, <3>6, <3>8, <3>9, <3>10 DEF BooksInv, Alone, ClaimOK, LogOK, At
  <2>4. ASSUME NEW p \in Answers, young' = young + Least(p, claim.qty),
               task' = [task EXCEPT ![r] = [Idle EXCEPT !.at = "adoptplace",
                 !.qty = Least(p, claim.qty), !.need = Kinds, !.trig = plan + 1]]
        PROVE  \E q \in Nat : young' = young + q /\ Moved(r, "adoptplace")
    <3>1. Least(p, claim.qty) \in Nat
      BY AnswerTyped DEF Typed, BooksT, Claim, Least
    <3>2. Moved(r, "adoptplace")
      BY <1>1, <2>4 DEF Moved, Typed, EngineT, Idle
    <3> QED
      BY <2>4, <3>1, <3>2
  <2> QED
    BY <1>12, <2>2, <2>3, <2>4 DEF Adopt
<1> QED
  BY <1>8, <1>9, <1>10, <1>11, <1>12

LEMMA StreamKept ==
  ASSUME Undisturbed, Typed, Typed', BooksInv, StreamExit
  PROVE  BooksInv'
<1>1. PICK i \in DOMAIN exits :
        /\ exits[i].due /\ BookExit(exits[i].qty)
        /\ exits' = [exits EXCEPT ![i].due = FALSE, ![i].booked = TRUE]
  BY DEF StreamExit
<1>2. PICK n \in Nat : n = exits[i].qty
  BY <1>1, HistoryTyped DEF Typed, Exit
<1>3. DueQty = n + DueQty' /\ BookExit(n)
  BY <1>1, <1>2, ExitDue DEF Typed
<1>4. "stream" \in Others /\ "stream" \in Tasks /\ Moved("stream", "exit") /\ At("stream", "idle")
  <2>1. "stream" \in Others /\ "stream" \in Tasks
    BY Tasked DEF Others
  <2> QED
    BY <2>1, Moves DEF StreamExit
<1>5. Lawful("stream", "exit")
  BY TaskAssumption DEF Lawful
<1>6. UNCHANGED <<own, foreign, lag, crossed, conds, claim>>
  BY DEF StreamExit, claims
<1> QED
  BY <1>3, <1>4, <1>5, <1>6, Booking DEF At, SoldLabels

LEMMA StepKept ==
  ASSUME Undisturbed, Typed, Typed', BooksInv, [Next]_vars
  PROVE  BooksInv'
<1>1. \A t \in Tasks : Flow(t) => BooksInv'
  BY PlacingKept, SellingKept, RepairKept DEF Flow
<1>2. CASE Decide \/ MainFlow
  BY <1>1, <1>2, Tasked, OpeningKept, DecisionKept DEF Decide, MainFlow
<1>3. CASE StreamFlow
  BY <1>1, <1>3, Tasked, StreamKept DEF StreamFlow, Others
<1>4. CASE \E r \in Reconcilers : Pass(r)
  BY <1>1, <1>4, Tasked, FlatKept, PassKept DEF Pass, Others
<1>5. CASE Time \/ Outside \/ UNCHANGED vars
  BY <1>5, OuterKept, StreamKept DEF Time, Outside
<1> QED
  BY <1>2, <1>3, <1>4, <1>5 DEF Next

\* What the engine's orders bought and did not sell is in its books, or about to be,
\* whatever the passes, the events and the flows interleave: for any quantities, any
\* number of entries, adjustments and closes, and every fault but an entry that is lost
\* (_exchange_flat_defer_reason, sync_condition_order_history, mark_condition_exit,
\* log_order).
THEOREM BooksCoverPosition ==
  ASSUME Undisturbed
  PROVE  Spec => []NothingDisowned
<1>1. Init => Typed /\ BooksInv
  <2> SUFFICES ASSUME Init PROVE Typed /\ BooksInv
    OBVIOUS
  <2>1. Typed
    BY InitTyped
  <2>2. /\ own = 0 /\ foreign = 0 /\ lag = 0 /\ conds = {} /\ ~crossed /\ exits = <<>>
        /\ young = 0 /\ old = 0 /\ \A t \in Tasks : task[t].at = "idle"
    BY DEF Init, Idle
  <2>3. \A t \in Tasks : SoldBy(t) = 0 /\ Lawful(t, task[t].at)
    BY <2>2 DEF SoldBy, SoldLabels, Lawful, SharedLabels, Dumping
  <2>4. DueQty = 0
    <3>1. PICK w : w = [i \in DOMAIN exits |-> Counted(exits[i])]
      OBVIOUS
    <3>2. PICK m \in Nat : m = Len(exits) /\ m = 0
      BY <2>2
    <3>3. w \in [1..m -> Nat]
      BY <2>2, <3>1, <3>2
    <3>4. PICK f \in [0..m -> Nat] : Sums(f, w, m) /\ Total(w, m) = f[m]
      BY <3>3, TotalSums
    <3>5. Total(w, m) = 0
      BY <3>2, <3>4 DEF Sums
    <3> QED
      BY <3>1, <3>2, <3>5 DEF DueQty
  <2>5. Unlogged = 0 /\ Managed = 0 /\ task["main"].at = "idle"
    BY <2>2, Tasked DEF Unlogged, At, Managed
  <2>6. Kept
    BY <2>2, <2>3, <2>4, <2>5, Tasked DEF Kept, Others
  <2>7. FlatOK
    BY <2>2, Tasked DEF FlatOK, At, Others
  <2> QED
    BY <2>1, <2>2, <2>3, <2>5, <2>6, <2>7
       DEF BooksInv, Alone, Places, LagOK, ClaimOK, LogOK, At
<1>2. Typed /\ BooksInv /\ [Next]_vars => (Typed /\ BooksInv)'
  BY StepTyped, StepKept
<1>3. Typed /\ BooksInv => NothingDisowned
  <2> SUFFICES ASSUME Typed, BooksInv PROVE own <= Managed + Unlogged
    BY DEF NothingDisowned
  <2>1. /\ own \in Nat /\ DueQty \in Nat /\ Managed \in Nat /\ Unlogged \in Nat
        /\ SoldBy("main") \in Nat /\ SoldBy("stream") \in Nat /\ "stream" \in Others
    BY DueTyped, AnswerTyped, SoldTyped, Tasked DEF Typed, ExchangeT, Others
  <2>2. CASE Gone
    BY <2>1, <2>2 DEF Gone
  <2>3. CASE Kept
    <3>1. own + DueQty + SoldBy("main") + SoldBy("stream") <= Managed + Unlogged
      BY <2>1, <2>3 DEF Kept
    <3> QED
      BY <2>1, <3>1
  <2> QED
    BY <2>2, <2>3 DEF BooksInv
<1> QED
  BY <1>1, <1>2, <1>3, PTL DEF Spec
=============================================================================
