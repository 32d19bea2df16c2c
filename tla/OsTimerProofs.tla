---------------------------- MODULE OsTimerProofs ----------------------------
(***************************************************************************)
(* Theorems about OsTimer for every set of timers, every set of delays and *)
(* steps, and every size of the pool.  What the list is like is proved for *)
(* ticks between the list operations (Preempt = FALSE); with ticks in the  *)
(* middle of them it is not so, as the run MCOsTimerPreempt shows.         *)
(***************************************************************************)
EXTENDS OsTimer, FiniteSetTheorems, WellFoundedInduction, TLAPS

-----------------------------------------------------------------------------
\* Lists as sequences of nodes.

N == Cardinality(Timer)

\* What is at place i of the list L of n nodes: Null before and behind it.
At(L, n, i) == IF i \in 1 .. n THEN L[i] ELSE Null

Nodes(L, n) == {L[i] : i \in 1 .. n}

\* L has no node twice.
Distinct(L, n) == \A i, j \in 1 .. n : L[i] = L[j] => i = j

\* The list that begins at first and goes on with link is L.
IsList(L, n, first, link) ==
  /\ first = At(L, n, 1)
  /\ \A i \in 1 .. n : link[L[i]] = At(L, n, i + 1)

Sorted(L, n, expiry) == \A i \in 1 .. n - 1 : expiry[L[i]] <= expiry[L[i + 1]]

\* L without the node at place p, and with t after place p.
Drop(L, n, p) == [i \in 1 .. n - 1 |-> IF i < p THEN L[i] ELSE L[i + 1]]
Put(L, n, p, t) ==
  [i \in 1 .. n + 1 |-> IF i <= p THEN L[i] ELSE IF i = p + 1 THEN t ELSE L[i - 1]]

\* What the second store of each, *iter = v with iter at place p, leaves in the
\* list's first node and in the links.
StoreFirst(first, p, v) == IF p = 0 THEN v ELSE first
StoreLink(link, L, p, v) == IF p = 0 THEN link ELSE [link EXCEPT ![L[p]] = v]

-----------------------------------------------------------------------------
\* The inductive invariant.

\* The node of an operation is alive, and the operation knows what follows;
\* the interrupt finds the main loop between operations.
MainOK ==
  /\ main.pc = "idle" => main = Idle
  /\ main.pc # "idle" => main.node \in alive /\ main.op # "none" /\ ~swi
  /\ main.pc # "idle" /\ main.op = "reset" => main.delay \in Delay
  /\ main.pc \in {"arm", "place", "link"} => main.op = "reset"
  /\ main.pc = "free" => main.op = "uninit"

\* is_pending: cleared before the node is cut, set before it is linked.
PendOK(S) ==
  \A t \in Timer :
    pend[t] <=> IF t = main.node /\ main.pc \in {"find", "cut", "place", "link"}
                THEN main.pc \in {"place", "link"}
                ELSE t \in S

\* The walk has come to place p: iter points there, cur is what comes after it.
\* The node to be cut is further on, the node to be placed expires later.
WalkOK(L, n, p) ==
  /\ main.pc = "find" =>
       /\ main.iter = At(L, n, p) /\ main.cur = At(L, n, p + 1)
       /\ \E q \in p + 1 .. n : L[q] = main.node
  /\ main.pc = "cut" =>
       /\ p < n /\ main.iter = At(L, n, p) /\ main.node = L[p + 1]
       /\ main.cur = At(L, n, p + 2)
  /\ main.pc \in {"arm", "place", "link", "free"} => main.node \notin Nodes(L, n)
  /\ main.pc \in {"place", "link"} =>
       /\ main.iter = At(L, n, p) /\ main.cur = At(L, n, p + 1)
       /\ p > 0 => rel[L[p]] <= rel[main.node]
  /\ main.pc = "link" =>
       /\ next[main.node] = main.cur
       /\ p < n => rel[main.node] <= rel[L[p + 1]]

\* The list the memory holds.
ListOK(L, n) ==
  /\ Distinct(L, n)
  /\ IsList(L, n, head, next)
  /\ Sorted(L, n, rel)
  /\ Nodes(L, n) \subseteq alive
  /\ PendOK(Nodes(L, n))
  /\ \E p \in 0 .. n : WalkOK(L, n, p)

\* A pending timer was asked for, and does not expire before it is wanted.
DueOK ==
  \A t \in Timer : pend[t] => /\ want[t] >= 0
                              /\ want[t] > 0 => rel[t] >= want[t]

ListInv == \E n \in 0 .. N : \E L \in [1 .. n -> Timer] : ListOK(L, n)

IInv ==
  /\ TypeOK
  /\ MainOK
  /\ ListInv
  /\ DueOK

-----------------------------------------------------------------------------
\* Numbers.

\* A set of natural numbers that is not empty has a smallest element.
LEMMA Smallest ==
  ASSUME NEW S \in SUBSET Nat, S # {}
  PROVE  \E m \in S : \A j \in S : m <= j
<1> DEFINE less == {ss \in Nat \X Nat : ss[1] < ss[2]}
<1>1. IsWellFoundedOn(less, Nat)
  BY NatLessThanWellFounded DEF OpToRel
<1>2. \A j, m \in Nat : j < m => <<j, m>> \in less
  OBVIOUS
<1> HIDE DEF less
<1>3. PICK m \in S : \A j \in S : <<j, m>> \notin less
  BY <1>1, WFMin
<1>4. \A j \in S : ~(j < m)
  BY <1>2, <1>3
<1> QED BY <1>4

\* The bounds of an expiry, and the number of nodes.
LEMMA Bounds ==
  /\ N \in Nat
  /\ MaxOf(Delay) \in Delay /\ \A d \in Delay : d \in Nat /\ 0 < d /\ d <= MaxOf(Delay)
  /\ MaxOf(Step) \in Step /\ \A s \in Step : s \in Nat /\ 0 < s /\ s <= MaxOf(Step)
  /\ Floor \in Int /\ Floor < 0 /\ Horizon \in Nat
  /\ Retry \in Nat /\ MaxOf(Delay) <= Horizon /\ Retry <= Horizon
<1>1. N \in Nat
  BY OsTimerAssumption, FS_CardinalityType DEF OsTimerAssumption, N
<1>2. MaxOf(Delay) \in Delay /\ \A d \in Delay : d \in Nat /\ 0 < d /\ d <= MaxOf(Delay)
  <2>1. /\ \E d \in Delay : \A e \in Delay : e <= d
        /\ \A d \in Delay : d \in Nat /\ 0 < d
    BY OsTimerAssumption DEF OsTimerAssumption
  <2>2. MaxOf(Delay) \in Delay /\ \A e \in Delay : e <= MaxOf(Delay)
    BY <2>1, Zenon DEF MaxOf
  <2> QED BY <2>1, <2>2
<1>3. MaxOf(Step) \in Step /\ \A s \in Step : s \in Nat /\ 0 < s /\ s <= MaxOf(Step)
  <2>1. /\ \E s \in Step : \A r \in Step : r <= s
        /\ \A s \in Step : s \in Nat /\ 0 < s
    BY OsTimerAssumption DEF OsTimerAssumption
  <2>2. MaxOf(Step) \in Step /\ \A r \in Step : r <= MaxOf(Step)
    BY <2>1, Zenon DEF MaxOf
  <2> QED BY <2>1, <2>2
<1>4. Retry \in Nat /\ Floor = -MaxOf(Step) /\ Horizon = MaxOf(Delay) + Retry
  BY OsTimerAssumption DEF OsTimerAssumption, Floor, Horizon
<1>5. /\ Floor \in Int /\ Floor < 0 /\ Horizon \in Nat
      /\ MaxOf(Delay) <= Horizon /\ Retry <= Horizon
  <2>1. MaxOf(Delay) \in Nat /\ MaxOf(Step) \in Nat /\ 0 < MaxOf(Step)
    BY <1>2, <1>3
  <2> QED BY <1>4, <2>1
<1> QED BY <1>1, <1>2, <1>3, <1>4, <1>5

-----------------------------------------------------------------------------
\* Walks.

\* What follows a place.
Follow(link, x) == IF x = Null THEN Null ELSE link[x]

\* The walk along any links, circular ones included, is defined for as many
\* turns as there are nodes.
LEMMA WalkFacts ==
  ASSUME NEW first \in Place, NEW link \in [Timer -> Place]
  PROVE  /\ Walk(first, link) \in [0 .. N -> Place]
         /\ Walk(first, link)[0] = first
         /\ \A k \in 1 .. N : Walk(first, link)[k] = Follow(link, Walk(first, link)[k - 1])
<1> DEFINE Good(n) == \E f \in [0 .. n -> Place] :
                        f[0] = first /\ \A k \in 1 .. n : f[k] = Follow(link, f[k - 1])
           Bad == {n \in Nat : ~Good(n)}
<1>1. \A x \in Place : Follow(link, x) \in Place
  BY DEF Follow, Place
<1>2. Bad = {}
  <2> SUFFICES ASSUME Bad # {} PROVE FALSE
    OBVIOUS
  <2>1. PICK m \in Bad : \A j \in Bad : m <= j
    BY Smallest
  <2>2. m \in Nat /\ ~Good(m)
    OBVIOUS
  <2>3. m # 0
    <3> DEFINE f == [k \in 0 .. 0 |-> first]
    <3>1. f \in [0 .. 0 -> Place] /\ f[0] = first
      OBVIOUS
    <3>2. \A k \in 1 .. 0 : f[k] = Follow(link, f[k - 1])
      OBVIOUS
    <3> HIDE DEF f
    <3>3. Good(0)
      BY <3>1, <3>2
    <3> HIDE DEF Good
    <3> QED BY <2>2, <3>3
  <2>4. Good(m - 1)
    <3>1. m - 1 \in Nat /\ ~(m <= m - 1)
      BY <2>2, <2>3
    <3> HIDE DEF Good
    <3> QED BY <2>1, <3>1
  <2>5. PICK f \in [0 .. m - 1 -> Place] :
          f[0] = first /\ \A k \in 1 .. m - 1 : f[k] = Follow(link, f[k - 1])
    BY <2>4
  <2> DEFINE g == [k \in 0 .. m |-> IF k < m THEN f[k] ELSE Follow(link, f[m - 1])]
  <2>6. g \in [0 .. m -> Place]
    BY <1>1, <2>2, <2>3
  <2>7. g[0] = first
    BY <2>2, <2>3, <2>5
  <2>8. \A k \in 1 .. m : g[k] = Follow(link, g[k - 1])
    BY <2>2, <2>3, <2>5
  <2> HIDE DEF g
  <2>9. Good(m)
    BY <2>6, <2>7, <2>8
  <2> HIDE DEF Good
  <2> QED BY <2>2, <2>9
<1>3. Good(N)
  <2>1. N \notin Bad /\ N \in Nat
    BY <1>2, Bounds
  <2> HIDE DEF Good
  <2> QED BY <2>1
<1>4. PICK f \in [0 .. N -> Place] :
        f[0] = first /\ \A k \in 1 .. N : f[k] = Follow(link, f[k - 1])
  BY <1>3
<1> DEFINE Rec(at) == [k \in 0 .. Cardinality(Timer) |->
                         IF k = 0 THEN first
                         ELSE IF at[k - 1] = Null THEN Null ELSE link[at[k - 1]]]
           w == CHOOSE at : at = Rec(at)
<1>5. f = Rec(f)
  BY <1>4, Bounds DEF Follow, N
<1>6. w = Rec(w)
  <2> HIDE DEF Rec
  <2> QED BY <1>5
<1>7. Walk(first, link) = w
  BY DEF Walk
<1> HIDE DEF w
<1>8. DOMAIN w = 0 .. N /\ w[0] = first
  BY <1>6, Bounds DEF N
<1>9. \A k \in 1 .. N : w[k] = Follow(link, w[k - 1])
  BY <1>6, Bounds DEF N, Follow
<1>10. w = [k \in 0 .. N |-> w[k]]
  BY <1>6, Zenon DEF N
<1> DEFINE Astray == {k \in 0 .. N : w[k] \notin Place}
<1>11. Astray = {}
  <2> SUFFICES ASSUME Astray # {} PROVE FALSE
    OBVIOUS
  <2> Astray \in SUBSET Nat
    BY Bounds
  <2>1. PICK m \in Astray : \A j \in Astray : m <= j
    <3> HIDE DEF Astray
    <3> QED BY Smallest
  <2>2. m # 0 /\ m \in 1 .. N
    BY <1>8, Bounds
  <2>3. m - 1 \in 0 .. N /\ ~(m <= m - 1)
    BY <2>2, Bounds
  <2>4. w[m - 1] \in Place
    BY <2>1, <2>3
  <2> QED BY <1>1, <1>9, <2>2, <2>4
<1> QED BY <1>7, <1>8, <1>9, <1>10, <1>11

-----------------------------------------------------------------------------
\* The list in memory and the sequence of its nodes.

\* No list is longer than there are nodes.
LEMMA NotTooLong ==
  ASSUME NEW n \in Nat, NEW L \in [1 .. n -> Timer], Distinct(L, n)
  PROVE  n <= N
<1>1. L \in Injection(1 .. n, Timer)
  BY DEF Distinct, Injection, IsInjective
<1>2. IsFiniteSet(Timer)
  BY OsTimerAssumption DEF OsTimerAssumption
<1>3. Cardinality(1 .. n) <= Cardinality(Timer)
  BY <1>1, <1>2, FS_Injection
<1>4. Cardinality(1 .. n) = n
  BY FS_Interval
<1> QED BY <1>3, <1>4 DEF N

\* A walk meets the nodes one by one, and then Null.
LEMMA WalkList ==
  ASSUME NEW n \in 0 .. N, NEW L \in [1 .. n -> Timer],
         NEW first \in Place, NEW link \in [Timer -> Place], IsList(L, n, first, link)
  PROVE  \A k \in 0 .. N : Walk(first, link)[k] = At(L, n, k + 1)
<1> DEFINE w == Walk(first, link)
           Bad == {k \in 0 .. N : w[k] # At(L, n, k + 1)}
<1>1. N \in Nat /\ Null \notin Timer
  BY Bounds, OsTimerAssumption DEF OsTimerAssumption
<1>2. w[0] = first /\ \A k \in 1 .. N : w[k] = Follow(link, w[k - 1])
  BY WalkFacts
<1>3. \A k \in 1 .. N : Follow(link, At(L, n, k)) = At(L, n, k + 1)
  BY <1>1 DEF Follow, IsList, At
<1> HIDE DEF w
<1> SUFFICES ASSUME Bad # {} PROVE FALSE
  BY DEF w
<1>4. PICK m \in Bad : \A j \in Bad : m <= j
  <2> Bad \in SUBSET Nat
    BY <1>1
  <2> HIDE DEF Bad
  <2> QED BY Smallest
<1>5. m # 0
  BY <1>2, <1>4 DEF IsList
<1>6. m \in 1 .. N /\ m - 1 \in 0 .. N /\ ~(m <= m - 1) /\ (m - 1) + 1 = m
  BY <1>1, <1>4, <1>5
<1>7. w[m - 1] = At(L, n, m)
  BY <1>4, <1>6
<1>8. w[m] = At(L, n, m + 1)
  BY <1>2, <1>3, <1>6, <1>7
<1> QED BY <1>4, <1>8

\* The nodes that Listed collects.
LEMMA ListedNodes ==
  ASSUME NEW n \in 0 .. N, NEW L \in [1 .. n -> Timer],
         head \in Place, next \in [Timer -> Place], IsList(L, n, head, next), Distinct(L, n)
  PROVE  /\ Listed = Nodes(L, n)
         /\ Walk(head, next)[N] = Null
<1> DEFINE w == Walk(head, next)
<1>1. N \in Nat /\ Null \notin Timer
  BY Bounds, OsTimerAssumption DEF OsTimerAssumption
<1>2. DOMAIN w = 0 .. N /\ \A k \in 0 .. N : w[k] = At(L, n, k + 1)
  BY WalkFacts, WalkList
<1>3. Listed = {w[k] : k \in 0 .. N} \ {Null}
  BY <1>2 DEF Listed
<1> HIDE DEF w
<1>4. ASSUME NEW x \in Listed PROVE x \in Nodes(L, n)
  BY <1>1, <1>2, <1>3, <1>4 DEF At, Nodes
<1>5. ASSUME NEW i \in 1 .. n PROVE L[i] \in Listed
  <2>1. i - 1 \in 0 .. N /\ (i - 1) + 1 = i
    BY <1>1
  <2>2. w[i - 1] = L[i]
    BY <1>2, <2>1 DEF At
  <2> QED BY <1>1, <1>3, <2>1, <2>2
<1>6. w[N] = Null
  BY <1>1, <1>2 DEF At
<1> QED BY <1>4, <1>5, <1>6 DEF Nodes, w

\* Cutting the node at place p: whoever pointed to it points to what follows it.
LEMMA DropFacts ==
  ASSUME NEW n \in Nat, NEW L \in [1 .. n -> Timer], Distinct(L, n),
         NEW p \in 1 .. n,
         NEW first, NEW link \in [Timer -> Place], IsList(L, n, first, link)
  PROVE  LET M == Drop(L, n, p)
             v == At(L, n, p + 1)
         IN  /\ M \in [1 .. n - 1 -> Timer]
             /\ Distinct(M, n - 1)
             /\ Nodes(M, n - 1) = Nodes(L, n) \ {L[p]}
             /\ IsList(M, n - 1, StoreFirst(first, p - 1, v), StoreLink(link, L, p - 1, v))
<1> DEFINE M == Drop(L, n, p)
           nx == IF p = 1 THEN link ELSE [link EXCEPT ![L[p - 1]] = At(L, n, p + 1)]
<1>1. /\ M \in [1 .. n - 1 -> Timer]
      /\ \A i \in 1 .. n - 1 : M[i] = IF i < p THEN L[i] ELSE L[i + 1]
  BY DEF Drop
<1>2. n \in Nat /\ n >= 1 /\ p \in Nat /\ p >= 1 /\ p <= n
  OBVIOUS
<1> HIDE DEF M
<1>3. \A i \in 1 .. n - 1 : i \in 1 .. n /\ i + 1 \in 1 .. n
  BY <1>2
<1>4. Distinct(M, n - 1)
  <2> SUFFICES ASSUME NEW i \in 1 .. n - 1, NEW j \in 1 .. n - 1, M[i] = M[j]
               PROVE  i = j
    BY DEF Distinct
  <2>1. i \in 1 .. n /\ i + 1 \in 1 .. n /\ j \in 1 .. n /\ j + 1 \in 1 .. n
    BY <1>3
  <2>2. \A x, y \in 1 .. n : L[x] = L[y] => x = y
    BY DEF Distinct
  <2> QED BY <1>1, <1>2, <2>1, <2>2
<1>5. Nodes(M, n - 1) = Nodes(L, n) \ {L[p]}
  <2>1. ASSUME NEW i \in 1 .. n - 1 PROVE M[i] \in Nodes(L, n) \ {L[p]}
    BY <1>1, <1>2, <1>3 DEF Nodes, Distinct
  <2>2. ASSUME NEW i \in 1 .. n, L[i] # L[p] PROVE L[i] \in Nodes(M, n - 1)
    <3>1. CASE i < p
      <4>1. i \in 1 .. n - 1 /\ M[i] = L[i]
        BY <1>1, <1>2, <3>1
      <4> QED BY <4>1 DEF Nodes
    <3>2. CASE i > p
      <4>1. i - 1 \in 1 .. n - 1 /\ M[i - 1] = L[i]
        BY <1>1, <1>2, <3>2
      <4> QED BY <4>1 DEF Nodes
    <3> QED BY <1>2, <2>2, <3>1, <3>2
  <2> QED BY <2>1, <2>2 DEF Nodes
<1>6. IsList(M, n - 1, IF p = 1 THEN At(L, n, 2) ELSE first, nx)
  <2>1. At(M, n - 1, 1) = IF p = 1 THEN At(L, n, 2) ELSE first
    BY <1>1, <1>2 DEF At, IsList
  <2>2. ASSUME NEW i \in 1 .. n - 1 PROVE nx[M[i]] = At(M, n - 1, i + 1)
    <3>1. CASE i < p - 1
      <4>1. M[i] = L[i] /\ L[i] # L[p - 1] /\ i \in 1 .. n
        BY <1>1, <1>2, <3>1 DEF Distinct
      <4>2. nx[M[i]] = L[i + 1]
        BY <1>2, <3>1, <4>1 DEF IsList, At
      <4> QED BY <1>1, <1>2, <3>1, <4>2 DEF At
    <3>2. CASE i = p - 1
      <4>1. M[i] = L[p - 1] /\ p # 1 /\ L[p - 1] \in Timer
        BY <1>1, <1>2, <3>2
      <4>2. nx[M[i]] = At(L, n, p + 1)
        BY <4>1
      <4> QED BY <1>1, <1>2, <3>2, <4>2 DEF At
    <3>3. CASE i >= p
      <4>1. M[i] = L[i + 1] /\ i + 1 \in 1 .. n /\ link[L[i + 1]] = At(L, n, i + 2)
        BY <1>1, <1>2, <3>3 DEF IsList
      <4>2. nx[M[i]] = At(L, n, i + 2)
        <5>1. p # 1 => L[i + 1] # L[p - 1]
          BY <1>2, <3>3, <4>1 DEF Distinct
        <5> QED BY <4>1, <5>1
      <4> QED BY <1>1, <1>2, <3>3, <4>2 DEF At
    <3> QED BY <1>2, <3>1, <3>2, <3>3
  <2> QED BY <2>1, <2>2 DEF IsList
<1>7. /\ StoreFirst(first, p - 1, At(L, n, p + 1)) = IF p = 1 THEN At(L, n, 2) ELSE first
      /\ StoreLink(link, L, p - 1, At(L, n, p + 1)) = nx
  BY <1>2 DEF StoreFirst, StoreLink
<1> HIDE DEF nx
<1> QED BY <1>1, <1>4, <1>5, <1>6, <1>7 DEF M

\* Taking the first node off the list.
LEMMA PopFacts ==
  ASSUME NEW n \in Nat, n >= 1, NEW L \in [1 .. n -> Timer], Distinct(L, n),
         NEW first, NEW link \in [Timer -> Place], IsList(L, n, first, link)
  PROVE  /\ Drop(L, n, 1) \in [1 .. n - 1 -> Timer]
         /\ Distinct(Drop(L, n, 1), n - 1)
         /\ Nodes(Drop(L, n, 1), n - 1) = Nodes(L, n) \ {L[1]}
         /\ IsList(Drop(L, n, 1), n - 1, At(L, n, 2), link)
<1>1. /\ 1 \in 1 .. n
      /\ StoreFirst(first, 1 - 1, At(L, n, 1 + 1)) = At(L, n, 2)
      /\ StoreLink(link, L, 1 - 1, At(L, n, 1 + 1)) = link
  BY DEF StoreFirst, StoreLink
<1>2. /\ Drop(L, n, 1) \in [1 .. n - 1 -> Timer]
      /\ Distinct(Drop(L, n, 1), n - 1)
      /\ Nodes(Drop(L, n, 1), n - 1) = Nodes(L, n) \ {L[1]}
      /\ IsList(Drop(L, n, 1), n - 1, StoreFirst(first, 1 - 1, At(L, n, 1 + 1)),
                                       StoreLink(link, L, 1 - 1, At(L, n, 1 + 1)))
  BY <1>1, DropFacts
<1> QED BY <1>1, <1>2

\* Placing a node after place p: it points to what follows, and whoever pointed
\* to that points to it.
LEMMA PutFacts ==
  ASSUME NEW n \in Nat, NEW L \in [1 .. n -> Timer], Distinct(L, n),
         NEW p \in 0 .. n, NEW t \in Timer, t \notin Nodes(L, n),
         NEW first, NEW link \in [Timer -> Place], IsList(L, n, first, link),
         link[t] = At(L, n, p + 1)
  PROVE  LET M == Put(L, n, p, t)
         IN  /\ M \in [1 .. n + 1 -> Timer]
             /\ Distinct(M, n + 1)
             /\ Nodes(M, n + 1) = Nodes(L, n) \cup {t}
             /\ IsList(M, n + 1, StoreFirst(first, p, t), StoreLink(link, L, p, t))
             /\ n + 1 <= N
<1> DEFINE M == Put(L, n, p, t)
           nx == IF p = 0 THEN link ELSE [link EXCEPT ![L[p]] = t]
<1>1. /\ M \in [1 .. n + 1 -> Timer]
      /\ \A i \in 1 .. n + 1 :
           M[i] = IF i <= p THEN L[i] ELSE IF i = p + 1 THEN t ELSE L[i - 1]
  <2>1. \A i \in 1 .. n + 1 : /\ i <= p => i \in 1 .. n
                             /\ ~(i <= p) /\ i # p + 1 => i - 1 \in 1 .. n
    OBVIOUS
  <2> QED BY <2>1 DEF Put
<1>2. n \in Nat /\ p \in Nat /\ p <= n /\ n + 1 \in Nat
  OBVIOUS
<1>3. \A i \in 1 .. n : L[i] # t
  BY DEF Nodes
<1> HIDE DEF M
<1>4. Distinct(M, n + 1)
  <2> SUFFICES ASSUME NEW i \in 1 .. n + 1, NEW j \in 1 .. n + 1, M[i] = M[j]
               PROVE  i = j
    BY DEF Distinct
  <2>1. \A x, y \in 1 .. n : L[x] = L[y] => x = y
    BY DEF Distinct
  <2> DEFINE from(x) == IF x <= p THEN x ELSE x - 1
  <2>2. ASSUME NEW x \in 1 .. n + 1
        PROVE  x # p + 1 => from(x) \in 1 .. n /\ M[x] = L[from(x)]
    BY <1>1, <1>2
  <2>3. M[p + 1] = t
    BY <1>1, <1>2
  <2>4. CASE i = p + 1 \/ j = p + 1
    <3>1. i = p + 1 /\ j # p + 1 => FALSE
      BY <1>3, <2>2, <2>3
    <3>2. j = p + 1 /\ i # p + 1 => FALSE
      BY <1>3, <2>2, <2>3
    <3> QED BY <2>4, <3>1, <3>2
  <2>5. CASE i # p + 1 /\ j # p + 1
    <3>1. from(i) = from(j)
      <4> HIDE DEF from
      <4> QED BY <2>1, <2>2, <2>5
    <3> QED BY <1>2, <2>5, <3>1
  <2> QED BY <2>4, <2>5
<1>5. Nodes(M, n + 1) = Nodes(L, n) \cup {t}
  <2>1. ASSUME NEW i \in 1 .. n + 1 PROVE M[i] \in Nodes(L, n) \cup {t}
    BY <1>1, <1>2 DEF Nodes
  <2>2. t \in Nodes(M, n + 1)
    <3>1. p + 1 \in 1 .. n + 1 /\ M[p + 1] = t
      BY <1>1, <1>2
    <3> QED BY <3>1 DEF Nodes
  <2>3. ASSUME NEW i \in 1 .. n PROVE L[i] \in Nodes(M, n + 1)
    <3>1. CASE i <= p
      <4>1. i \in 1 .. n + 1 /\ M[i] = L[i]
        BY <1>1, <1>2, <3>1
      <4> QED BY <4>1 DEF Nodes
    <3>2. CASE i > p
      <4>1. i + 1 \in 1 .. n + 1 /\ M[i + 1] = L[i]
        BY <1>1, <1>2, <3>2
      <4> QED BY <4>1 DEF Nodes
    <3> QED BY <1>2, <3>1, <3>2
  <2> QED BY <2>1, <2>2, <2>3 DEF Nodes
<1>6. IsList(M, n + 1, IF p = 0 THEN t ELSE first, nx)
  <2>1. At(M, n + 1, 1) = IF p = 0 THEN t ELSE first
    BY <1>1, <1>2 DEF At, IsList
  <2>2. ASSUME NEW i \in 1 .. n + 1 PROVE nx[M[i]] = At(M, n + 1, i + 1)
    <3>1. CASE i < p
      <4>1. M[i] = L[i] /\ L[i] # L[p] /\ i \in 1 .. n
        BY <1>1, <1>2, <3>1 DEF Distinct
      <4>2. nx[M[i]] = L[i + 1]
        BY <1>2, <3>1, <4>1 DEF IsList, At
      <4> QED BY <1>1, <1>2, <3>1, <4>2 DEF At
    <3>2. CASE i = p
      <4>1. M[i] = L[p] /\ p # 0 /\ L[p] \in Timer
        BY <1>1, <1>2, <3>2
      <4>2. nx[M[i]] = t
        BY <4>1
      <4> QED BY <1>1, <1>2, <3>2, <4>2 DEF At
    <3>3. CASE i = p + 1
      <4>1. M[i] = t /\ p # 0 => L[p] # t
        BY <1>1, <1>2, <1>3, <3>3
      <4>2. nx[M[i]] = At(L, n, p + 1)
        BY <1>1, <1>2, <1>3, <3>3, <4>1
      <4> QED BY <1>1, <1>2, <3>3, <4>2 DEF At
    <3>4. CASE i > p + 1
      <4>1. M[i] = L[i - 1] /\ i - 1 \in 1 .. n
        BY <1>1, <1>2, <3>4
      <4>2. link[L[i - 1]] = At(L, n, (i - 1) + 1)
        BY <4>1 DEF IsList
      <4>3. p # 0 => L[i - 1] # L[p]
        BY <1>2, <3>4, <4>1 DEF Distinct
      <4>4. nx[M[i]] = At(L, n, i)
        BY <1>2, <4>1, <4>2, <4>3
      <4> QED BY <1>1, <1>2, <3>4, <4>4 DEF At
    <3> QED BY <1>2, <3>1, <3>2, <3>3, <3>4
  <2> QED BY <2>1, <2>2 DEF IsList
<1>7. n + 1 <= N
  BY <1>1, <1>2, <1>4, NotTooLong
<1>8. /\ StoreFirst(first, p, t) = IF p = 0 THEN t ELSE first
      /\ StoreLink(link, L, p, t) = nx
  BY DEF StoreFirst, StoreLink
<1> HIDE DEF nx
<1> QED BY <1>1, <1>4, <1>5, <1>6, <1>7, <1>8 DEF M

\* Both keep a sorted list sorted, if the place is the right one.
LEMMA DropSorted ==
  ASSUME NEW n \in Nat, NEW L \in [1 .. n -> Timer], NEW p \in 1 .. n,
         NEW expiry \in [Timer -> Int], Sorted(L, n, expiry)
  PROVE  Sorted(Drop(L, n, p), n - 1, expiry)
<1> SUFFICES ASSUME NEW i \in 1 .. (n - 1) - 1
             PROVE  expiry[Drop(L, n, p)[i]] <= expiry[Drop(L, n, p)[i + 1]]
  BY DEF Sorted
<1>1. /\ Drop(L, n, p)[i] = IF i < p THEN L[i] ELSE L[i + 1]
      /\ Drop(L, n, p)[i + 1] = IF i + 1 < p THEN L[i + 1] ELSE L[i + 2]
  BY DEF Drop
<1>2. /\ expiry[L[i]] <= expiry[L[i + 1]] /\ expiry[L[i + 1]] <= expiry[L[i + 2]]
  BY DEF Sorted
<1>3. /\ expiry[L[i]] \in Int /\ expiry[L[i + 1]] \in Int /\ expiry[L[i + 2]] \in Int
  <2>1. i \in 1 .. n /\ i + 1 \in 1 .. n /\ i + 2 \in 1 .. n
    OBVIOUS
  <2> QED BY <2>1
<1> QED BY <1>1, <1>2, <1>3

\* A list stays sorted when a node is put where its expiry belongs.
LEMMA PutSorted ==
  ASSUME NEW n \in Nat, NEW L \in [1 .. n -> Timer], NEW p \in 0 .. n, NEW t \in Timer,
         NEW expiry \in [Timer -> Int], Sorted(L, n, expiry),
         p > 0 => expiry[L[p]] <= expiry[t],
         p < n => expiry[t] <= expiry[L[p + 1]]
  PROVE  Sorted(Put(L, n, p, t), n + 1, expiry)
<1> SUFFICES ASSUME NEW i \in 1 .. (n + 1) - 1
             PROVE  expiry[Put(L, n, p, t)[i]] <= expiry[Put(L, n, p, t)[i + 1]]
  BY DEF Sorted
<1>1. /\ Put(L, n, p, t)[i] = IF i <= p THEN L[i] ELSE IF i = p + 1 THEN t ELSE L[i - 1]
      /\ Put(L, n, p, t)[i + 1] =
           IF i + 1 <= p THEN L[i + 1] ELSE IF i + 1 = p + 1 THEN t ELSE L[(i + 1) - 1]
  BY DEF Put
<1>2. CASE i < p
  BY <1>1, <1>2 DEF Sorted
<1>3. CASE i = p
  BY <1>1, <1>3
<1>4. CASE i = p + 1
  BY <1>1, <1>4
<1>5. CASE i > p + 1
  <2>1. i - 1 \in 1 .. n - 1 /\ (i - 1) + 1 = i /\ (i + 1) - 1 = i
    BY <1>5
  <2>2. expiry[L[i - 1]] <= expiry[L[i]]
    BY <2>1 DEF Sorted
  <2>3. Put(L, n, p, t)[i] = L[i - 1] /\ Put(L, n, p, t)[i + 1] = L[i]
    BY <1>1, <1>5, <2>1
  <2> QED BY <2>2, <2>3
<1> QED BY <1>2, <1>3, <1>4, <1>5

-----------------------------------------------------------------------------
\* Types, wherever ticks arrive.

\* An operation under way has a node.
Running == main.pc # "idle" => main.node \in Timer /\ main.op # "none"

TypeInv == TypeOK /\ Running

\* The bounds again, as the actions on the expiries need them.
LEMMA Expiries ==
  /\ \A x \in Floor .. Horizon : \A s \in Step : Up(x - s) \in Floor .. Horizon
  /\ \A x \in Floor .. Horizon : x <= 0 => x + Retry \in Floor .. Horizon
  /\ \A d \in Delay \cup {0} : d \in Floor .. Horizon /\ d \in Off .. MaxOf(Delay)
  /\ Off \in Off .. MaxOf(Delay)
  BY Bounds DEF Up, Off

\* The refused timer goes to a place the walk has come to.
LEMMA RetryFacts ==
  ASSUME TypeOK, SwiRetry
  PROVE  LET late == [rel EXCEPT ![head] = @ + Retry]
             at == Walk(next[head], next)
             stops == {k \in 0 .. N : at[k] = Null \/ late[at[k]] >= late[head]}
         IN  /\ rel' = late /\ pend' = [pend EXCEPT ![head] = TRUE]
             /\ head \in Timer /\ rel[head] <= 0
             /\ at \in [0 .. N -> Place]
             /\ \E k \in stops :
                  /\ \A j \in stops : k <= j
                  /\ k > 0 => at[k - 1] \in Timer
                  /\ next' = IF k = 0 THEN [next EXCEPT ![head] = at[0]]
                             ELSE [next EXCEPT ![head] = at[k], ![at[k - 1]] = head]
                  /\ head' = IF k = 0 THEN head ELSE next[head]
<1> DEFINE late == [rel EXCEPT ![head] = @ + Retry]
           at == Walk(next[head], next)
           stops == {k \in DOMAIN at : at[k] = Null \/ late[at[k]] >= late[head]}
           k0 == CHOOSE k \in stops : \A j \in stops : k <= j
<1>1. head \in Timer /\ rel[head] <= 0 /\ next \in [Timer -> Place]
  BY DEF SwiRetry, Expired, TypeOK, Place
<1>2. at \in [0 .. N -> Place] /\ DOMAIN at = 0 .. N
  <2>1. next[head] \in Place
    BY <1>1
  <2> QED BY <1>1, <2>1, WalkFacts
<1>3. /\ stops # {}
      /\ rel' = late
      /\ pend' = [pend EXCEPT ![head] = TRUE]
      /\ IF k0 = 0
         THEN /\ next' = [next EXCEPT ![head] = at[0]]
              /\ UNCHANGED head
         ELSE /\ next' = [next EXCEPT ![head] = at[k0], ![at[k0 - 1]] = head]
              /\ head' = next[head]
  BY DEF SwiRetry
<1> HIDE DEF at, late
<1>4. k0 \in stops /\ \A j \in stops : k0 <= j
  <2>1. stops \in SUBSET Nat
    BY <1>2, Bounds
  <2> HIDE DEF stops
  <2>2. \E k \in stops : \A j \in stops : k <= j
    BY <1>3, <2>1, Smallest
  <2> QED BY <2>2
<1>5. k0 > 0 => at[k0 - 1] \in Timer
  <2> HIDE DEF k0
  <2> SUFFICES ASSUME k0 > 0 PROVE at[k0 - 1] \in Timer
    OBVIOUS
  <2>1. k0 \in 0 .. N /\ N \in Nat
    BY <1>2, <1>4, Bounds
  <2>2. k0 - 1 \in 0 .. N /\ ~(k0 <= k0 - 1)
    BY <2>1
  <2>3. at[k0 - 1] # Null /\ at[k0 - 1] \in Place
    BY <1>2, <1>4, <2>2
  <2> QED BY <2>3 DEF Place
<1>6. stops = {k \in 0 .. N : at[k] = Null \/ late[at[k]] >= late[head]}
  BY <1>2
<1> HIDE DEF stops, k0
<1>7. /\ next' = IF k0 = 0 THEN [next EXCEPT ![head] = at[0]]
                 ELSE [next EXCEPT ![head] = at[k0], ![at[k0 - 1]] = head]
      /\ head' = IF k0 = 0 THEN head ELSE next[head]
  BY <1>3
<1>8. k0 \in stops /\ (k0 > 0 => at[k0 - 1] \in Timer) /\ \A j \in stops : k0 <= j
  BY <1>4, <1>5
<1> QED BY <1>1, <1>2, <1>3, <1>6, <1>7, <1>8 DEF at, late

\* Storing a place keeps the list's type.
LEMMA WriteType ==
  ASSUME TypeOK, NEW i \in Place, NEW v \in Place, Write(i, v)
  PROVE  head' \in Place /\ next' \in [Timer -> Place]
BY DEF TypeOK, Write, Place

\* What is left of an operation after its search.
LEMMA ResumeType ==
  ASSUME TypeInv, main.pc \in {"find", "cut"}, main' = Resume(main.op)
  PROVE  /\ main' \in [op : {"none", "stop", "reset", "uninit"},
                      pc : {"idle", "find", "cut", "arm", "place", "link", "free"},
                      node : Place, delay : Delay \cup {0}, iter : Place, cur : Place]
         /\ Running'
<1>1. CASE main.op = "stop"
  BY <1>1 DEF TypeInv, TypeOK, Resume, Idle, Running, Place
<1>2. CASE main.op \in {"reset", "uninit"}
  BY <1>2 DEF TypeInv, TypeOK, Resume, AfterStop, Running, Place
<1> QED BY <1>1, <1>2 DEF TypeInv, TypeOK, Running

\* Every step keeps the types, also a tick in the middle of an operation.
LEMMA TypeStep ==
  ASSUME TypeInv, [Next]_vars
  PROVE  TypeInv'
<1> USE DEF TypeInv, TypeOK
<1>1. ASSUME NEW s \in Step, Tick(s) PROVE TypeInv'
  <2>1. rel' \in [Timer -> Floor .. Horizon]
    BY <1>1, Expiries DEF Tick
  <2>2. want' \in [Timer -> Off .. MaxOf(Delay)]
    <3>1. \A w \in Off .. MaxOf(Delay) :
            (IF w > s THEN w - s ELSE IF w > 0 THEN 0 ELSE w) \in Off .. MaxOf(Delay)
      BY Bounds DEF Off
    <3>2. want \in [Timer -> Off .. MaxOf(Delay)]
      OBVIOUS
    <3> HIDE DEF TypeInv, TypeOK
    <3> QED BY <1>1, <3>1, <3>2 DEF Tick
  <2> QED BY <1>1, <2>1, <2>2 DEF Tick, Running
<1>2. CASE SwiPost
  <2>1. head \in Timer /\ head' = next[head] /\ next' = next
    BY <1>2 DEF SwiPost, Expired, Place
  <2>2. head' \in Place /\ next' \in [Timer -> Place]
    BY <2>1
  <2>3. queue' \in Seq(Timer \cup {Other}) /\ Len(queue') <= Cap
    <3>1. Cap \in Nat
      BY OsTimerAssumption DEF OsTimerAssumption
    <3> QED BY <1>2, <2>1, <3>1 DEF SwiPost
  <2> QED BY <1>2, <2>1, <2>2, <2>3 DEF SwiPost, Running
<1>3. CASE SwiRetry
  <2> DEFINE at == Walk(next[head], next)
  <2>1. /\ head \in Timer /\ at \in [0 .. N -> Place]
        /\ \E k \in 0 .. N :
             /\ k > 0 => at[k - 1] \in Timer
             /\ next' = IF k = 0 THEN [next EXCEPT ![head] = at[0]]
                        ELSE [next EXCEPT ![head] = at[k], ![at[k - 1]] = head]
             /\ head' = IF k = 0 THEN head ELSE next[head]
    BY <1>3, RetryFacts
  <2> HIDE DEF at
  <2>2. head' \in Place /\ next' \in [Timer -> Place]
    <3>1. 0 \in 0 .. N /\ next \in [Timer -> Place]
      BY Bounds DEF Place
    <3>2. PICK k \in 0 .. N :
            /\ k > 0 => at[k - 1] \in Timer
            /\ next' = IF k = 0 THEN [next EXCEPT ![head] = at[0]]
                       ELSE [next EXCEPT ![head] = at[k], ![at[k - 1]] = head]
            /\ head' = IF k = 0 THEN head ELSE next[head]
      BY <2>1
    <3>3. CASE k = 0
      BY <2>1, <3>1, <3>2, <3>3 DEF Place
    <3>4. CASE k # 0
      <4>1. at[k] \in Place /\ at[k - 1] \in Timer /\ head \in Place
        <5>1. at[k] \in Place /\ k > 0
          BY <2>1, <3>2, <3>4
        <5> QED BY <2>1, <3>2, <5>1 DEF Place
      <4> QED BY <2>1, <3>1, <3>2, <3>4, <4>1
    <3> QED BY <3>3, <3>4
  <2>3. rel' \in [Timer -> Floor .. Horizon]
    <3>1. rel' = [rel EXCEPT ![head] = @ + Retry] /\ head \in Timer /\ rel[head] <= 0
      BY <1>3, RetryFacts
    <3> QED BY <3>1, Expiries
  <2>4. pend' \in [Timer -> BOOLEAN]
    BY <1>3 DEF SwiRetry
  <2> QED BY <1>3, <2>2, <2>3, <2>4 DEF SwiRetry, Running
<1>4. CASE SwiDone
  BY <1>4 DEF SwiDone, list, Running
<1>5. ASSUME NEW t \in Timer, os_timer_init(t) PROVE TypeInv'
  <2>1. 0 \in Floor .. Horizon
    BY Expiries
  <2> QED BY <1>5, <2>1 DEF os_timer_init, Running, Place
<1>6. ASSUME NEW t \in Timer, NEW op \in {"stop", "reset", "uninit"},
             NEW d \in Delay \cup {0}, Begin(op, t, d)
      PROVE  TypeInv'
  <2>1. want' \in [Timer -> Off .. MaxOf(Delay)]
    BY <1>6, Expiries DEF Begin
  <2>2. pend' \in [Timer -> BOOLEAN]
    BY <1>6 DEF Begin
  <2>3. /\ main' \in [op : {"none", "stop", "reset", "uninit"},
                     pc : {"idle", "find", "cut", "arm", "place", "link", "free"},
                     node : Place, delay : Delay \cup {0}, iter : Place, cur : Place]
        /\ Running'
    BY <1>6 DEF Begin, Idle, AfterStop, Running, Place
  <2> QED BY <1>6, <2>1, <2>2, <2>3 DEF Begin
<1>7. CASE Find
  <2>1. CASE main.cur = Null
    <3>1. main' = Resume(main.op) /\ main.pc = "find"
      <4>1. main.pc = "find"
        BY <1>7 DEF Find, MainAt
      <4>2. main.node # Null
        BY <4>1, OsTimerAssumption DEF OsTimerAssumption, Running
      <4> QED BY <1>7, <2>1, <4>1, <4>2 DEF Find
    <3> QED BY <1>7, <3>1, ResumeType DEF Find, list
  <2>2. CASE main.cur # Null /\ main.cur = main.node
    <3>1. main' = [main EXCEPT !.pc = "cut", !.cur = next[main.node]] /\ main.pc = "find"
      BY <1>7, <2>2 DEF Find, MainAt
    <3> QED BY <1>7, <3>1 DEF Find, list, Running
  <2>3. CASE main.cur # Null /\ main.cur # main.node
    <3>1. main' = [main EXCEPT !.iter = main.cur, !.cur = next[main.cur]]
            /\ main.pc = "find" /\ main.cur \in Timer
      BY <1>7, <2>3 DEF Find, MainAt, Place
    <3> QED BY <1>7, <3>1 DEF Find, list, Running
  <2> QED BY <2>1, <2>2, <2>3
<1>8. CASE Cut
  <2>1. main.iter \in Place /\ main.cur \in Place /\ Write(main.iter, main.cur)
          /\ main.pc = "cut" /\ main' = Resume(main.op)
    BY <1>8 DEF Cut, MainAt
  <2> QED BY <1>8, <2>1, WriteType, ResumeType DEF Cut
<1>9. CASE Arm
  <2>1. main.delay \in Floor .. Horizon /\ main.delay \in Off .. MaxOf(Delay)
    BY Expiries
  <2> QED BY <1>9, <2>1 DEF Arm, MainAt, Running, Place
<1>10. CASE PlaceNode
  <2>1. CASE main.cur = Null \/ rel[main.cur] >= rel[main.node]
    <3>1. next' = [next EXCEPT ![main.node] = main.cur] /\ main' = [main EXCEPT !.pc = "link"]
            /\ main.pc = "place"
      BY <1>10, <2>1 DEF PlaceNode, MainAt
    <3> QED BY <1>10, <3>1 DEF PlaceNode, Running
  <2>2. CASE ~(main.cur = Null \/ rel[main.cur] >= rel[main.node])
    <3>1. main' = [main EXCEPT !.iter = main.cur, !.cur = next[main.cur]] /\ next' = next
            /\ main.pc = "place" /\ main.cur \in Timer
      BY <1>10, <2>2 DEF PlaceNode, MainAt, Place
    <3> QED BY <1>10, <3>1 DEF PlaceNode, Running
  <2> QED BY <2>1, <2>2
<1>11. CASE Link
  <2>1. main.iter \in Place /\ main.node \in Place /\ Write(main.iter, main.node)
    BY <1>11 DEF Link
  <2> QED BY <1>11, <2>1, WriteType DEF Link, Idle, Running, Place
<1>12. CASE Free
  BY <1>12 DEF Free, list, Idle, Running, Place
<1>13. CASE Dispatch
  <2>1. want' \in [Timer -> Off .. MaxOf(Delay)]
    BY <1>13, Expiries DEF Dispatch
  <2>2. queue' \in Seq(Timer \cup {Other}) /\ Len(queue') <= Cap
    <3>1. Cap \in Nat
      BY OsTimerAssumption DEF OsTimerAssumption
    <3> QED BY <1>13, <3>1 DEF Dispatch
  <2> QED BY <1>13, <2>1, <2>2 DEF Dispatch, list, Running
<1>14. CASE msg_clear_all
  <2>1. want' \in [Timer -> Off .. MaxOf(Delay)]
    BY <1>14, Expiries DEF msg_clear_all
  <2>2. queue' \in Seq(Timer \cup {Other}) /\ Len(queue') <= Cap
    <3>1. Cap \in Nat
      BY OsTimerAssumption DEF OsTimerAssumption
    <3> QED BY <1>14, <3>1 DEF msg_clear_all
  <2> QED BY <1>14, <2>1, <2>2 DEF msg_clear_all, list, Running
<1>15. CASE PostOther
  <2>1. Cap \in Nat /\ Others \in Nat
    BY OsTimerAssumption DEF OsTimerAssumption
  <2>2. queue' \in Seq(Timer \cup {Other}) /\ Len(queue') <= Cap
    BY <1>15, <2>1 DEF PostOther
  <2>3. others' \in 0 .. Others
    BY <1>15, <2>1 DEF PostOther
  <2> QED BY <1>15, <2>2, <2>3 DEF PostOther, list, Running
<1>16. CASE UNCHANGED vars
  BY <1>16 DEF vars, list, Running
<1> QED
  BY <1>1, <1>2, <1>3, <1>4, <1>5, <1>6, <1>7, <1>8, <1>9, <1>10, <1>11, <1>12, <1>13,
     <1>14, <1>15, <1>16
  DEF Next, Interrupt, Call, ListOperation, os_timer_stop, os_timer_uninit, os_timer_reset

\* The types hold at the start.
LEMMA TypeInit ==
  ASSUME Init
  PROVE  TypeInv
<1>1. rel \in [Timer -> Floor .. Horizon] /\ want \in [Timer -> Off .. MaxOf(Delay)]
  BY Expiries DEF Init
<1>2. others \in 0 .. Others /\ Len(queue) <= Cap /\ queue \in Seq(Timer \cup {Other})
  BY OsTimerAssumption DEF OsTimerAssumption, Init
<1>3. main = Idle /\ Idle.pc = "idle"
  BY DEF Init, Idle
<1>4. main \in [op : {"none", "stop", "reset", "uninit"},
                pc : {"idle", "find", "cut", "arm", "place", "link", "free"},
                node : Place, delay : Delay \cup {0}, iter : Place, cur : Place]
  BY <1>3 DEF Idle, Place
<1>5. pend \in [Timer -> BOOLEAN] /\ swi \in BOOLEAN
  BY DEF Init
<1>6. head \in Place /\ next \in [Timer -> Place] /\ alive \subseteq Timer
  BY DEF Init, Place
<1> QED BY <1>1, <1>2, <1>3, <1>4, <1>5, <1>6 DEF TypeInv, TypeOK, Running

\* Whatever the interrupt finds, links and registers hold nodes or nothing, the
\* expiries stay in their range, and the pool never holds more than Cap.
THEOREM TypeCorrect == Spec => []TypeOK
<1>1. Init => TypeInv
  BY TypeInit
<1>2. TypeInv /\ [Next]_vars => TypeInv'
  BY TypeStep
<1>3. TypeInv => TypeOK
  BY DEF TypeInv
<1> QED BY <1>1, <1>2, <1>3, PTL DEF Spec

-----------------------------------------------------------------------------
\* The steps of the tick interrupt, between list operations.

\* What the steps of the interrupt and the calls find.
LEMMA Between ==
  ASSUME IInv, main.pc = "idle", NEW n \in 0 .. N, NEW L \in [1 .. n -> Timer], ListOK(L, n)
  PROVE  /\ main = Idle
         /\ \A t \in Timer : pend[t] <=> t \in Nodes(L, n)
BY DEF IInv, MainOK, ListOK, PendOK

\* A list that is as it should be, with no operation under way.
LEMMA ListIdle ==
  ASSUME NEW n \in 0 .. N, NEW L \in [1 .. n -> Timer],
         Distinct(L, n), IsList(L, n, head', next'), Sorted(L, n, rel'),
         Nodes(L, n) \subseteq alive', main'.pc = "idle",
         \A t \in Timer : pend'[t] <=> t \in Nodes(L, n)
  PROVE  ListInv'
<1>1. PendOK(Nodes(L, n))'
  BY DEF PendOK
<1>2. WalkOK(L, n, 0)'
  BY DEF WalkOK
<1>3. 0 \in 0 .. n
  OBVIOUS
<1>4. ListOK(L, n)'
  BY <1>1, <1>2, <1>3 DEF ListOK
<1> QED BY <1>4 DEF ListInv

\* A list with an operation under way that has come to place p.
LEMMA ListAt ==
  ASSUME NEW n \in 0 .. N, NEW L \in [1 .. n -> Timer], NEW p \in 0 .. n,
         Distinct(L, n), IsList(L, n, head', next'), Sorted(L, n, rel'),
         Nodes(L, n) \subseteq alive', PendOK(Nodes(L, n))', WalkOK(L, n, p)'
  PROVE  ListInv'
BY DEF ListOK, ListInv

\* The head of a list that is not empty is its first node, which is pending; if
\* it has expired, its timeout has passed.
LEMMA HeadFacts ==
  ASSUME IInv, main.pc = "idle", head # Null,
         NEW n \in 0 .. N, NEW L \in [1 .. n -> Timer], ListOK(L, n)
  PROVE  /\ n \in Nat /\ n >= 1 /\ 1 \in 1 .. n /\ head = L[1] /\ head \in Timer
         /\ next[head] = At(L, n, 2)
         /\ pend[head]
         /\ rel[head] <= 0 => want[head] = 0
<1>1. n \in Nat /\ n >= 1 /\ 1 \in 1 .. n /\ head = L[1]
  BY Bounds DEF ListOK, IsList, At
<1>2. head \in Timer /\ next[head] = At(L, n, 2)
  BY <1>1 DEF ListOK, IsList
<1>3. head \in Nodes(L, n)
  BY <1>1 DEF Nodes
<1>4. pend[head]
  BY <1>2, <1>3, Between
<1>5. want[head] >= 0 /\ (want[head] > 0 => rel[head] >= want[head])
  BY <1>2, <1>4 DEF IInv, DueOK
<1>6. rel[head] \in Int /\ want[head] \in Int
  BY <1>2, Bounds DEF IInv, TypeOK, Off
<1> QED BY <1>1, <1>2, <1>4, <1>5, <1>6

\* A tick brings all expiries nearer by as much, and keeps their order.
LEMMA TickList ==
  ASSUME IInv, main.pc = "idle", NEW s \in Step, Tick(s)
  PROVE  ListInv'
<1>1. PICK n \in 0 .. N : \E L \in [1 .. n -> Timer] : ListOK(L, n)
  BY DEF IInv, ListInv
<1>0. PICK L \in [1 .. n -> Timer] : ListOK(L, n)
  BY <1>1
<1>2. \A x, y \in Floor .. Horizon : x <= y => Up(x - s) <= Up(y - s)
  BY Bounds DEF Up
<1>3. Sorted(L, n, rel')
  <2> SUFFICES ASSUME NEW i \in 1 .. n - 1 PROVE rel'[L[i]] <= rel'[L[i + 1]]
    BY DEF Sorted
  <2>1. n \in Nat
    BY Bounds
  <2>2. L[i] \in Timer /\ L[i + 1] \in Timer
    BY <2>1
  <2>3. rel[L[i]] <= rel[L[i + 1]]
    BY <1>0 DEF ListOK, Sorted
  <2>4. rel'[L[i]] = Up(rel[L[i]] - s) /\ rel'[L[i + 1]] = Up(rel[L[i + 1]] - s)
    BY <2>2 DEF Tick
  <2> QED BY <1>2, <2>2, <2>3, <2>4 DEF IInv, TypeOK
<1>4. UNCHANGED <<head, next, pend, alive, main>>
  BY DEF Tick
<1>5. \A t \in Timer : pend[t] <=> t \in Nodes(L, n)
  BY <1>0, Between
<1> QED BY <1>0, <1>3, <1>4, <1>5, ListIdle DEF ListOK

\* The tick handler takes the first node off the list,
LEMMA SwiPostList ==
  ASSUME IInv, main.pc = "idle", SwiPost
  PROVE  ListInv'
<1>1. PICK n \in 0 .. N : \E L \in [1 .. n -> Timer] : ListOK(L, n)
  BY DEF IInv, ListInv
<1>0. PICK L \in [1 .. n -> Timer] : ListOK(L, n)
  BY <1>1
<1>2. head # Null
  BY DEF SwiPost, Expired
<1>3. /\ n \in Nat /\ n >= 1 /\ 1 \in 1 .. n /\ head = L[1] /\ head \in Timer
      /\ next[head] = At(L, n, 2)
  BY <1>0, <1>2, HeadFacts
<1> DEFINE M == Drop(L, n, 1)
<1>4. /\ M \in [1 .. n - 1 -> Timer]
      /\ Distinct(M, n - 1)
      /\ Nodes(M, n - 1) = Nodes(L, n) \ {head}
      /\ IsList(M, n - 1, At(L, n, 2), next)
  BY <1>0, <1>3, PopFacts DEF ListOK, IInv, TypeOK
<1>5. rel \in [Timer -> Int]
  BY Bounds DEF IInv, TypeOK
<1>6. Sorted(M, n - 1, rel)
  BY <1>0, <1>3, <1>5, DropSorted DEF ListOK
<1>7. /\ head' = At(L, n, 2) /\ pend' = [pend EXCEPT ![head] = FALSE]
      /\ UNCHANGED <<next, rel, alive, main>>
  BY <1>3 DEF SwiPost
<1>8. \A t \in Timer : pend'[t] <=> t \in Nodes(M, n - 1)
  <2>1. \A t \in Timer : pend[t] <=> t \in Nodes(L, n)
    BY <1>0, Between
  <2>2. pend \in [Timer -> BOOLEAN]
    BY DEF IInv, TypeOK
  <2> QED BY <1>3, <1>4, <1>7, <2>1, <2>2, Zenon
<1>9. n - 1 \in 0 .. N
  BY <1>3, Bounds
<1>10. Nodes(M, n - 1) \subseteq alive'
  BY <1>0, <1>4, <1>7 DEF ListOK
<1> HIDE DEF M
<1> QED BY <1>4, <1>6, <1>7, <1>8, <1>9, <1>10, ListIdle

\* or puts it back a second later.
LEMMA SwiRetryList ==
  ASSUME IInv, main.pc = "idle", SwiRetry
  PROVE  ListInv'
<1>1. PICK n \in 0 .. N : \E L \in [1 .. n -> Timer] : ListOK(L, n)
  BY DEF IInv, ListInv
<1>0. PICK L \in [1 .. n -> Timer] : ListOK(L, n)
  BY <1>1
<1>2. head # Null
  BY DEF SwiRetry, Expired
<1>3. /\ n \in Nat /\ n >= 1 /\ 1 \in 1 .. n /\ head = L[1] /\ head \in Timer
      /\ next[head] = At(L, n, 2)
  BY <1>0, <1>2, HeadFacts
<1>4. /\ next \in [Timer -> Place] /\ rel \in [Timer -> Int] /\ N \in Nat /\ Retry \in Nat
      /\ Null \notin Timer
  BY Bounds, OsTimerAssumption DEF IInv, TypeOK, OsTimerAssumption
<1> DEFINE m == n - 1
           M == Drop(L, n, 1)
           late == [rel EXCEPT ![head] = @ + Retry]
           at == Walk(next[head], next)
           stops == {k \in 0 .. N : at[k] = Null \/ late[at[k]] >= late[head]}
<1>5. /\ M \in [1 .. m -> Timer]
      /\ Distinct(M, m)
      /\ Nodes(M, m) = Nodes(L, n) \ {head}
      /\ IsList(M, m, next[head], next)
  <2>1. /\ Drop(L, n, 1) \in [1 .. n - 1 -> Timer]
        /\ Distinct(Drop(L, n, 1), n - 1)
        /\ Nodes(Drop(L, n, 1), n - 1) = Nodes(L, n) \ {head}
        /\ IsList(Drop(L, n, 1), n - 1, At(L, n, 2), next)
    <3> HIDE DEF M, m, late, at, stops
    <3> QED BY <1>0, <1>3, <1>4, PopFacts DEF ListOK
  <2> QED BY <1>3, <2>1
<1>6. Sorted(M, m, rel)
  BY <1>0, <1>3, <1>4, DropSorted DEF ListOK
<1>7. m \in Nat /\ m \in 0 .. N /\ m + 1 = n
  BY <1>3, <1>4
<1> HIDE DEF M, m
<1>8. \A k \in 0 .. N : at[k] = At(M, m, k + 1)
  <2>1. next[head] \in Place
    BY <1>3, <1>4
  <2> HIDE DEF late, stops
  <2>2. M \in [1 .. m -> Timer] /\ m \in 0 .. N /\ IsList(M, m, next[head], next)
          /\ next \in [Timer -> Place]
    BY <1>4, <1>5, <1>7
  <2> QED BY <2>1, <2>2, WalkList
<1>9. /\ rel' = late /\ pend' = [pend EXCEPT ![head] = TRUE]
      /\ \E k \in stops :
           /\ \A j \in stops : k <= j
           /\ k > 0 => at[k - 1] \in Timer
           /\ next' = IF k = 0 THEN [next EXCEPT ![head] = at[0]]
                      ELSE [next EXCEPT ![head] = at[k], ![at[k - 1]] = head]
           /\ head' = IF k = 0 THEN head ELSE next[head]
  BY RetryFacts DEF IInv
<1> HIDE DEF at
<1>10. PICK k \in stops :
           /\ \A j \in stops : k <= j
           /\ next' = IF k = 0 THEN [next EXCEPT ![head] = at[0]]
                      ELSE [next EXCEPT ![head] = at[k], ![at[k - 1]] = head]
           /\ head' = IF k = 0 THEN head ELSE next[head]
  BY <1>9
<1>11. k \in 0 .. m
  <2>1. m \in stops
    BY <1>4, <1>7, <1>8 DEF At
  <2> QED BY <1>7, <1>10, <2>1
<1>12. late \in [Timer -> Int] /\ \A t \in Timer : t # head => late[t] = rel[t]
  BY <1>3, <1>4
<1>13. \A i \in 1 .. m : M[i] # head /\ M[i] \in Timer
  BY <1>5 DEF Nodes
<1>14. k > 0 => late[M[k]] <= late[head]
  <2> SUFFICES ASSUME k > 0 PROVE late[M[k]] <= late[head]
    OBVIOUS
  <2>1. k - 1 \in 0 .. N /\ ~(k <= k - 1) /\ (k - 1) + 1 = k /\ k \in 1 .. m
    BY <1>4, <1>7, <1>11
  <2>2. k - 1 \notin stops /\ at[k - 1] = M[k]
    BY <1>8, <1>10, <2>1 DEF At
  <2>3. ~(late[M[k]] >= late[head])
    BY <2>1, <2>2
  <2>4. late[M[k]] \in Int /\ late[head] \in Int
    BY <1>3, <1>12, <1>13, <2>1
  <2> HIDE DEF late
  <2> QED BY <2>3, <2>4
<1>15. k < m => late[head] <= late[M[k + 1]]
  <2> SUFFICES ASSUME k < m PROVE late[head] <= late[M[k + 1]]
    OBVIOUS
  <2>1. k + 1 \in 1 .. m /\ k \in 0 .. N
    BY <1>7, <1>11
  <2>2. at[k] = M[k + 1] /\ M[k + 1] # Null
    BY <1>4, <1>8, <1>13, <2>1 DEF At
  <2>3. late[M[k + 1]] >= late[head]
    BY <1>10, <2>2
  <2>4. late[M[k + 1]] \in Int /\ late[head] \in Int
    BY <1>3, <1>12, <1>13, <2>1
  <2> HIDE DEF late
  <2> QED BY <2>3, <2>4
<1>16. Sorted(M, m, late)
  <2>1. \A i \in 1 .. m - 1 : i \in 1 .. m /\ i + 1 \in 1 .. m
    BY <1>7
  <2> HIDE DEF late
  <2> QED BY <1>6, <1>12, <1>13, <2>1 DEF Sorted
<1> HIDE DEF late
<1> DEFINE link == [next EXCEPT ![head] = At(M, m, k + 1)]
           P == Put(M, m, k, head)
<1>17. /\ link \in [Timer -> Place] /\ link[head] = At(M, m, k + 1)
       /\ IsList(M, m, next[head], link)
  <2>1. At(M, m, k + 1) \in Place
    BY <1>13 DEF At, Place
  <2>2. \A i \in 1 .. m : link[M[i]] = next[M[i]]
    BY <1>4, <1>13
  <2> QED BY <1>3, <1>4, <1>5, <2>1, <2>2 DEF IsList
<1> HIDE DEF link
<1>18. /\ P \in [1 .. n -> Timer]
       /\ Distinct(P, n)
       /\ Nodes(P, n) = Nodes(M, m) \cup {head}
       /\ IsList(P, n, StoreFirst(next[head], k, head), StoreLink(link, M, k, head))
  <2>1. /\ m \in Nat /\ M \in [1 .. m -> Timer] /\ Distinct(M, m) /\ k \in 0 .. m
        /\ head \in Timer /\ head \notin Nodes(M, m)
        /\ link \in [Timer -> Place] /\ IsList(M, m, next[head], link)
        /\ link[head] = At(M, m, k + 1)
    BY <1>3, <1>5, <1>7, <1>11, <1>17
  <2> HIDE DEF stops
  <2>2. /\ P \in [1 .. m + 1 -> Timer]
        /\ Distinct(P, m + 1)
        /\ Nodes(P, m + 1) = Nodes(M, m) \cup {head}
        /\ IsList(P, m + 1, StoreFirst(next[head], k, head), StoreLink(link, M, k, head))
    BY <2>1, PutFacts
  <2> QED BY <1>7, <2>2
<1>19. Sorted(P, n, late)
  BY <1>3, <1>5, <1>7, <1>11, <1>12, <1>14, <1>15, <1>16, PutSorted
<1> HIDE DEF P
<1>20. head' = StoreFirst(next[head], k, head) /\ next' = StoreLink(link, M, k, head)
  <2>1. at[k] = At(M, m, k + 1) /\ k \in 0 .. N
    BY <1>7, <1>8, <1>11
  <2>2. CASE k = 0
    BY <1>10, <2>1, <2>2 DEF link, StoreFirst, StoreLink
  <2>3. CASE k # 0
    <3>1. k - 1 \in 0 .. N /\ (k - 1) + 1 = k /\ k \in 1 .. m
      BY <1>4, <1>7, <1>11, <2>3
    <3>2. at[k - 1] = M[k]
      BY <1>8, <3>1 DEF At
    <3> QED BY <1>10, <2>1, <2>3, <3>2 DEF link, StoreFirst, StoreLink
  <2> QED BY <2>2, <2>3
<1>21. Nodes(P, n) = Nodes(L, n)
  <2>1. head \in Nodes(L, n)
    BY <1>3 DEF Nodes
  <2> QED BY <1>5, <1>18, <2>1
<1>22. \A t \in Timer : pend'[t] <=> t \in Nodes(P, n)
  <2>1. \A t \in Timer : pend[t] <=> t \in Nodes(L, n)
    BY <1>0, Between
  <2>2. pend \in [Timer -> BOOLEAN] /\ pend[head]
    BY <1>0, <1>2, HeadFacts DEF IInv, TypeOK
  <2>3. \A t \in Timer : pend'[t] <=> pend[t]
    BY <1>9, <2>2, Zenon
  <2> QED BY <1>21, <2>1, <2>3, Zenon
<1>23. Nodes(P, n) \subseteq alive' /\ main' = main
  BY <1>0, <1>21 DEF ListOK, SwiRetry
<1>24. IsList(P, n, head', next') /\ Sorted(P, n, rel')
  BY <1>9, <1>10, <1>18, <1>19, <1>20
<1> QED BY <1>18, <1>22, <1>23, <1>24, ListIdle

-----------------------------------------------------------------------------
\* The steps of the main loop.

\* A new node is not on the list.
LEMMA InitTimerList ==
  ASSUME IInv, NEW t \in Timer, os_timer_init(t)
  PROVE  ListInv'
<1>1. PICK n \in 0 .. N : \E L \in [1 .. n -> Timer] : ListOK(L, n)
  BY DEF IInv, ListInv
<1>0. PICK L \in [1 .. n -> Timer] : ListOK(L, n)
  BY <1>1
<1>2. /\ head' = head /\ next' = [next EXCEPT ![t] = Null] /\ rel' = [rel EXCEPT ![t] = 0]
      /\ pend' = [pend EXCEPT ![t] = FALSE] /\ alive' = alive \cup {t} /\ main' = main
      /\ t \notin alive /\ main.pc = "idle"
  BY DEF os_timer_init, MainAt
<1>3. t \notin Nodes(L, n) /\ \A i \in 1 .. n : L[i] # t /\ L[i] \in Timer
  BY <1>0, <1>2 DEF ListOK, Nodes
<1>4. IsList(L, n, head', next')
  <2>1. \A i \in 1 .. n : next'[L[i]] = next[L[i]]
    BY <1>2, <1>3 DEF IInv, TypeOK
  <2> QED BY <1>0, <1>2, <2>1 DEF ListOK, IsList
<1>5. Sorted(L, n, rel')
  <2>1. \A i \in 1 .. n : rel'[L[i]] = rel[L[i]]
    BY <1>2, <1>3 DEF IInv, TypeOK
  <2>2. \A i \in 1 .. n - 1 : i \in 1 .. n /\ i + 1 \in 1 .. n
    BY Bounds
  <2> QED BY <1>0, <2>1, <2>2 DEF ListOK, Sorted
<1>6. \A u \in Timer : pend'[u] <=> u \in Nodes(L, n)
  <2>1. \A u \in Timer : pend[u] <=> u \in Nodes(L, n)
    BY <1>0, <1>2, Between
  <2>2. pend \in [Timer -> BOOLEAN]
    BY DEF IInv, TypeOK
  <2> QED BY <1>2, <1>3, <2>1, <2>2, Zenon
<1>7. Distinct(L, n) /\ Nodes(L, n) \subseteq alive' /\ main'.pc = "idle"
  BY <1>0, <1>2 DEF ListOK
<1> QED BY <1>4, <1>5, <1>6, <1>7, ListIdle

\* An operation begins with its walk at the head.
LEMMA BeginList ==
  ASSUME IInv, NEW t \in Timer, NEW op \in {"stop", "reset", "uninit"},
         NEW d \in Delay \cup {0}, Begin(op, t, d)
  PROVE  ListInv'
<1>1. PICK n \in 0 .. N : \E L \in [1 .. n -> Timer] : ListOK(L, n)
  BY DEF IInv, ListInv
<1>0. PICK L \in [1 .. n -> Timer] : ListOK(L, n)
  BY <1>1
<1>2. UNCHANGED <<head, next, rel, alive>> /\ main.pc = "idle"
  BY DEF Begin, MainAt
<1>3. /\ Distinct(L, n) /\ IsList(L, n, head', next') /\ Sorted(L, n, rel')
      /\ Nodes(L, n) \subseteq alive'
  BY <1>0, <1>2 DEF ListOK
<1>4. \A u \in Timer : pend[u] <=> u \in Nodes(L, n)
  BY <1>0, <1>2, Between
<1>5. 0 \in 0 .. n /\ n \in Nat
  BY Bounds
<1>6. CASE pend[t]
  <2>1. /\ pend' = [pend EXCEPT ![t] = FALSE]
        /\ main'.pc = "find" /\ main'.node = t /\ main'.iter = Null /\ main'.cur = head
    BY <1>6 DEF Begin
  <2>2. PendOK(Nodes(L, n))'
    <3>1. pend \in [Timer -> BOOLEAN]
      BY DEF IInv, TypeOK
    <3>2. pend'[t] = FALSE /\ \A u \in Timer : u # t => pend'[u] = pend[u]
      BY <2>1, <3>1, Zenon
    <3> SUFFICES ASSUME NEW u \in Timer
                 PROVE  pend'[u] <=> IF u = t THEN FALSE ELSE u \in Nodes(L, n)
      BY <2>1 DEF PendOK
    <3> QED BY <1>4, <3>2, Zenon
  <2>3. PICK q \in 1 .. n : L[q] = t
    BY <1>4, <1>6 DEF Nodes
  <2>4. WalkOK(L, n, 0)'
    <3>1. main'.iter = At(L, n, 0) /\ main'.cur = At(L, n, 1)
      BY <1>0, <2>1 DEF ListOK, IsList, At
    <3> QED BY <2>1, <2>3, <3>1 DEF WalkOK
  <2> QED BY <1>3, <1>5, <2>2, <2>4, ListAt
<1>7. CASE ~pend[t]
  <2>1. /\ pend' = pend
        /\ main' = IF op = "stop" THEN Idle
                   ELSE [op |-> op, pc |-> AfterStop(op), node |-> t,
                         delay |-> d, iter |-> Null, cur |-> Null]
    BY <1>7 DEF Begin
  <2>2. t \notin Nodes(L, n)
    BY <1>4, <1>7
  <2>3. CASE op = "stop"
    <3>1. main'.pc = "idle"
      BY <2>1, <2>3 DEF Idle
    <3>2. \A u \in Timer : pend'[u] <=> u \in Nodes(L, n)
      BY <1>4, <2>1
    <3> QED BY <1>3, <3>1, <3>2, ListIdle
  <2>4. CASE op # "stop"
    <3>1. main'.pc \in {"arm", "free"} /\ main'.node = t
      BY <2>1, <2>4 DEF AfterStop
    <3>2. WalkOK(L, n, 0)'
      BY <2>2, <3>1 DEF WalkOK
    <3>3. PendOK(Nodes(L, n))'
      BY <1>4, <2>1, <3>1 DEF PendOK
    <3> QED BY <1>3, <1>5, <3>2, <3>3, ListAt
  <2> QED BY <2>3, <2>4
<1> QED BY <1>6, <1>7

\* A turn of the walk of os_timer_stop moves one place on.
LEMMA FindList ==
  ASSUME IInv, Find
  PROVE  ListInv'
<1>1. PICK n \in 0 .. N : \E L \in [1 .. n -> Timer] : ListOK(L, n)
  BY DEF IInv, ListInv
<1>0. PICK L \in [1 .. n -> Timer] : ListOK(L, n)
  BY <1>1
<1>2. main.pc = "find" /\ UNCHANGED <<head, next, pend, rel, alive>>
  BY DEF Find, MainAt, list
<1>3. /\ Distinct(L, n) /\ IsList(L, n, head', next') /\ Sorted(L, n, rel')
      /\ Nodes(L, n) \subseteq alive' /\ PendOK(Nodes(L, n))
  BY <1>0, <1>2 DEF ListOK
<1>4. PICK p \in 0 .. n : /\ main.iter = At(L, n, p) /\ main.cur = At(L, n, p + 1)
                          /\ \E q \in p + 1 .. n : L[q] = main.node
  BY <1>0, <1>2 DEF ListOK, WalkOK
<1>5. PICK q \in p + 1 .. n : L[q] = main.node
  BY <1>4
<1>6. /\ n \in Nat /\ p < n /\ p + 1 \in 1 .. n /\ q \in 1 .. n /\ Null \notin Timer
      /\ p + 1 \in 0 .. n
  BY Bounds, OsTimerAssumption DEF OsTimerAssumption
<1>7. main.cur = L[p + 1] /\ main.cur \in Timer /\ main.cur # Null
  BY <1>4, <1>6 DEF At
<1>8. next[main.cur] = At(L, n, p + 2)
  BY <1>0, <1>6, <1>7 DEF ListOK, IsList
<1>9. CASE main.cur = main.node
  <2>1. main' = [main EXCEPT !.pc = "cut", !.cur = next[main.node]]
    BY <1>7, <1>9 DEF Find
  <2>2. /\ main'.pc = "cut" /\ main'.node = main.node
        /\ main'.iter = main.iter /\ main'.cur = next[main.node]
    BY <2>1 DEF IInv, TypeOK
  <2>3. WalkOK(L, n, p)'
    BY <1>4, <1>6, <1>7, <1>8, <1>9, <2>2 DEF WalkOK
  <2>4. PendOK(Nodes(L, n))'
    BY <1>2, <1>3, <2>2 DEF PendOK
  <2> QED BY <1>3, <2>3, <2>4, ListAt
<1>10. CASE main.cur # main.node
  <2>1. main' = [main EXCEPT !.iter = main.cur, !.cur = next[main.cur]]
    BY <1>7, <1>10 DEF Find
  <2>2. /\ main'.pc = "find" /\ main'.node = main.node
        /\ main'.iter = main.cur /\ main'.cur = next[main.cur]
    BY <1>2, <2>1 DEF IInv, TypeOK
  <2>3. q # p + 1
    BY <1>5, <1>7, <1>10
  <2>4. WalkOK(L, n, p + 1)'
    <3>1. main'.iter = At(L, n, p + 1) /\ main'.cur = At(L, n, (p + 1) + 1)
      BY <1>4, <1>6, <1>8, <2>2
    <3>2. q \in (p + 1) + 1 .. n
      BY <1>6, <2>3
    <3> QED BY <1>5, <2>2, <3>1, <3>2 DEF WalkOK
  <2>5. PendOK(Nodes(L, n))'
    BY <1>2, <1>3, <2>2 DEF PendOK
  <2> QED BY <1>3, <1>6, <2>4, <2>5, ListAt
<1> QED BY <1>9, <1>10

\* The node found is taken off.
LEMMA CutList ==
  ASSUME IInv, Cut
  PROVE  ListInv'
<1>1. PICK n \in 0 .. N : \E L \in [1 .. n -> Timer] : ListOK(L, n)
  BY DEF IInv, ListInv
<1>0. PICK L \in [1 .. n -> Timer] : ListOK(L, n)
  BY <1>1
<1>2. /\ main.pc = "cut" /\ UNCHANGED <<pend, rel, alive>> /\ Write(main.iter, main.cur)
      /\ main' = Resume(main.op)
  BY DEF Cut, MainAt
<1>3. PICK p \in 0 .. n : /\ p < n /\ main.iter = At(L, n, p) /\ main.node = L[p + 1]
                          /\ main.cur = At(L, n, p + 2)
  BY <1>0, <1>2 DEF ListOK, WalkOK
<1>4. /\ n \in Nat /\ p \in Nat /\ p + 1 \in 1 .. n /\ n - 1 \in 0 .. N /\ (p + 1) - 1 = p
      /\ (p + 1) + 1 = p + 2 /\ next \in [Timer -> Place] /\ rel \in [Timer -> Int]
      /\ Null \notin Timer
  <2>1. next \in [Timer -> Place] /\ rel \in [Timer -> Int] /\ Null \notin Timer
    BY Bounds, OsTimerAssumption DEF OsTimerAssumption, IInv, TypeOK, Place
  <2>2. /\ n \in Nat /\ p \in Nat /\ p + 1 \in 1 .. n /\ n - 1 \in 0 .. N
        /\ (p + 1) - 1 = p /\ (p + 1) + 1 = p + 2
    BY <1>3, Bounds
  <2> QED BY <2>1, <2>2
<1> DEFINE M == Drop(L, n, p + 1)
<1>5. /\ M \in [1 .. n - 1 -> Timer]
      /\ Distinct(M, n - 1)
      /\ Nodes(M, n - 1) = Nodes(L, n) \ {main.node}
      /\ IsList(M, n - 1, StoreFirst(head, p, main.cur), StoreLink(next, L, p, main.cur))
  <2>1. PICK r \in 1 .. n : r = p + 1
    BY <1>4
  <2>2. /\ Drop(L, n, r) \in [1 .. n - 1 -> Timer]
        /\ Distinct(Drop(L, n, r), n - 1)
        /\ Nodes(Drop(L, n, r), n - 1) = Nodes(L, n) \ {L[r]}
        /\ IsList(Drop(L, n, r), n - 1, StoreFirst(head, r - 1, At(L, n, r + 1)),
                                        StoreLink(next, L, r - 1, At(L, n, r + 1)))
    <3>1. Distinct(L, n) /\ IsList(L, n, head, next)
      BY <1>0 DEF ListOK
    <3> HIDE DEF M
    <3> QED BY <1>4, <3>1, DropFacts
  <2>3. M = Drop(L, n, r) /\ L[r] = main.node /\ r - 1 = p /\ At(L, n, r + 1) = main.cur
    BY <1>3, <1>4, <2>1
  <2> HIDE DEF M
  <2> QED BY <2>2, <2>3
<1>6. Sorted(M, n - 1, rel)
  BY <1>0, <1>4, DropSorted DEF ListOK
<1> HIDE DEF M
<1>7. head' = StoreFirst(head, p, main.cur) /\ next' = StoreLink(next, L, p, main.cur)
  <2>1. CASE p = 0
    BY <1>2, <1>3, <2>1 DEF At, Write, StoreFirst, StoreLink
  <2>2. CASE p # 0
    <3>1. main.iter = L[p] /\ L[p] # Null
      BY <1>3, <1>4, <2>2 DEF At
    <3> QED BY <1>2, <2>2, <3>1 DEF Write, StoreFirst, StoreLink
  <2> QED BY <2>1, <2>2
<1>8. main.op \in {"stop", "reset", "uninit"} /\ main.node \in Timer
  BY <1>2 DEF IInv, MainOK, TypeOK
<1>9. \A u \in Timer : pend'[u] <=> u \in Nodes(M, n - 1)
  <2>1. \A u \in Timer : pend[u] <=> IF u = main.node THEN FALSE ELSE u \in Nodes(L, n)
    BY <1>0, <1>2 DEF ListOK, PendOK
  <2> QED BY <1>2, <1>5, <2>1, Zenon
<1>10. main.node \notin Nodes(M, n - 1) /\ Nodes(M, n - 1) \subseteq alive'
  BY <1>0, <1>2, <1>5 DEF ListOK
<1>11. CASE main.op = "stop"
  <2>1. main'.pc = "idle"
    BY <1>2, <1>11 DEF Resume, Idle
  <2> QED BY <1>2, <1>4, <1>5, <1>6, <1>7, <1>9, <1>10, <2>1, ListIdle
<1>12. CASE main.op # "stop"
  <2>1. main'.pc \in {"arm", "free"} /\ main'.node = main.node
    BY <1>2, <1>8, <1>12 DEF Resume, AfterStop, IInv, TypeOK
  <2>2. WalkOK(M, n - 1, 0)'
    BY <1>10, <2>1 DEF WalkOK
  <2>3. PendOK(Nodes(M, n - 1))'
    BY <1>9, <2>1 DEF PendOK
  <2>4. 0 \in 0 .. n - 1
    BY <1>4
  <2> QED BY <1>2, <1>4, <1>5, <1>6, <1>7, <1>10, <2>2, <2>3, <2>4, ListAt
<1> QED BY <1>11, <1>12

\* A node that is armed is on no list yet, and its walk begins.
LEMMA ArmList ==
  ASSUME IInv, Arm
  PROVE  ListInv'
<1>1. PICK n \in 0 .. N : \E L \in [1 .. n -> Timer] : ListOK(L, n)
  BY DEF IInv, ListInv
<1>0. PICK L \in [1 .. n -> Timer] : ListOK(L, n)
  BY <1>1
<1>2. /\ main.pc = "arm" /\ UNCHANGED <<head, next, alive>>
      /\ pend' = [pend EXCEPT ![main.node] = TRUE]
      /\ rel' = [rel EXCEPT ![main.node] = main.delay]
      /\ main' = [main EXCEPT !.pc = "place", !.iter = Null, !.cur = head]
  BY DEF Arm, MainAt
<1>3. main.node \notin Nodes(L, n) /\ main.node \in Timer
  BY <1>0, <1>2 DEF ListOK, WalkOK, IInv, MainOK, TypeOK
<1>4. /\ main'.pc = "place" /\ main'.node = main.node
      /\ main'.iter = Null /\ main'.cur = head
  BY <1>2 DEF IInv, TypeOK
<1>5. \A i \in 1 .. n : L[i] # main.node /\ L[i] \in Timer
  BY <1>3 DEF Nodes
<1>6. Sorted(L, n, rel')
  <2>1. \A i \in 1 .. n : rel'[L[i]] = rel[L[i]]
    BY <1>2, <1>5 DEF IInv, TypeOK
  <2>2. \A i \in 1 .. n - 1 : i \in 1 .. n /\ i + 1 \in 1 .. n
    BY Bounds
  <2> QED BY <1>0, <2>1, <2>2 DEF ListOK, Sorted
<1>7. PendOK(Nodes(L, n))'
  <2>1. \A u \in Timer : pend[u] <=> u \in Nodes(L, n)
    BY <1>0, <1>2 DEF ListOK, PendOK
  <2>2. pend \in [Timer -> BOOLEAN]
    BY DEF IInv, TypeOK
  <2>3. pend'[main.node] = TRUE /\ \A u \in Timer : u # main.node => pend'[u] = pend[u]
    BY <1>2, <1>3, <2>2, Zenon
  <2> SUFFICES ASSUME NEW u \in Timer
               PROVE  pend'[u] <=> IF u = main.node THEN TRUE ELSE u \in Nodes(L, n)
    BY <1>4 DEF PendOK
  <2> QED BY <2>1, <2>3, Zenon
<1>8. WalkOK(L, n, 0)'
  <2>1. main'.iter = At(L, n, 0) /\ main'.cur = At(L, n, 0 + 1)
    BY <1>0, <1>4 DEF ListOK, IsList, At
  <2> QED BY <1>3, <1>4, <2>1 DEF WalkOK
<1>9. 0 \in 0 .. n
  BY Bounds
<1>10. Distinct(L, n) /\ IsList(L, n, head', next') /\ Nodes(L, n) \subseteq alive'
  BY <1>0, <1>2 DEF ListOK
<1> QED BY <1>6, <1>7, <1>8, <1>9, <1>10, ListAt

\* A turn of the walk of os_timer_reset passes only nodes that expire no later.
LEMMA PlaceList ==
  ASSUME IInv, PlaceNode
  PROVE  ListInv'
<1>1. PICK n \in 0 .. N : \E L \in [1 .. n -> Timer] : ListOK(L, n)
  BY DEF IInv, ListInv
<1>0. PICK L \in [1 .. n -> Timer] : ListOK(L, n)
  BY <1>1
<1>2. main.pc = "place" /\ UNCHANGED <<head, pend, rel, alive>>
  BY DEF PlaceNode, MainAt
<1>3. PICK p \in 0 .. n : /\ main.iter = At(L, n, p) /\ main.cur = At(L, n, p + 1)
                          /\ p > 0 => rel[L[p]] <= rel[main.node]
                          /\ main.node \notin Nodes(L, n)
  BY <1>0, <1>2 DEF ListOK, WalkOK
<1>4. /\ n \in Nat /\ main.node \in Timer /\ Null \notin Timer
      /\ next \in [Timer -> Place] /\ rel \in [Timer -> Int]
  BY <1>2, Bounds, OsTimerAssumption DEF OsTimerAssumption, IInv, MainOK, TypeOK
<1>5. /\ Distinct(L, n) /\ Sorted(L, n, rel') /\ Nodes(L, n) \subseteq alive'
      /\ PendOK(Nodes(L, n))
  BY <1>0, <1>2 DEF ListOK
<1>6. CASE main.cur = Null \/ rel[main.cur] >= rel[main.node]
  <2>1. next' = [next EXCEPT ![main.node] = main.cur] /\ main' = [main EXCEPT !.pc = "link"]
    BY <1>6 DEF PlaceNode
  <2>2. /\ main'.pc = "link" /\ main'.node = main.node
        /\ main'.iter = main.iter /\ main'.cur = main.cur
    BY <2>1 DEF IInv, TypeOK
  <2>3. next'[main.node] = main.cur /\ \A i \in 1 .. n : next'[L[i]] = next[L[i]]
    BY <1>3, <1>4, <2>1 DEF Nodes
  <2>4. IsList(L, n, head', next')
    BY <1>0, <1>2, <2>3 DEF ListOK, IsList
  <2>5. p < n => rel[main.node] <= rel[L[p + 1]]
    <3> SUFFICES ASSUME p < n PROVE rel[main.node] <= rel[L[p + 1]]
      OBVIOUS
    <3>1. p + 1 \in 1 .. n
      BY <1>4
    <3>2. main.cur = L[p + 1] /\ L[p + 1] \in Timer
      BY <1>3, <3>1 DEF At
    <3> QED BY <1>4, <1>6, <3>2
  <2>6. WalkOK(L, n, p)'
    BY <1>2, <1>3, <2>2, <2>3, <2>5 DEF WalkOK
  <2>7. PendOK(Nodes(L, n))'
    BY <1>2, <1>5, <2>2 DEF PendOK
  <2> QED BY <1>5, <2>4, <2>6, <2>7, ListAt
<1>7. CASE ~(main.cur = Null \/ rel[main.cur] >= rel[main.node])
  <2>1. /\ main' = [main EXCEPT !.iter = main.cur, !.cur = next[main.cur]]
        /\ next' = next
    BY <1>7 DEF PlaceNode
  <2>2. /\ main'.pc = "place" /\ main'.node = main.node
        /\ main'.iter = main.cur /\ main'.cur = next[main.cur]
    BY <1>2, <2>1 DEF IInv, TypeOK
  <2>3. /\ p + 1 \in 1 .. n /\ p + 1 \in 0 .. n
        /\ main.cur = L[p + 1] /\ L[p + 1] \in Timer
    BY <1>3, <1>4, <1>7 DEF At
  <2>4. next[main.cur] = At(L, n, (p + 1) + 1)
    BY <1>0, <2>3 DEF ListOK, IsList
  <2>5. rel[L[p + 1]] <= rel[main.node]
    BY <1>4, <1>7, <2>3
  <2>6. main'.iter = At(L, n, p + 1)
    BY <1>3, <2>2
  <2>7. WalkOK(L, n, p + 1)'
    BY <1>2, <1>3, <2>2, <2>4, <2>5, <2>6 DEF WalkOK
  <2>8. PendOK(Nodes(L, n))'
    BY <1>2, <1>5, <2>2 DEF PendOK
  <2>9. IsList(L, n, head', next')
    BY <1>0, <1>2, <2>1 DEF ListOK
  <2> QED BY <1>5, <2>3, <2>7, <2>8, <2>9, ListAt
<1> QED BY <1>6, <1>7

\* The node is put where the walk ended.
LEMMA LinkList ==
  ASSUME IInv, Link
  PROVE  ListInv'
<1>1. PICK n \in 0 .. N : \E L \in [1 .. n -> Timer] : ListOK(L, n)
  BY DEF IInv, ListInv
<1>0. PICK L \in [1 .. n -> Timer] : ListOK(L, n)
  BY <1>1
<1> DEFINE t == main.node
<1>2. /\ main.pc = "link" /\ UNCHANGED <<pend, rel, alive>> /\ Write(main.iter, t)
      /\ main' = Idle
  BY DEF Link, MainAt
<1>3. PICK p \in 0 .. n : /\ main.iter = At(L, n, p) /\ next[t] = At(L, n, p + 1)
                          /\ t \notin Nodes(L, n)
                          /\ p > 0 => rel[L[p]] <= rel[t]
                          /\ p < n => rel[t] <= rel[L[p + 1]]
  BY <1>0, <1>2 DEF ListOK, WalkOK
<1>4. /\ n \in Nat /\ p \in Nat /\ t \in Timer /\ Null \notin Timer
      /\ next \in [Timer -> Place] /\ rel \in [Timer -> Int]
      /\ main.iter = At(L, n, p) /\ next[t] = At(L, n, p + 1) /\ t \notin Nodes(L, n)
  BY <1>2, <1>3, Bounds, OsTimerAssumption DEF OsTimerAssumption, IInv, MainOK, TypeOK
<1>5. t \in alive
  BY <1>2 DEF IInv, MainOK
<1>6. Sorted(Put(L, n, p, t), n + 1, rel)
  <2>1. Sorted(L, n, rel)
    BY <1>0 DEF ListOK
  <2> HIDE DEF t
  <2> QED BY <1>3, <1>4, <2>1, PutSorted
<1>7. \A u \in Timer : pend[u] <=> IF u = t THEN TRUE ELSE u \in Nodes(L, n)
  BY <1>0, <1>2 DEF ListOK, PendOK
<1> HIDE DEF t
<1> DEFINE M == Put(L, n, p, t)
<1>8. /\ M \in [1 .. n + 1 -> Timer]
      /\ Distinct(M, n + 1)
      /\ Nodes(M, n + 1) = Nodes(L, n) \cup {t}
      /\ IsList(M, n + 1, StoreFirst(head, p, t), StoreLink(next, L, p, t))
      /\ n + 1 <= N
  <2>1. Distinct(L, n) /\ IsList(L, n, head, next)
    BY <1>0 DEF ListOK
  <2> QED BY <1>4, <2>1, PutFacts
<1> HIDE DEF M
<1>9. head' = StoreFirst(head, p, t) /\ next' = StoreLink(next, L, p, t)
  <2>1. CASE p = 0
    BY <1>2, <1>4, <2>1 DEF At, Write, StoreFirst, StoreLink
  <2>2. CASE p # 0
    <3>1. main.iter = L[p] /\ L[p] # Null
      BY <1>4, <2>2 DEF At
    <3> QED BY <1>2, <2>2, <3>1 DEF Write, StoreFirst, StoreLink
  <2> QED BY <2>1, <2>2
<1>10. \A u \in Timer : pend'[u] <=> u \in Nodes(M, n + 1)
  BY <1>2, <1>7, <1>8, Zenon
<1>11. Nodes(M, n + 1) \subseteq alive' /\ main'.pc = "idle"
  BY <1>0, <1>2, <1>5, <1>8 DEF ListOK, Idle
<1>12. n + 1 \in 0 .. N
  BY <1>4, <1>8, Bounds
<1>13. Sorted(M, n + 1, rel')
  BY <1>2, <1>6 DEF M
<1> QED BY <1>8, <1>9, <1>10, <1>11, <1>12, <1>13, ListIdle

\* A node that is freed is on no list any more.
LEMMA FreeList ==
  ASSUME IInv, Free
  PROVE  ListInv'
<1>1. PICK n \in 0 .. N : \E L \in [1 .. n -> Timer] : ListOK(L, n)
  BY DEF IInv, ListInv
<1>0. PICK L \in [1 .. n -> Timer] : ListOK(L, n)
  BY <1>1
<1>2. /\ main.pc = "free" /\ UNCHANGED <<head, next, pend, rel>>
      /\ alive' = alive \ {main.node} /\ main'.pc = "idle"
  BY DEF Free, MainAt, list, Idle
<1>3. main.node \notin Nodes(L, n)
  BY <1>0, <1>2 DEF ListOK, WalkOK
<1>4. \A u \in Timer : pend'[u] <=> u \in Nodes(L, n)
  BY <1>0, <1>2 DEF ListOK, PendOK
<1> QED BY <1>0, <1>2, <1>3, <1>4, ListIdle DEF ListOK

\* A step that leaves the list and the operation alone.
LEMMA SameList ==
  ASSUME IInv, UNCHANGED <<list, alive, main>>
  PROVE  ListInv'
BY DEF IInv, ListInv, ListOK, list, PendOK, WalkOK

-----------------------------------------------------------------------------
\* The other parts of the invariant.

\* With no ticks in the middle of an operation, an operation and the handler
\* exclude each other.
LEMMA MainStep ==
  ASSUME ~Preempt, IInv, [Next]_vars
  PROVE  MainOK'
<1> USE DEF IInv, MainOK
<1>1. ASSUME NEW s \in Step, Tick(s) PROVE MainOK'
  BY <1>1 DEF Tick
<1>2. CASE SwiPost \/ SwiRetry \/ SwiDone
  BY <1>2 DEF SwiPost, SwiRetry, SwiDone
<1>3. ASSUME NEW t \in Timer, os_timer_init(t) PROVE MainOK'
  BY <1>3 DEF os_timer_init, MainAt
<1>4. ASSUME NEW t \in Timer, NEW op \in {"stop", "reset", "uninit"},
             NEW d \in Delay \cup {0}, op = "reset" => d \in Delay, Begin(op, t, d)
      PROVE  MainOK'
  BY <1>4 DEF Begin, MainAt, Idle, AfterStop
<1>5. CASE Find
  BY <1>5 DEF Find, MainAt, Resume, Idle, AfterStop, TypeOK
<1>6. CASE Cut
  BY <1>6 DEF Cut, MainAt, Resume, Idle, AfterStop, TypeOK
<1>7. CASE Arm
  BY <1>7 DEF Arm, MainAt, TypeOK
<1>8. CASE PlaceNode
  BY <1>8 DEF PlaceNode, MainAt, TypeOK
<1>9. CASE Link \/ Free
  BY <1>9 DEF Link, Free, MainAt, Idle
<1>10. CASE Dispatch \/ msg_clear_all \/ PostOther
  BY <1>10 DEF Dispatch, msg_clear_all, PostOther
<1>11. CASE UNCHANGED vars
  BY <1>11 DEF vars
<1>12. CASE Call
  <2>1. PICK t \in Timer : os_timer_init(t) \/ os_timer_stop(t) \/ os_timer_uninit(t)
                           \/ \E d \in Delay : os_timer_reset(t, d)
    BY <1>12 DEF Call
  <2> QED BY <1>3, <1>4, <2>1 DEF os_timer_stop, os_timer_uninit, os_timer_reset
<1> QED BY <1>1, <1>2, <1>5, <1>6, <1>7, <1>8, <1>9, <1>10, <1>11, <1>12
        DEF Next, Interrupt, ListOperation

\* A pending timer is not due before its owner wants it.
LEMMA DueStep ==
  ASSUME IInv, [Next]_vars
  PROVE  DueOK'
<1> DEFINE Due(p, w, r) == p => w >= 0 /\ (w > 0 => r >= w)
<1>1. /\ pend \in [Timer -> BOOLEAN] /\ rel \in [Timer -> Floor .. Horizon]
      /\ want \in [Timer -> Off .. MaxOf(Delay)] /\ N \in Nat
      /\ \A t \in Timer : rel[t] \in Int /\ want[t] \in Int /\ Floor <= rel[t]
  BY Bounds DEF IInv, TypeOK, Off
<1>2. \A t \in Timer : Due(pend[t], want[t], rel[t])
  BY DEF IInv, DueOK
<1>3. (\A t \in Timer : Due(pend'[t], want'[t], rel'[t])) => DueOK'
  BY DEF DueOK
<1>4. ASSUME NEW s \in Step, Tick(s) PROVE DueOK'
  <2> SUFFICES ASSUME NEW t \in Timer PROVE Due(pend'[t], want'[t], rel'[t])
    BY <1>3
  <2>1. s \in Nat /\ s > 0 /\ Floor \in Int
    BY Bounds
  <2>2. /\ rel'[t] = Up(rel[t] - s)
        /\ want'[t] = IF want[t] > s THEN want[t] - s ELSE IF want[t] > 0 THEN 0 ELSE want[t]
    BY <1>4 DEF Tick
  <2>3. rel'[t] >= rel[t] - s /\ rel'[t] \in Int
    BY <1>1, <2>1, <2>2 DEF Up
  <2>4. want[t] >= 0 /\ (want[t] > 0 => rel[t] >= want[t])
        => want'[t] >= 0 /\ (want'[t] > 0 => rel'[t] >= want'[t])
    BY <1>1, <2>1, <2>2, <2>3
  <2>5. pend' = pend
    BY <1>4 DEF Tick
  <2> QED BY <1>2, <2>4, <2>5
<1>5. CASE SwiPost
  <2>1. head # Null /\ pend' = [pend EXCEPT ![head] = FALSE] /\ UNCHANGED <<rel, want>>
    BY <1>5 DEF SwiPost, Expired
  <2>2. \A t \in Timer : pend'[t] => pend[t]
    BY <1>1, <2>1, Zenon
  <2> QED BY <1>2, <1>3, <2>1, <2>2
<1>6. CASE SwiRetry
  <2>1. /\ head # Null /\ pend' = [pend EXCEPT ![head] = TRUE] /\ want' = want
        /\ rel' = [rel EXCEPT ![head] = @ + Retry]
    BY <1>6 DEF SwiRetry, Expired
  <2>2. main.pc = "idle"
    BY <1>6 DEF IInv, MainOK, SwiRetry
  <2>3. PICK n \in 0 .. N : \E L \in [1 .. n -> Timer] : ListOK(L, n)
    BY DEF IInv, ListInv
  <2>4. pend[head] /\ head \in Timer
    BY <2>1, <2>2, <2>3, HeadFacts
  <2>5. \A t \in Timer : pend'[t] <=> pend[t]
    BY <1>1, <2>1, <2>4, Zenon
  <2>6. \A t \in Timer : rel'[t] >= rel[t] /\ rel'[t] \in Int
    BY <1>1, <2>1, Bounds
  <2>7. \A t \in Timer : want[t] >= 0 /\ (want[t] > 0 => rel[t] >= want[t])
                         => want[t] >= 0 /\ (want[t] > 0 => rel'[t] >= want[t])
    BY <1>1, <2>6
  <2> QED BY <1>2, <1>3, <2>1, <2>5, <2>7
<1>7. ASSUME NEW t \in Timer, os_timer_init(t) PROVE DueOK'
  <2>1. /\ pend' = [pend EXCEPT ![t] = FALSE] /\ want' = want
        /\ rel' = [rel EXCEPT ![t] = 0]
    BY <1>7 DEF os_timer_init
  <2>2. \A u \in Timer : (pend'[u] => pend[u]) /\ (pend'[u] => u # t)
    BY <1>1, <2>1, Zenon
  <2>3. \A u \in Timer : u # t => rel'[u] = rel[u]
    BY <1>1, <2>1
  <2> QED BY <1>2, <1>3, <2>1, <2>2, <2>3
<1>8. ASSUME NEW t \in Timer, NEW op, NEW d, Begin(op, t, d) PROVE DueOK'
  <2>1. want' = [want EXCEPT ![t] = Off] /\ rel' = rel
    BY <1>8 DEF Begin
  <2>2. \A u \in Timer : (pend'[u] => pend[u]) /\ (pend'[u] => u # t)
    <3>1. CASE pend[t]
      <4>1. pend' = [pend EXCEPT ![t] = FALSE]
        BY <1>8, <3>1 DEF Begin
      <4> QED BY <1>1, <4>1, Zenon
    <3>2. CASE ~pend[t]
      BY <1>8, <3>2 DEF Begin
    <3> QED BY <3>1, <3>2
  <2>3. \A u \in Timer : u # t => want'[u] = want[u]
    BY <1>1, <2>1
  <2> QED BY <1>2, <1>3, <2>1, <2>2, <2>3
<1>9. CASE Arm
  <2>1. /\ pend' = [pend EXCEPT ![main.node] = TRUE]
        /\ rel' = [rel EXCEPT ![main.node] = main.delay]
        /\ want' = [want EXCEPT ![main.node] = main.delay]
    BY <1>9 DEF Arm
  <2>2. main.delay \in Nat
    BY <1>9, Bounds DEF Arm, MainAt, IInv, MainOK
  <2>3. \A u \in Timer : u # main.node => /\ pend'[u] = pend[u]
    BY <1>1, <2>1, Zenon
  <2>4. \A u \in Timer : u # main.node => rel'[u] = rel[u] /\ want'[u] = want[u]
    BY <1>1, <2>1
  <2>5. main.node \in Timer => rel'[main.node] = main.delay /\ want'[main.node] = main.delay
    BY <1>1, <2>1
  <2> SUFFICES ASSUME NEW u \in Timer PROVE Due(pend'[u], want'[u], rel'[u])
    BY <1>3
  <2>6. CASE u = main.node
    BY <2>2, <2>5, <2>6
  <2>7. CASE u # main.node
    BY <1>2, <2>3, <2>4, <2>7
  <2> QED BY <2>6, <2>7
<1>10. CASE Dispatch \/ msg_clear_all
  <2>1. UNCHANGED <<pend, rel>>
    BY <1>10 DEF Dispatch, msg_clear_all, list
  <2>2. \A t \in Timer : pend[t] => want'[t] = want[t]
    BY <1>10 DEF Dispatch, msg_clear_all
  <2> QED BY <1>2, <1>3, <2>1, <2>2
<1>11. CASE SwiDone \/ Find \/ Cut \/ PlaceNode \/ Link \/ Free \/ PostOther \/ UNCHANGED vars
  <2>1. UNCHANGED <<pend, rel, want>>
    BY <1>11 DEF SwiDone, Find, Cut, PlaceNode, Link, Free, PostOther, vars, list
  <2> QED BY <1>2, <1>3, <2>1
<1>12. CASE Call
  <2>1. PICK t \in Timer : os_timer_init(t) \/ os_timer_stop(t) \/ os_timer_uninit(t)
                           \/ \E d \in Delay : os_timer_reset(t, d)
    BY <1>12 DEF Call
  <2> QED BY <1>7, <1>8, <2>1 DEF os_timer_stop, os_timer_uninit, os_timer_reset
<1> QED BY <1>4, <1>5, <1>6, <1>9, <1>10, <1>11, <1>12 DEF Next, Interrupt, ListOperation

\* Every step keeps the list.
LEMMA ListStep ==
  ASSUME ~Preempt, IInv, [Next]_vars
  PROVE  ListInv'
<1>1. swi => main.pc = "idle"
  BY DEF IInv, MainOK
<1>2. ASSUME NEW s \in Step, Tick(s) PROVE ListInv'
  <2>1. main.pc = "idle"
    BY <1>2 DEF Tick
  <2> QED BY <1>2, <2>1, TickList
<1>3. CASE SwiPost
  <2>1. main.pc = "idle"
    BY <1>1, <1>3 DEF SwiPost
  <2> QED BY <1>3, <2>1, SwiPostList
<1>4. CASE SwiRetry
  <2>1. main.pc = "idle"
    BY <1>1, <1>4 DEF SwiRetry
  <2> QED BY <1>4, <2>1, SwiRetryList
<1>5. CASE SwiDone \/ Dispatch \/ msg_clear_all \/ PostOther \/ UNCHANGED vars
  <2>1. UNCHANGED <<list, alive, main>>
    BY <1>5 DEF SwiDone, Dispatch, msg_clear_all, PostOther, vars, list
  <2> QED BY <2>1, SameList
<1>6. CASE Call
  <2>1. PICK t \in Timer : os_timer_init(t) \/ os_timer_stop(t) \/ os_timer_uninit(t)
                           \/ \E d \in Delay : os_timer_reset(t, d)
    BY <1>6 DEF Call
  <2>2. CASE os_timer_init(t)
    BY <2>2, InitTimerList
  <2>3. CASE os_timer_stop(t) \/ os_timer_uninit(t)
    <3>1. PICK op \in {"stop", "reset", "uninit"} : Begin(op, t, 0)
      BY <2>3 DEF os_timer_stop, os_timer_uninit
    <3> QED BY <3>1, BeginList
  <2>4. CASE \E d \in Delay : os_timer_reset(t, d)
    <3>1. PICK d \in Delay \cup {0} : Begin("reset", t, d)
      BY <2>4 DEF os_timer_reset
    <3>2. PICK op \in {"stop", "reset", "uninit"} : op = "reset"
      OBVIOUS
    <3> QED BY <3>1, <3>2, BeginList
  <2> QED BY <2>1, <2>2, <2>3, <2>4
<1> QED BY <1>2, <1>3, <1>4, <1>5, <1>6, FindList, CutList, ArmList, PlaceList, LinkList,
           FreeList
        DEF Next, Interrupt, ListOperation

\* The invariant holds at the start, with the empty list.
LEMMA InitIInv ==
  ASSUME Init
  PROVE  IInv
<1>1. TypeOK
  BY TypeInit DEF TypeInv
<1>2. MainOK /\ DueOK
  BY DEF Init, MainOK, DueOK, Idle
<1>3. ListInv
  <2> DEFINE L == [i \in 1 .. 0 |-> Null]
  <2>1. L \in [1 .. 0 -> Timer] /\ 0 \in 0 .. N /\ 1 .. 0 = {} /\ 1 .. 0 - 1 = {}
    BY Bounds
  <2> HIDE DEF L
  <2>2. Nodes(L, 0) = {} /\ At(L, 0, 1) = Null
    BY <2>1 DEF Nodes, At
  <2>3. PendOK(Nodes(L, 0)) /\ WalkOK(L, 0, 0)
    BY <2>2 DEF Init, Idle, PendOK, WalkOK
  <2>4. ListOK(L, 0)
    <3>1. 0 \in 0 .. 0
      OBVIOUS
    <3> QED BY <2>1, <2>2, <2>3, <3>1 DEF Init, ListOK, Distinct, IsList, Sorted
  <2> QED BY <2>1, <2>4 DEF ListInv
<1> QED BY <1>1, <1>2, <1>3 DEF IInv

-----------------------------------------------------------------------------
\* With ticks only between the list operations, the list is what it should be
\* in every state, those in the middle of an operation included.
THEOREM Inductive == ~Preempt => (Spec => []IInv)
<1>1. Init => IInv
  BY InitIInv
<1>2. ~Preempt /\ IInv /\ [Next]_vars => IInv'
  <2> SUFFICES ASSUME ~Preempt, IInv, [Next]_vars PROVE IInv'
    OBVIOUS
  <2>1. TypeInv
    BY DEF IInv, TypeInv, Running, MainOK, TypeOK
  <2>2. TypeOK'
    BY <2>1, TypeStep DEF TypeInv
  <2> QED BY <2>2, MainStep, ListStep, DueStep DEF IInv
<1> SUFFICES ASSUME ~Preempt PROVE Spec => []IInv
  OBVIOUS
<1>3. IInv /\ [Next]_vars => IInv'
  BY <1>2
<1> QED BY <1>1, <1>3, PTL DEF Spec

\* The list is never circular, never out of order and never holds a freed node.
THEOREM ListIsWellFormed == ~Preempt => (Spec => []ListWellFormed)
<1>1. IInv => ListWellFormed
  <2> SUFFICES ASSUME IInv PROVE ListWellFormed
    OBVIOUS
  <2>1. PICK n \in 0 .. N : \E L \in [1 .. n -> Timer] : ListOK(L, n)
    BY DEF IInv, ListInv
  <2>0. PICK L \in [1 .. n -> Timer] : ListOK(L, n)
    BY <2>1
  <2>2. Listed = Nodes(L, n) /\ Walk(head, next)[N] = Null
    BY <2>0, ListedNodes DEF ListOK, IInv, TypeOK
  <2>3. ASSUME NEW t \in Nodes(L, n), next[t] # Null PROVE rel[t] <= rel[next[t]]
    <3>1. PICK i \in 1 .. n : t = L[i]
      BY DEF Nodes
    <3>2. next[t] = At(L, n, i + 1)
      BY <2>0, <3>1 DEF ListOK, IsList
    <3>3. n \in Nat
      BY Bounds
    <3>4. i \in 1 .. n - 1 /\ next[t] = L[i + 1]
      BY <2>3, <3>2, <3>3 DEF At
    <3> QED BY <2>0, <3>1, <3>4 DEF ListOK, Sorted
  <2>4. Nodes(L, n) \subseteq alive
    BY <2>0 DEF ListOK
  <2> QED BY <2>2, <2>3, <2>4 DEF ListWellFormed, N
<1> SUFFICES ASSUME ~Preempt PROVE Spec => []ListWellFormed
  OBVIOUS
<1>2. Spec => []IInv
  BY Inductive
<1> QED BY <1>1, <1>2, PTL

\* is_pending is true of exactly the timers on the list.
THEOREM PendingMeansListed == ~Preempt => (Spec => []PendingIffListed)
<1>1. IInv => PendingIffListed
  <2> SUFFICES ASSUME IInv, main.pc = "idle", NEW t \in Timer
               PROVE  pend[t] <=> t \in Listed
    BY DEF PendingIffListed, Quiet
  <2>1. PICK n \in 0 .. N : \E L \in [1 .. n -> Timer] : ListOK(L, n)
    BY DEF IInv, ListInv
  <2>0. PICK L \in [1 .. n -> Timer] : ListOK(L, n)
    BY <2>1
  <2>2. Listed = Nodes(L, n)
    BY <2>0, ListedNodes DEF ListOK, IInv, TypeOK
  <2> QED BY <2>0, <2>2, Between
<1> SUFFICES ASSUME ~Preempt PROVE Spec => []PendingIffListed
  OBVIOUS
<1>2. Spec => []IInv
  BY Inductive
<1> QED BY <1>1, <1>2, PTL

\* No callback is posted early, twice for one request, or after a stop.
THEOREM NeverEarly == ~Preempt => (Spec => PostedOnlyWhenDue)
<1>1. ASSUME IInv, [Next]_vars
      PROVE  [\A t \in Timer : (SwiPost /\ head = t) => want[t] = 0]_vars
  <2> SUFFICES ASSUME SwiPost PROVE want[head] = 0
    OBVIOUS
  <2>1. head # Null /\ rel[head] <= 0 /\ swi
    BY DEF SwiPost, Expired
  <2>2. main.pc = "idle"
    BY <1>1, <2>1 DEF IInv, MainOK
  <2>3. PICK n \in 0 .. N : \E L \in [1 .. n -> Timer] : ListOK(L, n)
    BY <1>1 DEF IInv, ListInv
  <2> QED BY <1>1, <2>1, <2>2, <2>3, HeadFacts
<1> SUFFICES ASSUME ~Preempt PROVE Spec => PostedOnlyWhenDue
  OBVIOUS
<1>2. Spec => []IInv
  BY Inductive
<1> QED BY <1>1, <1>2, PTL DEF Spec, PostedOnlyWhenDue
=============================================================================
