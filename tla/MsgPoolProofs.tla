---------------------------- MODULE MsgPoolProofs ----------------------------
(***************************************************************************)
(* Theorems about MsgPool for every ring size, every width of the indices, *)
(* every depth of interrupt nesting and every set of messages.             *)
(***************************************************************************)
EXTENDS MsgPool, FiniteSetTheorems, TLAPS

USE MsgPoolAssumption DEF MsgPoolAssumption

\* The constants' types, and the two ways uint32 addition can go.
LEMMA IdModFacts ==
  /\ IdMod \in Nat
  /\ IdMod >= Count + Count
  /\ \A id \in Id : NextId(id) = IF id + 1 = IdMod THEN 0 ELSE id + 1
  /\ \A id \in Id : NextId(id) \in Id
<1>1. IdMod \in Nat /\ IdMod >= Count + Count
  BY DEF IdMod
<1>2. ASSUME NEW id \in Id
      PROVE  NextId(id) = IF id + 1 = IdMod THEN 0 ELSE id + 1
  <2>1. CASE id + 1 = IdMod
    <3>1. IdMod % IdMod = 0
      BY <1>1
    <3> QED BY <2>1, <3>1, <1>1 DEF NextId, Id
  <2>2. CASE id + 1 # IdMod
    <3>1. id + 1 \in Nat /\ id + 1 < IdMod
      BY <2>2, <1>1 DEF Id
    <3>2. (id + 1) % IdMod = id + 1
      BY <3>1, <1>1
    <3> QED BY <2>2, <3>2 DEF NextId
  <2> QED BY <2>1, <2>2
<1> QED BY <1>1, <1>2 DEF Id

\* The remainder of a number given as quotient and remainder.
LEMMA RemainderOf ==
  ASSUME NEW q \in Nat, NEW r \in Nat, r < Count
  PROVE  ((Count * q) + r) % Count = r
OBVIOUS

\* Two numbers less than one turn of the ring apart select the same slot only
\* if they are equal or exactly one turn apart.
LEMMA SameSlot ==
  ASSUME NEW a \in Nat, NEW d \in Nat, d <= Count
  PROVE  (a + d) % Count = a % Count <=> d = 0 \/ d = Count
<1> DEFINE q == a \div Count
           r == a % Count
<1>1. a = (Count * q) + r /\ q \in Nat /\ r \in Nat /\ r < Count
  OBVIOUS
<1> HIDE DEF q, r
<1>2. r = a % Count
  BY DEF r
<1>3. CASE d = 0
  BY <1>3
<1>4. CASE d = Count
  <2>1. a + d = (Count * (q + 1)) + r
    BY <1>1, <1>4
  <2>2. ((Count * (q + 1)) + r) % Count = r
    BY <1>1, RemainderOf
  <2> QED BY <2>1, <2>2, <1>2, <1>4
<1>5. CASE 0 < d /\ d < Count
  <2>1. CASE r + d < Count
    <3>1. a + d = (Count * q) + (r + d)
      BY <1>1
    <3>2. ((Count * q) + (r + d)) % Count = r + d
      BY <1>1, <2>1, RemainderOf
    <3> QED BY <3>1, <3>2, <1>1, <1>2, <1>5
  <2>2. CASE r + d >= Count
    <3>1. a + d = (Count * (q + 1)) + (r + d - Count)
      BY <1>1
    <3>2. r + d - Count \in Nat /\ r + d - Count < Count
      BY <1>1, <1>5, <2>2
    <3>3. ((Count * (q + 1)) + (r + d - Count)) % Count = r + d - Count
      <4> DEFINE s == r + d - Count
      <4>1. s \in Nat /\ s < Count /\ q + 1 \in Nat
        BY <1>1, <3>2
      <4> HIDE DEF s
      <4>2. ((Count * (q + 1)) + s) % Count = s
        BY <4>1, RemainderOf
      <4> QED BY <4>2 DEF s
    <3> QED BY <3>1, <3>3, <1>1, <1>2, <1>5
  <2> QED BY <2>1, <2>2, <1>1, <1>5
<1> QED BY <1>3, <1>4, <1>5

\* A whole turn of the indices is a whole number of turns of the ring.
LEMMA WrapKeepsSlot ==
  ASSUME NEW a \in Nat
  PROVE  (a + IdMod) % Count = a % Count
<1> DEFINE q == a \div Count
           r == a % Count
<1>1. a = (Count * q) + r /\ q \in Nat /\ r \in Nat /\ r < Count
  OBVIOUS
<1> HIDE DEF q
<1>2. a + IdMod = (Count * (q + Laps)) + r
  BY <1>1 DEF IdMod
<1>3. ((Count * (q + Laps)) + r) % Count = r
  BY <1>1, RemainderOf
<1> QED BY <1>2, <1>3

\* in_id selects the slot that many places after the one out_id selects.
LEMMA SlotOfIn ==
  ASSUME NEW i \in Id, NEW o \in Id
  PROVE  SlotOf(i) = SlotOf(o + Distance(o, i))
<1>1. i \in Nat /\ o \in Nat /\ IdMod \in Nat
  BY IdModFacts DEF Id
<1>2. CASE o <= i
  <2>1. o + Distance(o, i) = i
    BY <1>1, <1>2 DEF Distance
  <2> QED BY <2>1
<1>3. CASE ~(o <= i)
  <2>1. o + Distance(o, i) = i + IdMod
    BY <1>1, <1>3 DEF Distance
  <2>2. (i + IdMod) % Count = i % Count
    BY <1>1, WrapKeepsSlot
  <2> QED BY <2>1, <2>2 DEF SlotOf
<1> QED BY <1>2, <1>3

\* The masked comparison of the two indices decides full or empty.
LEMMA MaskedCompare ==
  ASSUME NEW i \in Id, NEW o \in Id, Distance(o, i) <= Count
  PROVE  SlotOf(i) = SlotOf(o) <=> Distance(o, i) = 0 \/ Distance(o, i) = Count
<1> DEFINE used == Distance(o, i)
<1>1. i \in Nat /\ o \in Nat /\ IdMod \in Nat /\ used \in Nat /\ used <= Count
  BY IdModFacts DEF Id, Distance
<1>2. SlotOf(i) = SlotOf(o + used)
  BY SlotOfIn
<1> HIDE DEF used
<1>3. (o + used) % Count = o % Count <=> used = 0 \/ used = Count
  BY <1>1, SameSlot
<1> QED BY <1>2, <1>3 DEF SlotOf, used

\* The distance between the indices follows each increment across the wrap.
LEMMA DistanceIn ==
  ASSUME NEW i \in Id, NEW o \in Id, Distance(o, i) < Count
  PROVE  Distance(o, NextId(i)) = Distance(o, i) + 1
<1>1. NextId(i) = IF i + 1 = IdMod THEN 0 ELSE i + 1
  BY IdModFacts
<1> QED BY <1>1, IdModFacts DEF Id, Distance

\* The same for out_id.
LEMMA DistanceOut ==
  ASSUME NEW i \in Id, NEW o \in Id, 0 < Distance(o, i), Distance(o, i) <= Count
  PROVE  Distance(NextId(o), i) = Distance(o, i) - 1
<1>1. NextId(o) = IF o + 1 = IdMod THEN 0 ELSE o + 1
  BY IdModFacts
<1> QED BY <1>1, IdModFacts DEF Id, Distance

------------------------------------------------------------------------------
\* msg_init leaves every variable in its type.
LEMMA TypeInit == Init => TypeOK
<1>1. 0 \in Id
  BY IdModFacts DEF Id
<1> QED BY <1>1 DEF Init, TypeOK, Status

\* So does every step of a put, a get or a clear.
LEMMA TypeNext == TypeOK /\ [Next]_vars => TypeOK'
<1> SUFFICES ASSUME TypeOK, [Next]_vars
             PROVE  TypeOK'
  OBVIOUS
<1> USE DEF TypeOK, Status
<1>1. \A id \in Id : SlotOf(id) \in Slot
  BY IdModFacts DEF Id, SlotOf, Slot
<1>2. ASSUME NEW c \in Context, NEW m \in Msg, BeginPut(c, m)
      PROVE  TypeOK'
  BY <1>2 DEF BeginPut
<1>3. ASSUME NEW c \in Context, Refuse(c)
      PROVE  TypeOK'
  BY <1>3 DEF Refuse
<1>4. ASSUME NEW c \in Context, Store(c)
      PROVE  TypeOK'
  BY <1>4, <1>1, IdModFacts DEF Store
<1>5. CASE GetNothing
  BY <1>5 DEF GetNothing
<1>6. CASE Get
  BY <1>6, <1>1, IdModFacts DEF Get
<1>7. CASE msg_clear_all
  BY <1>7, IdModFacts DEF msg_clear_all, Id
<1>8. CASE UNCHANGED vars
  BY <1>8 DEF vars
<1> QED BY <1>2, <1>3, <1>4, <1>5, <1>6, <1>7, <1>8 DEF Next

\* Every variable keeps its type; in particular the indices stay uint32.
THEOREM TypeCorrect == Spec => []TypeOK
BY TypeInit, TypeNext, PTL DEF Spec
------------------------------------------------------------------------------
\* The argument: the status word and the slot contents are tied to the
\* distance between the indices, and each masked section keeps the tie.
IInv == TypeOK /\ StatusAgrees /\ WaitingArePosted

\* The distance between the indices is a number.
LEMMA UsedType == TypeOK => Used \in Nat
BY IdModFacts DEF TypeOK, Used, Distance, Id

\* Storing appends to the waiting messages and changes none of them.
LEMMA StoreAppends ==
  ASSUME IInv, NEW c \in Context, Store(c)
  PROVE  /\ Used' = Used + 1
         /\ Used < Count
         /\ \A k \in 1 .. Used : Waiting'[k] = Waiting[k]
         /\ Waiting'[Used + 1] = putting[c]
         /\ putting[c] \in Msg
<1> USE DEF IInv
<1>1. Used \in Nat /\ Used < Count /\ in_id \in Id /\ out_id \in Id
  BY UsedType DEF Store, StatusAgrees, TypeOK
<1>2. Used' = Used + 1
  BY <1>1, DistanceIn DEF Used, Store
<1>3. SlotOf(in_id) = SlotOf(out_id + Used)
  BY <1>1, SlotOfIn DEF Used
<1>4. out_id \in Nat
  BY <1>1, IdModFacts DEF Id
<1>5. \A s \in Slot : pool'[s] = IF s = SlotOf(in_id) THEN putting[c] ELSE pool[s]
  BY DEF Store, TypeOK
<1>6. \A n \in Nat : SlotOf(n) \in Slot
  BY DEF SlotOf, Slot
<1>7. ASSUME NEW k \in 1 .. Used
      PROVE  Waiting'[k] = Waiting[k]
  <2> DEFINE n == out_id + k - 1
             d == Used - k + 1
  <2>1. n \in Nat /\ d \in Nat /\ d <= Count /\ d # 0 /\ d # Count /\ n + d = out_id + Used
    BY <1>1, <1>4
  <2>2. Waiting'[k] = pool'[SlotOf(n)] /\ Waiting[k] = pool[SlotOf(n)]
    BY <1>1, <1>2 DEF Waiting, Store
  <2> HIDE DEF n, d
  <2>3. (n + d) % Count # n % Count
    BY <2>1, SameSlot
  <2>4. SlotOf(n) # SlotOf(in_id)
    BY <2>3, <2>1, <1>3 DEF SlotOf
  <2> QED BY <2>1, <2>2, <2>4, <1>5, <1>6
<1>8. Waiting'[Used + 1] = putting[c]
  <2>1. Waiting'[Used + 1] = pool'[SlotOf(out_id + Used)]
    <3>1. Used + 1 \in 1 .. Used' /\ out_id' + (Used + 1) - 1 = out_id + Used
      BY <1>1, <1>2, <1>4 DEF Store
    <3> QED BY <3>1 DEF Waiting
  <2>2. SlotOf(out_id + Used) \in Slot
    BY <1>1, <1>4, <1>6
  <2> QED BY <2>1, <2>2, <1>3, <1>5
<1>9. putting[c] \in Msg
  BY DEF Store, TypeOK
<1> QED BY <1>1, <1>2, <1>7, <1>8, <1>9

\* Getting removes the oldest waiting message and changes no other.
LEMMA GetRemoves ==
  ASSUME IInv, Get
  PROVE  /\ Used > 0
         /\ Used' = Used - 1
         /\ \A k \in 1 .. Used - 1 : Waiting'[k] = Waiting[k + 1]
         /\ got' = Waiting[1]
<1> USE DEF IInv
<1>1. Used \in Nat /\ Used > 0 /\ Used <= Count /\ in_id \in Id /\ out_id \in Id
  BY UsedType DEF Get, StatusAgrees, TypeOK, Status
<1>2. Used' = Used - 1
  BY <1>1, DistanceOut DEF Used, Get
<1>3. out_id \in Nat /\ IdMod \in Nat
  BY <1>1, IdModFacts DEF Id
<1>4. ASSUME NEW k \in 1 .. Used - 1
      PROVE  Waiting'[k] = Waiting[k + 1]
  <2>1. Waiting'[k] = pool[SlotOf(NextId(out_id) + k - 1)]
    BY <1>1, <1>2 DEF Waiting, Get
  <2>2. Waiting[k + 1] = pool[SlotOf(out_id + k)]
    <3>1. k + 1 \in 1 .. Used /\ out_id + (k + 1) - 1 = out_id + k
      BY <1>1, <1>3
    <3> QED BY <3>1 DEF Waiting
  <2>3. CASE out_id + 1 = IdMod
    <3>1. NextId(out_id) + k - 1 = k - 1 /\ out_id + k = (k - 1) + IdMod /\ k - 1 \in Nat
      BY <2>3, <1>1, <1>3, IdModFacts
    <3>2. ((k - 1) + IdMod) % Count = (k - 1) % Count
      BY <3>1, WrapKeepsSlot
    <3> QED BY <2>1, <2>2, <3>1, <3>2 DEF SlotOf
  <2>4. CASE out_id + 1 # IdMod
    <3>1. NextId(out_id) + k - 1 = out_id + k
      BY <2>4, <1>1, <1>3, IdModFacts
    <3> QED BY <2>1, <2>2, <3>1
  <2> QED BY <2>3, <2>4
<1>5. got' = Waiting[1]
  <2>1. 1 \in 1 .. Used /\ out_id + 1 - 1 = out_id
    BY <1>1, <1>3
  <2> QED BY <2>1 DEF Waiting, Get
<1> QED BY <1>1, <1>2, <1>4, <1>5

------------------------------------------------------------------------------
\* The inductive invariant holds after msg_init.
LEMMA IInvInit == Init => IInv
<1> SUFFICES ASSUME Init PROVE IInv
  OBVIOUS
<1>1. TypeOK
  BY TypeInit
<1>2. Used = 0
  BY IdModFacts DEF Init, Used, Distance
<1>3. StatusAgrees
  BY <1>2 DEF Init, StatusAgrees
<1>4. WaitingArePosted
  BY <1>2 DEF WaitingArePosted
<1> QED BY <1>1, <1>3, <1>4 DEF IInv

\* Every step keeps it: only Store, Get and msg_clear_all move an index.
LEMMA IInvNext == IInv /\ [Next]_vars => IInv'
<1> SUFFICES ASSUME IInv, [Next]_vars
             PROVE  IInv'
  OBVIOUS
<1>1. TypeOK'
  BY TypeNext DEF IInv
<1> SUFFICES StatusAgrees' /\ WaitingArePosted'
  BY <1>1 DEF IInv
<1>2. Used \in Nat /\ Used <= Count /\ in_id \in Id /\ out_id \in Id
  BY UsedType DEF IInv, StatusAgrees, TypeOK
<1>3. ASSUME UNCHANGED <<pool, in_id, out_id, status, ready>>
      PROVE  StatusAgrees' /\ WaitingArePosted'
  <2>1. Used' = Used
    BY <1>3 DEF Used
  <2>2. Waiting' = Waiting
    BY <1>3, <2>1 DEF Waiting
  <2> QED BY <1>3, <2>1, <2>2 DEF IInv, StatusAgrees, WaitingArePosted
<1>4. ASSUME NEW c \in Context, NEW m \in Msg, BeginPut(c, m)
      PROVE  StatusAgrees' /\ WaitingArePosted'
  BY <1>3, <1>4 DEF BeginPut
<1>5. ASSUME NEW c \in Context, Refuse(c)
      PROVE  StatusAgrees' /\ WaitingArePosted'
  BY <1>3, <1>5 DEF Refuse
<1>6. ASSUME NEW c \in Context, Store(c)
      PROVE  StatusAgrees' /\ WaitingArePosted'
  <2>1. /\ Used' = Used + 1
        /\ Used < Count
        /\ \A k \in 1 .. Used : Waiting'[k] = Waiting[k]
        /\ Waiting'[Used + 1] = putting[c]
        /\ putting[c] \in Msg
    BY <1>6, StoreAppends
  <2>2. WaitingArePosted'
    <3>1. ASSUME NEW k \in 1 .. Used + 1
          PROVE  Waiting'[k] \in Msg
      BY <1>2, <2>1 DEF IInv, WaitingArePosted
    <3> QED BY <2>1, <3>1 DEF WaitingArePosted
  <2>3. in_id' \in Id /\ out_id' = out_id /\ in_id' = NextId(in_id)
    BY <1>1, <1>6 DEF TypeOK, Store
  <2>4. SlotOf(in_id') = SlotOf(out_id) <=> Used' = 0 \/ Used' = Count
    BY <1>2, <2>1, <2>3, MaskedCompare DEF Used
  <2>5. status' = IF Used' = Count THEN "FULL" ELSE "ADSUM"
    BY <1>2, <1>6, <2>1, <2>3, <2>4 DEF Store
  <2>6. StatusAgrees'
    BY <1>2, <2>1, <2>5 DEF StatusAgrees
  <2> QED BY <2>2, <2>6
<1>7. CASE GetNothing
  BY <1>3, <1>7 DEF GetNothing
<1>8. CASE Get
  <2>1. /\ Used > 0
        /\ Used' = Used - 1
        /\ \A k \in 1 .. Used - 1 : Waiting'[k] = Waiting[k + 1]
    BY <1>8, GetRemoves
  <2>2. WaitingArePosted'
    <3>1. ASSUME NEW k \in 1 .. Used - 1
          PROVE  Waiting'[k] \in Msg
      BY <1>2, <2>1 DEF IInv, WaitingArePosted
    <3> QED BY <2>1, <3>1 DEF WaitingArePosted
  <2>3. out_id' \in Id /\ in_id' = in_id /\ out_id' = NextId(out_id)
    BY <1>1, <1>8 DEF TypeOK, Get
  <2>4. SlotOf(in_id) = SlotOf(out_id') <=> Used' = 0 \/ Used' = Count
    BY <1>2, <2>1, <2>3, MaskedCompare DEF Used
  <2>5. status' = IF Used' = 0 THEN "EMPTY" ELSE "ADSUM"
    BY <1>2, <1>8, <2>1, <2>3, <2>4 DEF Get
  <2>6. StatusAgrees'
    BY <1>2, <2>1, <2>5 DEF StatusAgrees
  <2> QED BY <2>2, <2>6
<1>9. CASE msg_clear_all
  <2>1. Used' = 0
    BY <1>9, IdModFacts DEF msg_clear_all, Used, Distance
  <2> QED BY <1>9, <2>1 DEF msg_clear_all, StatusAgrees, WaitingArePosted
<1>10. CASE UNCHANGED vars
  BY <1>3, <1>10 DEF vars
<1> QED
  BY <1>4, <1>5, <1>6, <1>7, <1>8, <1>9, <1>10 DEF Next

\* Hence it holds in every reachable state.
LEMMA IInvInvariant == Spec => []IInv
BY IInvInit, IInvNext, PTL DEF Spec

\* The status word is right in every reachable state (msg.c 112, 132, 216, 230).
THEOREM StatusCorrect == Spec => []StatusAgrees
<1>1. IInv => StatusAgrees
  BY DEF IInv
<1> QED BY <1>1, IInvInvariant, PTL

\* msg_get hands out only what somebody posted.
THEOREM GetReturnsPosted == Spec => []WaitingArePosted
<1>1. IInv => WaitingArePosted
  BY DEF IInv
<1> QED BY <1>1, IInvInvariant, PTL

------------------------------------------------------------------------------
\* The slots from out_id to in_id form a sequence of posted messages.
LEMMA WaitingIsSeq == IInv => Waiting \in Seq(Msg) /\ Len(Waiting) = Used
<1> SUFFICES ASSUME IInv PROVE Waiting \in Seq(Msg) /\ Len(Waiting) = Used
  OBVIOUS
<1>1. Used \in Nat
  BY UsedType DEF IInv
<1>2. Waiting \in [1 .. Used -> Msg]
  BY DEF Waiting, IInv, WaitingArePosted
<1> QED BY <1>1, <1>2

\* Every step of the pool is a step of the bounded FIFO or leaves it unchanged,
\* so the pool implements it: interrupts posting between any two steps of the
\* main loop neither lose, repeat, reorder nor alter a message.
THEOREM PoolIsFifo == Spec => IsFifo
<1>1. Init => Fifo!Init
  <2> SUFFICES ASSUME Init PROVE Fifo!Init
    OBVIOUS
  <2>1. Used = 0
    BY IdModFacts DEF Init, Used, Distance
  <2>2. Waiting = <<>>
    BY <2>1 DEF Waiting
  <2> QED BY <2>2 DEF Init, Fifo!Init
<1>2. IInv /\ IInv' /\ [Next]_vars => [Fifo!Next]_(Fifo!vars)
  <2> SUFFICES ASSUME IInv, IInv', [Next]_vars
               PROVE  [Fifo!Next]_(Fifo!vars)
    OBVIOUS
  <2>1. /\ Waiting \in Seq(Msg) /\ Len(Waiting) = Used
        /\ Waiting' \in Seq(Msg) /\ Len(Waiting') = Used'
        /\ Used \in Nat
    <3>1. (IInv => Waiting \in Seq(Msg) /\ Len(Waiting) = Used)'
      BY WaitingIsSeq, PTL
    <3> QED BY <3>1, WaitingIsSeq, UsedType DEF IInv
  <2>2. ASSUME UNCHANGED <<pool, in_id, out_id>>
        PROVE  Waiting' = Waiting
    BY <2>2 DEF Waiting, Used
  <2>3. ASSUME NEW c \in Context, NEW m \in Msg, BeginPut(c, m)
        PROVE  UNCHANGED Fifo!vars
    BY <2>2, <2>3 DEF BeginPut, Fifo!vars
  <2>4. ASSUME NEW c \in Context, Refuse(c)
        PROVE  UNCHANGED Fifo!vars
    BY <2>2, <2>4 DEF Refuse, Fifo!vars
  <2>5. ASSUME NEW c \in Context, Store(c)
        PROVE  Fifo!Accept(putting[c]) /\ putting[c] \in Msg
    <3>1. /\ Used' = Used + 1
          /\ Used < Count
          /\ \A k \in 1 .. Used : Waiting'[k] = Waiting[k]
          /\ Waiting'[Used + 1] = putting[c]
          /\ putting[c] \in Msg
      BY <2>5, StoreAppends
    <3>2. Waiting' = Append(Waiting, putting[c])
      BY <2>1, <3>1
    <3> QED BY <2>1, <2>5, <3>1, <3>2 DEF Fifo!Accept, Store
  <2>6. CASE GetNothing
    <3>1. Used = 0
      BY <2>6 DEF GetNothing, IInv, StatusAgrees
    <3>2. Waiting = <<>> /\ Waiting' = Waiting
      BY <2>1, <2>2, <2>6, <3>1 DEF GetNothing
    <3> QED BY <2>6, <3>2 DEF GetNothing, Fifo!Nothing, Fifo!Next
  <2>7. CASE Get
    <3>1. /\ Used > 0
          /\ Used' = Used - 1
          /\ \A k \in 1 .. Used - 1 : Waiting'[k] = Waiting[k + 1]
          /\ got' = Waiting[1]
      BY <2>7, GetRemoves
    <3>2. Waiting # <<>> /\ Waiting' = Tail(Waiting) /\ got' = Head(Waiting)
      BY <2>1, <3>1
    <3> QED BY <3>2 DEF Fifo!Deliver, Fifo!Next
  <2>8. CASE msg_clear_all
    <3>1. Used' = 0
      BY <2>8, IdModFacts DEF msg_clear_all, Used, Distance
    <3>2. Waiting' = <<>>
      BY <2>1, <3>1
    <3> QED BY <2>8, <3>2 DEF msg_clear_all, Fifo!Clear, Fifo!Next
  <2>9. CASE UNCHANGED vars
    BY <2>2, <2>9 DEF vars, Fifo!vars
  <2> QED
    BY <2>3, <2>4, <2>5, <2>6, <2>7, <2>8, <2>9 DEF Next, Fifo!Next
<1> QED BY <1>1, <1>2, IInvInvariant, PTL DEF Spec, IsFifo, Fifo!Spec

------------------------------------------------------------------------------
\* The flash-write requests.

Requests == {i \in 1 .. Used : Waiting[i] \in EnvWrite}

\* Only the main loop posts flash-write requests; and once it is past the check
\* with one, none is waiting, unless the scan has missed it at the wrap.  What
\* interrupts store meanwhile are no requests, and nothing leaves the pool.
CheckStands ==
  /\ \A c \in Context : c # Main => putting[c] \notin EnvWrite
  /\ putting[Main] \in EnvWrite => Requests = {} \/ in_id < out_id

\* The scan of an unwrapped window sees every waiting message.
LEMMA CheckSeesAll ==
  ASSUME TypeOK, out_id <= in_id, ~msg_check
  PROVE  Requests = {}
<1>1. in_id \in Nat /\ out_id \in Nat /\ in_id < IdMod /\ IdMod \in Nat
  BY IdModFacts DEF TypeOK, Id
<1>2. Used = in_id - out_id
  BY DEF Used, Distance
<1>3. ASSUME NEW k \in 1 .. Used PROVE Waiting[k] \notin EnvWrite
  <2> DEFINE i == out_id + k - 1
  <2>1. i \in Id /\ out_id <= i /\ i < in_id
    BY <1>1, <1>2 DEF Id
  <2>2. pool[SlotOf(i)] \notin EnvWrite
    BY <2>1 DEF msg_check
  <2>3. Waiting[k] = pool[SlotOf(i)]
    BY DEF Waiting
  <2> QED BY <2>2, <2>3
<1> QED BY <1>3 DEF Requests

\* A step that touches neither the ring nor the indices keeps the requests.
LEMMA SameRequests ==
  ASSUME UNCHANGED <<pool, in_id, out_id>>
  PROVE  Used' = Used /\ Requests' = Requests
<1>1. Used' = Used /\ Waiting' = Waiting
  BY DEF Used, Waiting
<1> QED BY <1>1 DEF Requests

\* A message that is no request leaves the requests where they are.
LEMMA StoreRequests ==
  ASSUME IInv, NEW c \in Context, Store(c), putting[c] \notin EnvWrite
  PROVE  Requests' = Requests
<1>1. /\ Used' = Used + 1 /\ Used \in Nat
      /\ \A k \in 1 .. Used : Waiting'[k] = Waiting[k]
      /\ Waiting'[Used + 1] = putting[c]
  BY StoreAppends, UsedType DEF IInv
<1>2. \A k \in 1 .. Used' : k \in 1 .. Used \/ k = Used + 1
  BY <1>1
<1>3. \A k \in 1 .. Used : k \in 1 .. Used'
  BY <1>1
<1> QED BY <1>1, <1>2, <1>3 DEF Requests

\* A window that straddles the wrap still does after a store.
LEMMA StoreWrap ==
  ASSUME IInv, NEW c \in Context, Store(c), in_id < out_id
  PROVE  in_id' < out_id'
<1>1. Used < Count
  BY StoreAppends
<1>2. /\ in_id \in Nat /\ out_id \in Nat /\ out_id < IdMod /\ IdMod \in Nat
      /\ IdMod >= Count + Count
  BY IdModFacts DEF IInv, TypeOK, Id
<1>3. in_id + IdMod - out_id < Count
  BY <1>1, <1>2 DEF Used, Distance
<1>4. in_id + 1 < out_id
  BY <1>2, <1>3
<1>5. in_id' = in_id + 1 /\ out_id' = out_id
  BY <1>2, <1>4, IdModFacts DEF Store, IInv, TypeOK
<1> QED BY <1>4, <1>5

\* What msg_check found stands until the store, whoever posts in between.
LEMMA CheckNext == IInv /\ CheckStands /\ [Next]_vars => CheckStands'
<1> SUFFICES ASSUME IInv, CheckStands, [Next]_vars PROVE CheckStands'
  OBVIOUS
<1>1. /\ putting \in [Context -> Msg \cup {NoMsg}] /\ NoMsg \notin EnvWrite
      /\ Main \in Context /\ in_id \in Id /\ out_id \in Id
  BY DEF IInv, TypeOK, Context, Main
<1>2. ASSUME NEW c \in Context, NEW m \in Msg, BeginPut(c, m) PROVE CheckStands'
  <2>1. /\ putting' = [putting EXCEPT ![c] = m] /\ UNCHANGED <<pool, in_id, out_id>>
        /\ c # Main => m \notin EnvWrite
        /\ m \in EnvWrite => ~msg_check
    BY <1>2 DEF BeginPut, MayPost
  <2>2. Requests' = Requests
    BY <2>1, SameRequests
  <2>3. m \in EnvWrite => Requests = {} \/ in_id < out_id
    BY <2>1, CheckSeesAll, IdModFacts DEF IInv, TypeOK, Id
  <2> QED BY <1>1, <2>1, <2>2, <2>3 DEF CheckStands
<1>3. ASSUME NEW c \in Context, Refuse(c) PROVE CheckStands'
  <2>1. putting' = [putting EXCEPT ![c] = NoMsg] /\ UNCHANGED <<pool, in_id, out_id>>
    BY <1>3 DEF Refuse
  <2> QED BY <1>1, <2>1, SameRequests DEF CheckStands
<1>4. ASSUME NEW c \in Context, Store(c) PROVE CheckStands'
  <2>1. putting' = [putting EXCEPT ![c] = NoMsg]
    BY <1>4 DEF Store
  <2>2. CASE c = Main
    BY <1>1, <2>1, <2>2 DEF CheckStands
  <2>3. CASE c # Main
    <3>1. Requests' = Requests
      BY <1>4, <2>3, StoreRequests DEF CheckStands
    <3>2. in_id < out_id => in_id' < out_id'
      BY <1>4, StoreWrap
    <3> QED BY <1>1, <2>1, <3>1, <3>2 DEF CheckStands
  <2> QED BY <2>2, <2>3
<1>5. CASE Get \/ msg_clear_all
  BY <1>1, <1>5 DEF Get, msg_clear_all, MainIdle, CheckStands
<1>6. CASE GetNothing \/ UNCHANGED vars
  <2>1. UNCHANGED <<pool, in_id, out_id, putting>>
    BY <1>6 DEF GetNothing, vars
  <2> QED BY <2>1, SameRequests DEF CheckStands
<1> QED BY <1>2, <1>3, <1>4, <1>5, <1>6 DEF Next

\* Handing a message out shifts the requests by one place and loses at most one.
LEMMA GetRequests ==
  ASSUME IInv, Get
  PROVE  ~(EnvWritesWaiting' > EnvWritesWaiting)
<1>1. /\ Used \in Nat /\ Used' = Used - 1 /\ Used > 0
      /\ \A k \in 1 .. Used - 1 : Waiting'[k] = Waiting[k + 1]
  BY GetRemoves, UsedType DEF IInv
<1> DEFINE f == [k \in Requests' |-> k + 1]
<1>2. IsFiniteSet(Requests)
  <2>1. IsFiniteSet(1 .. Used)
    BY <1>1, FS_Interval
  <2> QED BY <2>1, FS_Subset DEF Requests
<1>3. \A k \in Requests' : k \in 1 .. Used - 1 /\ k + 1 \in Requests
  <2> SUFFICES ASSUME NEW k \in Requests' PROVE k \in 1 .. Used - 1 /\ k + 1 \in Requests
    OBVIOUS
  <2>1. k \in 1 .. Used - 1 /\ Waiting'[k] \in EnvWrite
    BY <1>1 DEF Requests
  <2>2. k + 1 \in 1 .. Used /\ Waiting[k + 1] \in EnvWrite
    BY <1>1, <2>1
  <2> QED BY <2>1, <2>2 DEF Requests
<1>4. f \in Injection(Requests', Requests)
  <2>1. f \in [Requests' -> Requests]
    BY <1>3
  <2>2. \A j, k \in Requests' : f[j] = f[k] => j = k
    BY <1>3
  <2> QED BY <2>1, <2>2 DEF Injection, IsInjective
<1>5. /\ Cardinality(Requests') <= Cardinality(Requests)
      /\ Cardinality(Requests') \in Nat /\ Cardinality(Requests) \in Nat
  BY <1>2, <1>4, FS_Injection, FS_CardinalityType
<1>6. ~(Cardinality(Requests') > Cardinality(Requests))
  BY <1>5
<1> QED BY <1>6 DEF EnvWritesWaiting, Requests

\* A flash-write request is queued once, however interrupts post between the
\* check and the store, but for a window that straddles the wrap of the indices.
THEOREM RequestsNotDoubled == Spec => EnvWriteNotDoubled
<1>1. Init => CheckStands
  BY DEF Init, CheckStands, Context, Main
<1>2. ASSUME IInv, CheckStands, [Next]_vars
      PROVE  [EnvWritesWaiting' > EnvWritesWaiting
                => EnvWritesWaiting = 0 \/ in_id < out_id]_vars
  <2> SUFFICES ASSUME EnvWritesWaiting' > EnvWritesWaiting
               PROVE  EnvWritesWaiting = 0 \/ in_id < out_id
    OBVIOUS
  <2>1. EnvWritesWaiting = Cardinality(Requests) /\ Cardinality({}) = 0
    BY FS_EmptySet DEF EnvWritesWaiting, Requests
  <2>2. EnvWritesWaiting \in Nat
    <3>1. Used \in Nat
      BY <1>2, UsedType DEF IInv
    <3>2. IsFiniteSet(1 .. Used)
      BY <3>1, FS_Interval
    <3>3. IsFiniteSet(Requests)
      BY <3>2, FS_Subset DEF Requests
    <3> QED BY <2>1, <3>3, FS_CardinalityType
  <2>3. Requests' # Requests
    <3>1. EnvWritesWaiting' = Cardinality(Requests')
      BY DEF EnvWritesWaiting, Requests
    <3> QED BY <2>1, <2>2, <3>1
  <2>4. PICK c \in Context : Store(c)
    <3>1. ~UNCHANGED <<pool, in_id, out_id>>
      BY <2>3, SameRequests
    <3>2. ~Get
      <4>1. CASE Get
        <5>1. ~(EnvWritesWaiting' > EnvWritesWaiting)
          BY <1>2, <4>1, GetRequests
        <5> QED BY <5>1
      <4> QED BY <4>1
    <3>3. ~msg_clear_all
      <4>1. CASE msg_clear_all
        <5>1. Used' = 0
          BY <4>1, IdModFacts DEF msg_clear_all, Used, Distance
        <5>2. Requests' = {}
          BY <5>1 DEF Requests
        <5>3. EnvWritesWaiting' = 0
          BY <2>1, <5>2 DEF EnvWritesWaiting, Requests
        <5> QED BY <2>2, <5>3
      <4> QED BY <4>1
    <3> QED BY <1>2, <3>1, <3>2, <3>3 DEF Next, BeginPut, Refuse, GetNothing, vars
  <2>5. c = Main /\ putting[Main] \in EnvWrite
    BY <1>2, <2>3, <2>4, StoreRequests DEF CheckStands
  <2> QED BY <1>2, <2>1, <2>5 DEF CheckStands
<1>3. IInv /\ CheckStands /\ [Next]_vars => CheckStands'
  BY CheckNext
<1> QED BY <1>1, <1>2, <1>3, IInvInvariant, PTL DEF Spec, EnvWriteNotDoubled
==============================================================================
