---------------------------- MODULE EnvKeysProofs ----------------------------
(***************************************************************************)
(* Theorems about EnvKeys for every set of devices and keys and every size *)
(* of the table.                                                           *)
(***************************************************************************)
EXTENDS EnvKeys, TLAPS

USE EnvKeysAssumption DEF EnvKeysAssumption

-----------------------------------------------------------------------------
\* The inductive invariant.

\* An entry that is not erased is that of a device, with its key.
Taken(t) == {s \in Slot : t[s].used # Erased}

\* No device twice, and no gap before an entry.
GoodTable(t) ==
  /\ t \in [Slot -> Entry]
  /\ \A s, r \in Taken(t) : t[s].addr = t[r].addr => s = r
  /\ \A s \in Taken(t) : \A r \in 0 .. s : r \in Taken(t)

\* The place a new device gets, if key_index is i.
PlaceOf(i) == IF i = Erased THEN 0 ELSE i

\* It is the first free one, or one of a full table.
GoodIndex(t, i) ==
  /\ i \in Slot \cup {Erased}
  /\ \A s \in 0 .. PlaceOf(i) - 1 : s \in Taken(t)

\* The place d entries before p, around the table.
Back(p, d) == IF d <= p THEN p - d ELSE (p - d) + Slots

\* The youngest device is right before the place of the next one, the one paired
\* before it one further back, and so on.
GoodOrder(t, i, o) ==
  /\ o \in Seq(Addr)
  /\ Len(o) <= Slots
  /\ \A d \in 1 .. Len(o) : o[(Len(o) + 1) - d] = t[Back(PlaceOf(i), d)].addr

GoodImage(t, i, o) == GoodTable(t) /\ GoodIndex(t, i) /\ GoodOrder(t, i, o)

\* The image in flash is one the table was in.
FlashGood ==
  /\ flash \in [table : [Slot -> Entry], key_index : Slot \cup {Erased},
                default : Addr \cup {NoAddr}, order : Seq(Addr)]
  /\ GoodImage(flash.table, flash.key_index, flash.order)

\* A link needs the unit.
LinkNeedsUnit == link # NoAddr => up

\* As long as it is known which device is active, it is the default, and the
\* image saved says the same.
LastRecorded ==
  last # NoAddr =>
    /\ Active = {last}
    /\ default = last
    /\ saving \/ flash = Current

IInv ==
  /\ TypeOK
  /\ GoodImage(table, key_index, order)
  /\ FlashGood
  /\ LinkNeedsUnit
  /\ ControllerAgrees
  /\ LastRecorded

-----------------------------------------------------------------------------
\* Entries and tables.

\* An entry in use is a record of a device, its key and whether it is active;
\* an entry has a device exactly when it is in use.
LEMMA EntryFacts ==
  ASSUME NEW e \in Entry
  PROVE  /\ e.used \in {0, 1, Erased}
         /\ e.addr \in Addr \cup {NoAddr}
         /\ e.used # Erased <=> e.addr \in Addr
         /\ e.used # Erased => e \in [used : {0, 1}, addr : Addr, key : Stored]
<1>1. CASE e = Unused
  BY <1>1 DEF Unused
<1>2. CASE e \in [used : {0, 1}, addr : Addr, key : Stored]
  <2> e.used \in {0, 1} /\ e.addr \in Addr
    BY <1>2
  <2> QED BY <1>2 DEF Erased
<1> QED BY <1>1, <1>2 DEF Entry

\* Clearing used in some entries in use makes them inactive and changes nothing
\* else.
LEMMA UnuseFacts ==
  ASSUME NEW t \in [Slot -> Entry], NEW S \in SUBSET Taken(t)
  PROVE  /\ Unuse(t, S) \in [Slot -> Entry]
         /\ \A s \in Slot : /\ Unuse(t, S)[s].addr = t[s].addr
                            /\ Unuse(t, S)[s].key = t[s].key
                            /\ Unuse(t, S)[s].used = IF s \in S THEN 0 ELSE t[s].used
<1>1. ASSUME NEW s \in Slot, s \in S
      PROVE  /\ [t[s] EXCEPT !.used = 0] \in Entry
             /\ [t[s] EXCEPT !.used = 0].addr = t[s].addr
             /\ [t[s] EXCEPT !.used = 0].key = t[s].key
             /\ [t[s] EXCEPT !.used = 0].used = 0
  <2>1. t[s] \in [used : {0, 1}, addr : Addr, key : Stored]
    BY <1>1, EntryFacts DEF Taken
  <2> QED BY <2>1 DEF Entry
<1> QED BY <1>1 DEF Unuse

\* What makes a table, its index and its order good depends on the devices only.
LEMMA SameDevices ==
  ASSUME NEW t, NEW i, NEW o, GoodImage(t, i, o),
         NEW u \in [Slot -> Entry], \A s \in Slot : u[s].addr = t[s].addr,
         NEW j \in Slot \cup {Erased}, PlaceOf(j) = PlaceOf(i)
  PROVE  GoodImage(u, j, o) /\ Taken(u) = Taken(t)
<1>1. t \in [Slot -> Entry]
  BY DEF GoodImage, GoodTable
<1>2. Taken(u) = Taken(t)
  BY <1>1, EntryFacts DEF Taken
<1>3. GoodTable(u)
  BY <1>2 DEF GoodImage, GoodTable, Taken
<1>4. GoodIndex(u, j)
  BY <1>2 DEF GoodImage, GoodIndex
<1>5. \A d \in 1 .. Len(o) : Back(PlaceOf(i), d) \in Slot
  <2>1. PlaceOf(i) \in Slot /\ Len(o) \in Nat /\ Len(o) <= Slots
    BY DEF GoodImage, GoodIndex, GoodOrder, PlaceOf, Slot
  <2> QED BY <2>1 DEF Back, Slot
<1>6. GoodOrder(u, j, o)
  BY <1>5 DEF GoodImage, GoodOrder
<1> QED BY <1>2, <1>3, <1>4, <1>6 DEF GoodImage

\* The first of the entries of a device, which is in the table.
LEMMA FirstFacts ==
  ASSUME GoodTable(table), NEW a \in Addr, key_stored(a) # {}
  PROVE  /\ FirstOf(key_stored(a)) \in Taken(table)
         /\ table[FirstOf(key_stored(a))].addr = a
<1>1. PICK s \in key_stored(a) : TRUE
  OBVIOUS
<1>2. key_stored(a) = {s}
  BY <1>1 DEF key_stored, GoodTable, Taken
<1>3. \A r \in key_stored(a) : s <= r
  BY <1>2 DEF key_stored, Slot
<1>4. FirstOf(key_stored(a)) \in key_stored(a)
  BY <1>1, <1>3 DEF FirstOf
<1> QED BY <1>4 DEF key_stored, Taken

\* Of the devices of a good table, the recorded one is made the only active one.
LEMMA ActivateFacts ==
  ASSUME GoodTable(table), NEW s \in Taken(table)
  PROVE  /\ Activate(s) \in [Slot -> Entry]
         /\ \A r \in Slot : /\ Activate(s)[r].addr = table[r].addr
                            /\ Activate(s)[r].key = table[r].key
                            /\ Activate(s)[r].used = 1 <=> r = s
<1> DEFINE live == {t \in Slot : \A r \in 0 .. t : table[r].used # Erased}
           cleared == Unuse(table, live)
<1>1. live = Taken(table)
  BY DEF Taken, GoodTable, Slot
<1>2. /\ cleared \in [Slot -> Entry]
      /\ \A r \in Slot : /\ cleared[r].addr = table[r].addr
                         /\ cleared[r].key = table[r].key
                         /\ cleared[r].used # 1
  <2>1. table \in [Slot -> Entry]
    BY DEF GoodTable
  <2>2. \A r \in Slot : r \notin Taken(table) => table[r].used # 1
    BY DEF Taken, Erased
  <2> HIDE DEF live
  <2> QED BY <1>1, <2>1, <2>2, UnuseFacts
<1>3. s \in Slot /\ cleared[s] \in [used : {0, 1}, addr : Addr, key : Stored]
  <2>1. s \in Slot /\ table[s].addr \in Addr
    BY EntryFacts DEF Taken, GoodTable
  <2> HIDE DEF cleared
  <2> QED BY <1>2, <2>1, EntryFacts
<1>4. Activate(s) = [cleared EXCEPT ![s].used = 1]
  BY DEF Activate
<1>5. [cleared[s] EXCEPT !.used = 1] \in Entry
  <2> HIDE DEF cleared
  <2> QED BY <1>3 DEF Entry
<1> HIDE DEF cleared
<1> QED BY <1>2, <1>3, <1>4, <1>5

-----------------------------------------------------------------------------
\* The actions on the table.

\* app_env_write_action keeps the devices and their keys; if it records a
\* connection of a device in the table, that device alone is active.
LEMMA WriteFacts ==
  ASSUME GoodTable(table), NEW a \in Addr \cup {NoAddr}, NEW connected,
         write_action(a, connected)
  PROVE  /\ table' \in [Slot -> Entry]
         /\ \A s \in Slot : table'[s].addr = table[s].addr /\ table'[s].key = table[s].key
         /\ table' # table => a \in Addr /\ connected = 1 /\ key_stored(a) # {}
         /\ connected = 1 /\ key_stored(a) # {} => Active' = {a}
<1>1. table \in [Slot -> Entry]
  BY DEF GoodTable
<1>2. CASE connected = 1 /\ key_stored(a) # {}
  <2> DEFINE s == FirstOf(key_stored(a))
  <2>1. a \in Addr
    BY <1>1, <1>2, EntryFacts DEF key_stored
  <2>2. s \in Taken(table) /\ table[s].addr = a
    BY <1>2, <2>1, FirstFacts
  <2>3. table' = Activate(s)
    BY <1>2 DEF write_action
  <2> HIDE DEF s
  <2>4. /\ table' \in [Slot -> Entry]
        /\ \A r \in Slot : table'[r].addr = table[r].addr /\ table'[r].key = table[r].key
        /\ \A r \in Slot : table'[r].used = 1 <=> r = s
    BY <2>2, <2>3, ActivateFacts
  <2>5. s \in Slot
    BY <2>2 DEF Taken
  <2>6. Active' = {a}
    BY <2>2, <2>4, <2>5 DEF Active
  <2> QED BY <1>2, <2>1, <2>4, <2>6
<1>3. CASE ~(connected = 1 /\ key_stored(a) # {})
  BY <1>1, <1>3 DEF write_action
<1> QED BY <1>2, <1>3

\* A device that is in the table keeps its entry and gets a new key; no other
\* entry changes device or key.
LEMMA StoreKnownFacts ==
  ASSUME GoodTable(table), NEW a \in Addr, NEW k \in Key, StoreKnown(a, k)
  PROVE  /\ table' \in [Slot -> Entry]
         /\ \A r \in Slot : table'[r].addr = table[r].addr
         /\ \E s \in Slot : /\ table'[s].addr = a /\ table'[s].key = k
                           /\ \A r \in Slot : r # s => table'[r].key = table[r].key
<1> DEFINE s == FirstOf(key_stored(a))
           upto == 0 .. s
           cleared == Unuse(table, upto)
<1>1. s \in Taken(table) /\ table[s].addr = a
  BY FirstFacts DEF StoreKnown
<1>2. table' = [cleared EXCEPT ![s] = [used |-> 1, addr |-> a, key |-> k]]
  BY DEF StoreKnown
<1> HIDE DEF s
<1>3. upto \in SUBSET Taken(table) /\ s \in Slot /\ table \in [Slot -> Entry]
  BY <1>1 DEF GoodTable, Taken
<1> HIDE DEF upto
<1>4. /\ cleared \in [Slot -> Entry]
      /\ \A r \in Slot : cleared[r].addr = table[r].addr /\ cleared[r].key = table[r].key
  BY <1>3, UnuseFacts
<1>5. [used |-> 1, addr |-> a, key |-> k] \in Entry
  BY DEF Entry, Stored
<1> HIDE DEF cleared
<1> QED BY <1>1, <1>2, <1>3, <1>4, <1>5

\* The place of the next device is in the table, and so is the one after it.
LEMMA IndexFacts ==
  ASSUME GoodIndex(table, key_index)
  PROVE  /\ Index = PlaceOf(key_index) /\ Index \in Slot
         /\ NextIndex \in Slot /\ NextIndex # Erased /\ PlaceOf(NextIndex) = NextIndex
         /\ NextIndex = IF Index + 1 = Slots THEN 0 ELSE Index + 1
<1>1. Index = PlaceOf(key_index) /\ Index \in Slot
  BY DEF GoodIndex, Index, PlaceOf, Slot
<1>2. NextIndex = IF Index + 1 = Slots THEN 0 ELSE Index + 1
  BY <1>1 DEF NextIndex, Slot
<1>3. NextIndex \in Slot /\ NextIndex # Erased
  BY <1>1, <1>2 DEF Slot, Erased
<1> QED BY <1>1, <1>2, <1>3 DEF PlaceOf

\* A new device takes the entry at the index; no other entry changes device or
\* key.
LEMMA StoreNewFacts ==
  ASSUME GoodTable(table), GoodIndex(table, key_index),
         NEW a \in Addr, NEW k \in Key, StoreNew(a, k)
  PROVE  /\ table' \in [Slot -> Entry]
         /\ table'[Index].addr = a /\ table'[Index].key = k
         /\ \A r \in Slot : r # Index => /\ table'[r].addr = table[r].addr
                                        /\ table'[r].key = table[r].key
         /\ \A r \in Slot : table[r].addr # a
<1> DEFINE before == 0 .. Index - 1
           cleared == Unuse(table, before)
<1>1. table' = [cleared EXCEPT ![Index] = [used |-> 1, addr |-> a, key |-> k]]
  BY DEF StoreNew
<1>2. before \in SUBSET Taken(table) /\ Index \in Slot /\ table \in [Slot -> Entry]
  BY IndexFacts DEF GoodIndex, GoodTable
<1> HIDE DEF before
<1>3. /\ cleared \in [Slot -> Entry]
      /\ \A r \in Slot : cleared[r].addr = table[r].addr /\ cleared[r].key = table[r].key
  BY <1>2, UnuseFacts
<1>4. [used |-> 1, addr |-> a, key |-> k] \in Entry
  BY DEF Entry, Stored
<1>5. \A r \in Slot : table[r].addr # a
  BY EntryFacts DEF StoreNew, key_stored, GoodTable
<1> HIDE DEF cleared
<1> QED BY <1>1, <1>2, <1>3, <1>4, <1>5

\* The place the next device gets comes right after the one just taken: seen
\* from it, every place is one further back.
LEMMA BackFacts ==
  ASSUME GoodIndex(table, key_index)
  PROVE  /\ Back(NextIndex, 1) = Index
         /\ \A d \in 1 .. Slots - 1 : /\ Back(NextIndex, d + 1) = Back(Index, d)
                                     /\ Back(Index, d) \in Slot
                                     /\ Back(Index, d) # Index
         /\ Back(Index, Slots) = Index
<1>1. /\ Index \in Slot
      /\ NextIndex = IF Index + 1 = Slots THEN 0 ELSE Index + 1
  BY IndexFacts
<1>2. Back(NextIndex, 1) = Index
  BY <1>1 DEF Back, Slot
<1>3. ASSUME NEW d \in 1 .. Slots - 1
      PROVE  /\ Back(NextIndex, d + 1) = Back(Index, d)
             /\ Back(Index, d) \in Slot
             /\ Back(Index, d) # Index
  BY <1>1 DEF Back, Slot
<1>4. Back(Index, Slots) = Index
  BY <1>1 DEF Back, Slot
<1> QED BY <1>2, <1>3, <1>4

\* The order without the device whose entry is taken: with the table full that
\* device is the oldest, and otherwise there is none.
LEMMA WithoutFacts ==
  ASSUME GoodImage(table, key_index, order)
  PROVE  LET W == Without(order, table[Index].addr)
         IN  /\ W \in Seq(Addr) /\ Len(W) < Slots
             /\ \A d \in 1 .. Len(W) : W[(Len(W) + 1) - d] = table[Back(Index, d)].addr
             /\ Len(order) = Slots => order # <<>> /\ Head(order) = table[Index].addr
<1> DEFINE x == table[Index].addr
           here == {i \in 1 .. Len(order) : order[i] = x}
           W == Without(order, x)
<1>1. /\ order \in Seq(Addr) /\ Len(order) \in Nat /\ Len(order) <= Slots
      /\ \A d \in 1 .. Len(order) : order[(Len(order) + 1) - d] = table[Back(Index, d)].addr
  BY IndexFacts DEF GoodImage, GoodOrder
<1>2. Index \in Slot /\ Slots \in Nat /\ Slots >= 1
  BY IndexFacts DEF GoodImage
<1>3. \A i \in 1 .. Len(order) : order[i] = table[Back(Index, (Len(order) + 1) - i)].addr
  <2> SUFFICES ASSUME NEW i \in 1 .. Len(order)
               PROVE  order[i] = table[Back(Index, (Len(order) + 1) - i)].addr
    OBVIOUS
  <2>1. (Len(order) + 1) - i \in 1 .. Len(order)
    BY <1>1
  <2>2. order[(Len(order) + 1) - ((Len(order) + 1) - i)]
          = table[Back(Index, (Len(order) + 1) - i)].addr
    BY <1>1, <2>1
  <2>3. (Len(order) + 1) - ((Len(order) + 1) - i) = i
    BY <1>1
  <2> QED BY <2>2, <2>3
<1>4. \A i \in 1 .. Len(order) : (Len(order) + 1) - i \in 1 .. Slots - 1 => order[i] # x
  <2> SUFFICES ASSUME NEW i \in 1 .. Len(order),
                      (Len(order) + 1) - i \in 1 .. Slots - 1, order[i] = x
               PROVE  FALSE
    OBVIOUS
  <2> DEFINE b == Back(Index, (Len(order) + 1) - i)
  <2>1. b \in Slot /\ b # Index
    BY BackFacts DEF GoodImage
  <2>2. table[b].addr = x /\ x \in Addr
    BY <1>1, <1>3
  <2>3. b \in Taken(table) /\ Index \in Taken(table)
    BY <1>2, <2>1, <2>2, EntryFacts DEF Taken, GoodImage, GoodTable
  <2> QED BY <2>1, <2>2, <2>3 DEF GoodImage, GoodTable
<1>5. CASE Len(order) < Slots
  <2>1. here = {}
    BY <1>1, <1>4, <1>5
  <2>2. W = order
    BY <2>1 DEF Without
  <2> QED BY <1>1, <1>5, <2>2
<1>6. CASE Len(order) = Slots
  <2>1. order[1] = x
    BY <1>1, <1>2, <1>3, <1>6, BackFacts DEF GoodImage
  <2>2. \A i \in 2 .. Len(order) : order[i] # x
    BY <1>1, <1>4, <1>6
  <2>3. 1 \in here /\ \A i \in here : i = 1
    BY <1>1, <1>2, <1>6, <2>1, <2>2
  <2>4. here # {} /\ (CHOOSE i \in here : TRUE) = 1
    BY <2>3
  <2>5. W = [j \in 1 .. Len(order) - 1 |-> IF j < 1 THEN order[j] ELSE order[j + 1]]
    BY <2>4 DEF Without
  <2>6. /\ W \in Seq(Addr) /\ Len(W) = Slots - 1
        /\ \A j \in 1 .. Slots - 1 : W[j] = order[j + 1]
    <3>1. W = [j \in 1 .. Slots - 1 |-> order[j + 1]]
      BY <1>2, <1>6, <2>5
    <3>2. Slots - 1 \in Nat /\ \A j \in 1 .. Slots - 1 : order[j + 1] \in Addr
      BY <1>1, <1>2, <1>6
    <3> HIDE DEF W
    <3> QED BY <3>1, <3>2
  <2> HIDE DEF W
  <2>7. ASSUME NEW d \in 1 .. Len(W)
        PROVE  W[(Len(W) + 1) - d] = table[Back(Index, d)].addr
    <3>1. (Len(W) + 1) - d = Slots - d /\ Slots - d \in 1 .. Slots - 1
      BY <1>2, <2>6
    <3>2. W[Slots - d] = order[(Slots - d) + 1]
      BY <2>6, <3>1
    <3>3. (Slots - d) + 1 = (Len(order) + 1) - d /\ d \in 1 .. Len(order)
      BY <1>2, <1>6, <2>6
    <3> QED BY <1>1, <3>1, <3>2, <3>3
  <2>8. order # <<>> /\ Head(order) = x
    BY <1>1, <1>2, <1>6, <2>1
  <2> QED BY <1>2, <2>6, <2>7, <2>8 DEF W
<1> QED BY <1>1, <1>5, <1>6

\* A device without our key is no longer active; nothing else changes.
LEMMA KeyMissingFacts ==
  ASSUME GoodTable(table), NEW a \in Addr, KeyMissing(a)
  PROVE  /\ table' \in [Slot -> Entry]
         /\ \A r \in Slot : table'[r].addr = table[r].addr
<1>1. CASE key_stored(a) = {}
  BY <1>1 DEF KeyMissing, GoodTable
<1>2. CASE key_stored(a) # {}
  <2> DEFINE S == {FirstOf(key_stored(a))}
  <2>1. table' = Unuse(table, S) /\ S \in SUBSET Taken(table) /\ table \in [Slot -> Entry]
    BY <1>2, FirstFacts DEF KeyMissing, GoodTable
  <2> HIDE DEF S
  <2> QED BY <2>1, UnuseFacts
<1> QED BY <1>1, <1>2

\* A table and an image of nothing.
LEMMA BlankGood ==
  /\ Blank \in [table : [Slot -> Entry], key_index : Slot \cup {Erased},
               default : Addr \cup {NoAddr}, order : Seq(Addr)]
  /\ GoodImage(Blank.table, Blank.key_index, Blank.order)
<1> DEFINE t == [s \in Slot |-> Unused]
<1>1. Blank.table = t /\ Blank.key_index = Erased /\ Blank.default = NoAddr /\ Blank.order = <<>>
  BY DEF Blank
<1>2. t \in [Slot -> Entry] /\ Taken(t) = {}
  BY DEF Taken, Entry, Unused
<1>3. <<>> \in Seq(Addr) /\ Len(<<>>) = 0
  OBVIOUS
<1>4. GoodTable(t) /\ GoodIndex(t, Erased)
  BY <1>2 DEF GoodTable, GoodIndex, PlaceOf
<1>5. GoodOrder(t, Erased, <<>>)
  BY <1>3 DEF GoodOrder
<1>6. Blank \in [table : [Slot -> Entry], key_index : Slot \cup {Erased},
                default : Addr \cup {NoAddr}, order : Seq(Addr)]
  BY <1>2, <1>3 DEF Blank
<1> QED BY <1>1, <1>4, <1>5, <1>6 DEF GoodImage

\* What a save that was cut short leaves is a good image: an entry it has reached
\* has its device, if not its key; with the index the whole table is there.
LEMMA CutGood ==
  ASSUME GoodImage(table, key_index, order), default \in Addr \cup {NoAddr},
         NEW p \in 0 .. Slots
  PROVE  /\ Cut(p) \in [table : [Slot -> Entry], key_index : Slot \cup {Erased},
                       default : Addr \cup {NoAddr}, order : Seq(Addr)]
         /\ GoodImage(Cut(p).table, Cut(p).key_index, Cut(p).order)
<1> DEFINE there(s) == Reached(p, 3 * s + 1)
           whole(s) == Reached(p, 3 * s + 3)
           tail == Reached(p, 3 * Slots + 1)
           t == [s \in Slot |-> IF whole(s) THEN table[s]
                                ELSE IF there(s) /\ table[s].used # Erased
                                THEN [table[s] EXCEPT !.key = TornKey]
                                ELSE Unused]
           i == IF tail THEN key_index ELSE Erased
           o == IF tail THEN order ELSE <<>>
<1>1. /\ Cut(p).table = t /\ Cut(p).key_index = i /\ Cut(p).order = o
      /\ Cut(p) = [table |-> t, key_index |-> i,
                   default |-> IF tail THEN default ELSE NoAddr, order |-> o]
  BY DEF Cut
<1>2. /\ \A s \in Slot : whole(s) => there(s)
      /\ \A s \in Slot : \A r \in 0 .. s : r \in Slot /\ (there(s) => there(r))
      /\ tail => \A s \in Slot : whole(s)
  BY DEF Reached, Slot
<1>3. /\ table \in [Slot -> Entry] /\ GoodIndex(table, key_index) /\ order \in Seq(Addr)
      /\ <<>> \in Seq(Addr) /\ Len(<<>>) = 0
  BY DEF GoodImage, GoodTable, GoodOrder
<1> HIDE DEF there, whole, tail
<1>4. ASSUME NEW s \in Slot, table[s].used # Erased
      PROVE  /\ [table[s] EXCEPT !.key = TornKey] \in Entry
             /\ [table[s] EXCEPT !.key = TornKey].used = table[s].used
             /\ [table[s] EXCEPT !.key = TornKey].addr = table[s].addr
  <2>1. table[s] \in [used : {0, 1}, addr : Addr, key : Stored]
    BY <1>3, <1>4, EntryFacts
  <2> QED BY <2>1 DEF Entry, Stored
<1>5. Unused \in Entry /\ Unused.used = Erased
  BY DEF Entry, Unused
<1>6. t \in [Slot -> Entry]
  BY <1>3, <1>4, <1>5
<1>7. /\ Taken(t) = {s \in Taken(table) : there(s)}
      /\ \A s \in Taken(t) : t[s].addr = table[s].addr
  BY <1>2, <1>4, <1>5 DEF Taken
<1>8. tail => t = table
  BY <1>2, <1>3
<1> HIDE DEF t
<1>9. GoodTable(t)
  <2>1. \A s \in Taken(t) : \A r \in 0 .. s : r \in Taken(t)
    BY <1>2, <1>7 DEF GoodImage, GoodTable, Taken
  <2>2. \A s, r \in Taken(t) : t[s].addr = t[r].addr => s = r
    BY <1>7 DEF GoodImage, GoodTable
  <2> QED BY <1>6, <2>1, <2>2 DEF GoodTable
<1>10. GoodIndex(t, i) /\ GoodOrder(t, i, o)
  <2>1. CASE tail
    BY <1>8, <2>1 DEF GoodImage
  <2>2. CASE ~tail
    BY <1>3, <2>2 DEF GoodIndex, GoodOrder, PlaceOf
  <2> QED BY <2>1, <2>2
<1>11. i \in Slot \cup {Erased} /\ o \in Seq(Addr)
  BY <1>3 DEF GoodIndex
<1> HIDE DEF i, o
<1>12. Cut(p) \in [table : [Slot -> Entry], key_index : Slot \cup {Erased},
                  default : Addr \cup {NoAddr}, order : Seq(Addr)]
  BY <1>1, <1>6, <1>11
<1> QED BY <1>1, <1>9, <1>10, <1>12 DEF GoodImage

\* A new device leaves a good table, index and order.
LEMMA StoreNewGood ==
  ASSUME GoodImage(table, key_index, order),
         NEW a \in Addr, NEW k \in Key, StoreNew(a, k)
  PROVE  GoodImage(table', key_index', order')
<1> DEFINE W == Without(order, table[Index].addr)
<1>1. /\ table' \in [Slot -> Entry]
      /\ table'[Index].addr = a
      /\ \A r \in Slot : r # Index => table'[r].addr = table[r].addr
      /\ \A r \in Slot : table[r].addr # a
  BY StoreNewFacts DEF GoodImage
<1>2. /\ Index \in Slot /\ NextIndex \in Slot /\ NextIndex # Erased
      /\ PlaceOf(NextIndex) = NextIndex /\ Index = PlaceOf(key_index)
      /\ NextIndex = IF Index + 1 = Slots THEN 0 ELSE Index + 1
  BY IndexFacts DEF GoodImage
<1>3. table \in [Slot -> Entry]
  BY DEF GoodImage, GoodTable
<1>4. Taken(table') = Taken(table) \cup {Index}
  <2>1. Taken(table') = {s \in Slot : table'[s].addr \in Addr}
    BY <1>1, EntryFacts DEF Taken
  <2>2. Taken(table) = {s \in Slot : table[s].addr \in Addr}
    BY <1>3, EntryFacts DEF Taken
  <2> QED BY <1>1, <1>2, <2>1, <2>2
<1>5. \A s \in 0 .. Index - 1 : s \in Taken(table)
  BY <1>2 DEF GoodImage, GoodIndex
<1>6. GoodTable(table')
  <2>1. \A s, r \in Taken(table') : table'[s].addr = table'[r].addr => s = r
    BY <1>1, <1>4 DEF GoodImage, GoodTable, Taken
  <2>2. \A s \in Taken(table') : \A r \in 0 .. s : r \in Taken(table')
    BY <1>2, <1>4, <1>5 DEF GoodImage, GoodTable, Slot
  <2> QED BY <1>1, <2>1, <2>2 DEF GoodTable
<1>7. key_index' = NextIndex /\ order' = Append(W, a)
  BY DEF StoreNew, Remember
<1>8. GoodIndex(table', key_index')
  BY <1>2, <1>4, <1>5, <1>7 DEF GoodIndex, Slot
<1>9. /\ W \in Seq(Addr) /\ Len(W) < Slots
      /\ \A d \in 1 .. Len(W) : W[(Len(W) + 1) - d] = table[Back(Index, d)].addr
  BY WithoutFacts
<1> HIDE DEF W
<1>10. /\ order' \in Seq(Addr) /\ Len(order') = Len(W) + 1 /\ Len(W) \in Nat
       /\ order'[Len(W) + 1] = a
       /\ \A j \in 1 .. Len(W) : order'[j] = W[j]
  BY <1>7, <1>9
<1>11. ASSUME NEW d \in 1 .. Len(order')
       PROVE  order'[(Len(order') + 1) - d] = table'[Back(NextIndex, d)].addr
  <2>1. CASE d = 1
    <3>1. Back(NextIndex, d) = Index
      BY <2>1, BackFacts DEF GoodImage
    <3>2. (Len(order') + 1) - d = Len(W) + 1
      BY <1>10, <2>1
    <3> QED BY <1>1, <1>10, <3>1, <3>2
  <2>2. CASE d # 1
    <3> DEFINE e == d - 1
    <3>1. e \in 1 .. Len(W) /\ e \in 1 .. Slots - 1 /\ d = e + 1
      BY <1>9, <1>10, <2>2
    <3> HIDE DEF e
    <3>2. Back(NextIndex, d) = Back(Index, e) /\ Back(Index, e) \in Slot
            /\ Back(Index, e) # Index
      BY <3>1, BackFacts DEF GoodImage
    <3>3. (Len(order') + 1) - d = (Len(W) + 1) - e /\ (Len(W) + 1) - e \in 1 .. Len(W)
      BY <1>10, <3>1
    <3>4. order'[(Len(order') + 1) - d] = table[Back(Index, e)].addr
      BY <1>9, <1>10, <3>1, <3>3
    <3> QED BY <1>1, <3>2, <3>4
  <2> QED BY <2>1, <2>2
<1>12. GoodOrder(table', key_index', order')
  <2>1. Len(order') <= Slots
    BY <1>9, <1>10
  <2> QED BY <1>2, <1>7, <1>10, <1>11, <2>1 DEF GoodOrder
<1> QED BY <1>6, <1>8, <1>12 DEF GoodImage

-----------------------------------------------------------------------------
\* The parts of the invariant.

\* Every step keeps the types.
LEMMA TypeStep ==
  ASSUME IInv, [Next]_vars
  PROVE  TypeOK'
<1> USE DEF TypeOK
<1>1. /\ GoodTable(table) /\ GoodIndex(table, key_index)
      /\ GoodImage(flash.table, flash.key_index, flash.order)
      /\ flash \in [table : [Slot -> Entry], key_index : Slot \cup {Erased},
                    default : Addr \cup {NoAddr}, order : Seq(Addr)]
  BY DEF IInv, GoodImage, FlashGood
<1>2. CASE EnableComplete
  <2>1. ctrl' \in [Addr -> Stored \cup {NoKey}]
    <3> DEFINE lead == {s \in Slot : \A r \in 0 .. s : table[r].used = 1}
    <3> SUFFICES ASSUME NEW a \in Addr, NEW s \in lead, table[s].addr = a
                 PROVE  table[CHOOSE r \in lead : table[r].addr = a].key \in Stored
      BY <1>2, Zenon DEF EnableComplete
    <3> DEFINE c == CHOOSE r \in lead : table[r].addr = a
    <3>1. c \in lead /\ table[c].addr = a
      OBVIOUS
    <3> HIDE DEF c
    <3>2. c \in Slot
      BY <3>1
    <3>3. table[c].used # Erased
      BY <1>1, <3>1, <3>2, EntryFacts DEF GoodTable
    <3>4. table[c] \in [used : {0, 1}, addr : Addr, key : Stored]
      BY <1>1, <3>2, <3>3, EntryFacts DEF GoodTable
    <3> QED BY <3>4 DEF c
  <2> QED BY <1>2, <2>1 DEF IInv, EnableComplete, ram
<1>3. CASE Disable
  BY <1>3 DEF IInv, Disable, ram
<1>4. ASSUME NEW a \in Addr, LinkUp(a) PROVE TypeOK'
  BY <1>4 DEF IInv, LinkUp, ram
<1>5. ASSUME NEW a \in Addr, ConnDone(a) PROVE TypeOK'
  <2>1. table' \in [Slot -> Entry] /\ default' = a /\ saving' = TRUE
          /\ key_index' = key_index
    BY <1>1, <1>5, WriteFacts DEF ConnDone, write_action
  <2>2. pending' \in {0, 1, Erased} /\ last' \in Addr \cup {NoAddr}
    BY <1>5 DEF IInv, ConnDone, Post
  <2> QED BY <1>5, <2>1, <2>2 DEF IInv, ConnDone, radio
<1>6. ASSUME NEW a \in Addr, KeyMissing(a) PROVE TypeOK'
  <2>1. table' \in [Slot -> Entry]
    BY <1>1, <1>6, KeyMissingFacts
  <2>2. pending' \in {0, 1, Erased} /\ last' \in Addr \cup {NoAddr}
          /\ ctrl' \in [Addr -> Stored \cup {NoKey}]
    BY <1>6 DEF IInv, KeyMissing, Post, Forget
  <2> QED BY <1>6, <2>1, <2>2 DEF IInv, KeyMissing
<1>7. CASE LinkDown
  BY <1>7 DEF IInv, LinkDown, ram
<1>8. ASSUME NEW a \in Addr, NEW k \in Key, StoreKnown(a, k) PROVE TypeOK'
  <2>1. table' \in [Slot -> Entry]
    BY <1>1, <1>8, StoreKnownFacts
  <2>2. key_index' \in Slot
    BY <1>1, <1>8, IndexFacts DEF StoreKnown
  <2>3. ctrl' \in [Addr -> Stored \cup {NoKey}]
    BY <1>8 DEF IInv, StoreKnown, Stored
  <2> QED BY <1>8, <2>1, <2>2, <2>3 DEF IInv, StoreKnown, Forget
<1>9. ASSUME NEW a \in Addr, NEW k \in Key, StoreNew(a, k) PROVE TypeOK'
  <2>1. table' \in [Slot -> Entry]
    BY <1>1, <1>9, StoreNewFacts
  <2>2. key_index' \in Slot
    BY <1>1, <1>9, IndexFacts DEF StoreNew
  <2>3. ctrl' \in [Addr -> Stored \cup {NoKey}]
    BY <1>9 DEF IInv, StoreNew, Stored
  <2> QED BY <1>9, <2>1, <2>2, <2>3 DEF IInv, StoreNew, Forget
<1>10. CASE HandleWrite
  <2>1. table' \in [Slot -> Entry] /\ default' = default /\ saving' = TRUE
          /\ key_index' = key_index
    BY <1>1, <1>10, WriteFacts DEF IInv, HandleWrite, write_action
  <2> QED BY <1>10, <2>1 DEF IInv, HandleWrite, radio
<1>11. CASE SaveSetting
  <2>1. table' \in [Slot -> Entry] /\ default' = default /\ saving' = TRUE
          /\ key_index' = key_index
    BY <1>1, <1>11, WriteFacts DEF IInv, SaveSetting, write_action
  <2> QED BY <1>11, <2>1 DEF IInv, SaveSetting, radio
<1>12. CASE ClearAll
  <2>1. Blank.table \in [Slot -> Entry]
    BY BlankGood
  <2> QED BY <1>12, <2>1 DEF IInv, ClearAll, Forget
<1>13. CASE SaveDone
  BY <1>13 DEF IInv, SaveDone, ram, radio, Current
<1>14. CASE PowerFail
  BY <1>1, <1>14 DEF IInv, PowerFail, Restart
<1>15. ASSUME NEW k \in 0 .. Slots, PowerFailInSave(k) PROVE TypeOK'
  <2>1. Cut(k) \in [table : [Slot -> Entry], key_index : Slot \cup {Erased},
                   default : Addr \cup {NoAddr}, order : Seq(Addr)]
    BY <1>1, CutGood DEF IInv
  <2>2. PICK image \in {flash, Cut(k)} : Restart(image)
    BY <1>15 DEF PowerFailInSave
  <2>3. image \in [table : [Slot -> Entry], key_index : Slot \cup {Erased},
                   default : Addr \cup {NoAddr}, order : Seq(Addr)]
    BY <1>1, <2>1
  <2> QED BY <1>15, <2>2, <2>3 DEF IInv, PowerFailInSave, Restart, Forget
<1>16. CASE UNCHANGED vars
  BY <1>16 DEF IInv, vars, ram, radio
<1> QED
  BY <1>2, <1>3, <1>4, <1>5, <1>6, <1>7, <1>8, <1>9, <1>10, <1>11, <1>12, <1>13,
     <1>14, <1>15, <1>16 DEF Next

\* Every step keeps the table, the index and the order of pairing in agreement.
LEMMA ImageStep ==
  ASSUME IInv, [Next]_vars
  PROVE  GoodImage(table', key_index', order')
<1>1. /\ GoodImage(table, key_index, order) /\ GoodTable(table)
      /\ GoodIndex(table, key_index) /\ key_index \in Slot \cup {Erased}
      /\ GoodImage(flash.table, flash.key_index, flash.order)
      /\ default \in Addr \cup {NoAddr}
  BY DEF IInv, GoodImage, FlashGood, GoodIndex, TypeOK
<1>2. ASSUME table' \in [Slot -> Entry],
             \A s \in Slot : table'[s].addr = table[s].addr,
             key_index' = key_index, order' = order
      PROVE  GoodImage(table', key_index', order')
  BY <1>1, <1>2, SameDevices
<1>3. ASSUME UNCHANGED ram
      PROVE  GoodImage(table', key_index', order')
  BY <1>1, <1>3 DEF ram
<1>4. CASE EnableComplete \/ Disable \/ LinkDown \/ SaveDone \/ UNCHANGED vars
  BY <1>3, <1>4 DEF EnableComplete, Disable, LinkDown, SaveDone, vars
<1>5. ASSUME NEW a \in Addr, LinkUp(a) PROVE GoodImage(table', key_index', order')
  BY <1>3, <1>5 DEF LinkUp
<1>6. ASSUME NEW a \in Addr, ConnDone(a) PROVE GoodImage(table', key_index', order')
  BY <1>1, <1>2, <1>6, WriteFacts DEF ConnDone, write_action
<1>7. ASSUME NEW a \in Addr, KeyMissing(a) PROVE GoodImage(table', key_index', order')
  BY <1>1, <1>2, <1>7, KeyMissingFacts DEF KeyMissing
<1>8. ASSUME NEW a \in Addr, NEW k \in Key, StoreKnown(a, k)
      PROVE  GoodImage(table', key_index', order')
  <2>1. table' \in [Slot -> Entry] /\ \A s \in Slot : table'[s].addr = table[s].addr
    BY <1>1, <1>8, StoreKnownFacts
  <2>2. key_index' \in Slot /\ PlaceOf(key_index') = PlaceOf(key_index)
    BY <1>1, <1>8, IndexFacts DEF StoreKnown, PlaceOf, Erased, Index
  <2>3. order' = order
    BY <1>8 DEF StoreKnown
  <2> QED BY <1>1, <2>1, <2>2, <2>3, SameDevices
<1>9. ASSUME NEW a \in Addr, NEW k \in Key, StoreNew(a, k)
      PROVE  GoodImage(table', key_index', order')
  BY <1>1, <1>9, StoreNewGood
<1>10. CASE HandleWrite
  BY <1>1, <1>2, <1>10, WriteFacts DEF HandleWrite, write_action
<1>11. CASE SaveSetting
  BY <1>1, <1>2, <1>11, WriteFacts DEF SaveSetting, write_action
<1>12. CASE ClearAll
  <2>1. table' = Blank.table /\ key_index' = Blank.key_index /\ order' = Blank.order
    BY <1>12 DEF ClearAll, Blank
  <2> QED BY <2>1, BlankGood
<1>13. CASE PowerFail
  BY <1>1, <1>13 DEF PowerFail, Restart
<1>14. ASSUME NEW k \in 0 .. Slots, PowerFailInSave(k)
       PROVE  GoodImage(table', key_index', order')
  BY <1>1, <1>14, CutGood DEF PowerFailInSave, Restart
<1> QED
  BY <1>4, <1>5, <1>6, <1>7, <1>8, <1>9, <1>10, <1>11, <1>12, <1>13, <1>14 DEF Next

\* What the flash holds is what a save of a good table leaves, whole or cut
\* short.
LEMMA FlashStep ==
  ASSUME IInv, [Next]_vars
  PROVE  FlashGood'
<1>1. /\ GoodTable(table)
      /\ FlashGood
      /\ flash = [table |-> flash.table, key_index |-> flash.key_index,
                  default |-> flash.default, order |-> flash.order]
  BY DEF IInv, GoodImage, FlashGood
<1>2. CASE UNCHANGED flash
  BY <1>1, <1>2 DEF FlashGood
<1>3. CASE SaveDone
  <2>1. flash' = Current
    BY <1>3 DEF SaveDone
  <2>2. /\ table \in [Slot -> Entry] /\ key_index \in Slot \cup {Erased}
        /\ default \in Addr \cup {NoAddr} /\ order \in Seq(Addr)
        /\ GoodImage(table, key_index, order)
    BY DEF IInv, TypeOK, GoodImage, GoodOrder
  <2> QED BY <2>1, <2>2 DEF FlashGood, Current
<1>4. ASSUME NEW k \in 0 .. Slots, PowerFailInSave(k) PROVE FlashGood'
  BY <1>1, <1>4, CutGood DEF IInv, TypeOK, PowerFailInSave, Restart, FlashGood
<1>5. CASE PowerFail
  BY <1>2, <1>5 DEF PowerFail, Restart
<1>6. ASSUME NEW a \in Addr, LinkUp(a) \/ ConnDone(a) \/ KeyMissing(a) PROVE UNCHANGED flash
  BY <1>6 DEF LinkUp, ConnDone, KeyMissing
<1>7. ASSUME NEW a \in Addr, NEW k \in Key, StoreKnown(a, k) \/ StoreNew(a, k)
      PROVE  UNCHANGED flash
  BY <1>7 DEF StoreKnown, StoreNew
<1>8. CASE EnableComplete \/ Disable \/ LinkDown \/ HandleWrite \/ SaveSetting \/ ClearAll
  BY <1>2, <1>8 DEF EnableComplete, Disable, LinkDown, HandleWrite, SaveSetting, ClearAll
<1>9. CASE UNCHANGED vars
  BY <1>2, <1>9 DEF vars
<1> QED BY <1>2, <1>3, <1>4, <1>5, <1>6, <1>7, <1>8, <1>9 DEF Next

\* There is no link without the unit.
LEMMA LinkStep ==
  ASSUME IInv, [Next]_vars
  PROVE  LinkNeedsUnit'
<1>1. link # NoAddr => up
  BY DEF IInv, LinkNeedsUnit
<1>2. CASE UNCHANGED <<up, link>> \/ link' = NoAddr \/ up'
  BY <1>1, <1>2 DEF LinkNeedsUnit
<1>3. ASSUME NEW a \in Addr, LinkUp(a) \/ ConnDone(a) \/ KeyMissing(a)
      PROVE  UNCHANGED <<up, link>> \/ up'
  BY <1>3 DEF LinkUp, ConnDone, KeyMissing, radio
<1>4. ASSUME NEW a \in Addr, NEW k \in Key, StoreKnown(a, k) \/ StoreNew(a, k)
      PROVE  UNCHANGED <<up, link>>
  BY <1>4 DEF StoreKnown, StoreNew
<1>5. CASE EnableComplete \/ Disable \/ LinkDown
  BY <1>2, <1>5 DEF EnableComplete, Disable, LinkDown
<1>6. CASE HandleWrite \/ SaveSetting \/ ClearAll \/ SaveDone \/ UNCHANGED vars
  BY <1>2, <1>6 DEF HandleWrite, SaveSetting, ClearAll, SaveDone, vars, radio
<1>7. CASE PowerFail \/ \E k \in 0 .. Slots : PowerFailInSave(k)
  BY <1>2, <1>7 DEF PowerFail, PowerFailInSave, Restart
<1> QED BY <1>2, <1>3, <1>4, <1>5, <1>6, <1>7 DEF Next

\* The link manager is told of every change of a key in the table.
LEMMA ControllerStep ==
  ASSUME IInv, [Next]_vars
  PROVE  ControllerAgrees'
<1>1. /\ ControllerAgrees /\ GoodTable(table) /\ GoodIndex(table, key_index)
      /\ ctrl \in [Addr -> Stored \cup {NoKey}] /\ default \in Addr \cup {NoAddr}
  BY DEF IInv, TypeOK, GoodImage
<1>2. ASSUME ctrl' = ctrl,
             \A s \in Slot : table'[s].addr = table[s].addr /\ table'[s].key = table[s].key
      PROVE  ControllerAgrees'
  BY <1>1, <1>2 DEF ControllerAgrees
<1>3. ASSUME \A a \in Addr : ctrl'[a] = NoKey PROVE ControllerAgrees'
  BY <1>3 DEF ControllerAgrees
<1>4. CASE EnableComplete
  <2> DEFINE lead == {s \in Slot : \A r \in 0 .. s : table[r].used = 1}
  <2>1. table' = table /\ lead \in SUBSET Slot
    BY <1>4 DEF EnableComplete, ram
  <2>2. ctrl' = [a \in Addr |-> IF \E s \in lead : table[s].addr = a
                                THEN table[CHOOSE s \in lead : table[s].addr = a].key
                                ELSE NoKey]
    BY <1>4, Zenon DEF EnableComplete
  <2> HIDE DEF lead
  <2> SUFFICES ASSUME NEW a \in Addr, ctrl'[a] # NoKey
               PROVE  \E s \in Slot : table[s].addr = a /\ table[s].key = ctrl'[a]
    BY <2>1 DEF ControllerAgrees
  <2>3. \E s \in lead : table[s].addr = a
    BY <2>2
  <2> DEFINE c == CHOOSE s \in lead : table[s].addr = a
  <2>4. c \in lead /\ table[c].addr = a
    BY <2>3
  <2>5. ctrl'[a] = table[c].key
    BY <2>2, <2>3
  <2> QED BY <2>1, <2>4, <2>5
<1>5. CASE Disable \/ LinkDown \/ SaveDone \/ UNCHANGED vars
  BY <1>2, <1>5 DEF Disable, LinkDown, SaveDone, vars, ram, radio
<1>6. ASSUME NEW a \in Addr, LinkUp(a) PROVE ControllerAgrees'
  BY <1>2, <1>6 DEF LinkUp, ram
<1>7. ASSUME NEW a \in Addr, ConnDone(a) PROVE ControllerAgrees'
  BY <1>1, <1>2, <1>7, WriteFacts DEF ConnDone, radio
<1>8. ASSUME NEW a \in Addr, KeyMissing(a) PROVE ControllerAgrees'
  BY <1>3, <1>8 DEF KeyMissing
<1>9. ASSUME NEW a \in Addr, NEW k \in Key, StoreKnown(a, k) PROVE ControllerAgrees'
  <2>1. PICK s \in Slot : /\ table'[s].addr = a /\ table'[s].key = k
                          /\ \A r \in Slot : r # s => table'[r].key = table[r].key
    BY <1>1, <1>9, StoreKnownFacts
  <2>2. \A r \in Slot : table'[r].addr = table[r].addr
    BY <1>1, <1>9, StoreKnownFacts
  <2>3. ctrl' = [ctrl EXCEPT ![a] = k]
    BY <1>9 DEF StoreKnown
  <2> QED BY <1>1, <2>1, <2>2, <2>3 DEF ControllerAgrees
<1>10. ASSUME NEW a \in Addr, NEW k \in Key, StoreNew(a, k) PROVE ControllerAgrees'
  <2>1. /\ table'[Index].addr = a /\ table'[Index].key = k
        /\ \A r \in Slot : r # Index => /\ table'[r].addr = table[r].addr
                                       /\ table'[r].key = table[r].key
    BY <1>1, <1>10, StoreNewFacts
  <2>2. Index \in Slot
    BY <1>1, IndexFacts
  <2>3. ctrl' = [x \in Addr |-> IF x = a THEN k
                               ELSE IF x = table[Index].addr THEN NoKey ELSE ctrl[x]]
    BY <1>10 DEF StoreNew
  <2> QED BY <1>1, <2>1, <2>2, <2>3 DEF ControllerAgrees
<1>11. CASE HandleWrite
  BY <1>1, <1>2, <1>11, WriteFacts DEF HandleWrite, radio
<1>12. CASE SaveSetting
  BY <1>1, <1>2, <1>12, WriteFacts DEF SaveSetting, radio
<1>13. CASE ClearAll
  BY <1>3, <1>13 DEF ClearAll
<1>14. CASE PowerFail \/ \E k \in 0 .. Slots : PowerFailInSave(k)
  BY <1>3, <1>14 DEF PowerFail, PowerFailInSave, Restart
<1> QED
  BY <1>4, <1>5, <1>6, <1>7, <1>8, <1>9, <1>10, <1>11, <1>12, <1>13, <1>14 DEF Next

\* What is recorded of the last connection survives every step, or is
\* forgotten.
LEMMA RecordedStep ==
  ASSUME IInv, [Next]_vars
  PROVE  LastRecorded'
<1>1. /\ GoodTable(table) /\ default \in Addr \cup {NoAddr}
      /\ LastRecorded /\ NoAddr \notin Addr
  BY DEF IInv, TypeOK, GoodImage
<1>2. ASSUME last' = NoAddr PROVE LastRecorded'
  BY <1>2 DEF LastRecorded
<1>3. ASSUME UNCHANGED <<ram, flash, saving, last>> PROVE LastRecorded'
  BY <1>1, <1>3 DEF LastRecorded, Active, Current, ram
<1>4. ASSUME NEW connected, write_action(default, connected), last' = last
      PROVE  LastRecorded'
  <2> SUFFICES ASSUME last # NoAddr
               PROVE  Active' = {last} /\ default' = last /\ saving'
    BY <1>4 DEF LastRecorded
  <2>1. Active = {last} /\ default = last
    BY <1>1 DEF LastRecorded
  <2>2. default' = default /\ saving'
    BY <1>4 DEF write_action
  <2>3. Active' = {last}
    <3>1. CASE connected = 1 /\ key_stored(default) # {}
      BY <1>1, <1>4, <2>1, <3>1, WriteFacts
    <3>2. CASE table' = table
      BY <2>1, <3>2 DEF Active
    <3> QED BY <1>1, <1>4, <3>1, <3>2, WriteFacts
  <2> QED BY <2>1, <2>2, <2>3
<1>5. ASSUME NEW a \in Addr, ConnDone(a) PROVE LastRecorded'
  <2>1. write_action(a, 1) /\ last' = IF key_stored(a) # {} THEN a ELSE NoAddr
    BY <1>5 DEF ConnDone
  <2>2. CASE key_stored(a) = {}
    BY <1>2, <2>1, <2>2
  <2>3. CASE key_stored(a) # {}
    <3>1. Active' = {a}
      BY <1>1, <2>1, <2>3, WriteFacts
    <3>2. default' = a /\ saving' /\ last' = a
      BY <2>1, <2>3 DEF write_action
    <3> QED BY <3>1, <3>2 DEF LastRecorded
  <2> QED BY <2>2, <2>3
<1>6. CASE SaveDone
  <2>1. UNCHANGED <<table, key_index, default, order, last>> /\ flash' = Current
    BY <1>6 DEF SaveDone, ram
  <2> QED BY <1>1, <2>1 DEF LastRecorded, Active, Current
<1>7. CASE PowerFail
  <2> SUFFICES ASSUME last # NoAddr PROVE LastRecorded'
    BY <1>2, <1>7 DEF PowerFail
  <2>1. flash = Current /\ Active = {last} /\ default = last
    BY <1>1, <1>7 DEF LastRecorded, PowerFail
  <2>2. /\ table' = flash.table /\ key_index' = flash.key_index
        /\ default' = flash.default /\ order' = flash.order
        /\ flash' = flash /\ last' = last
    BY <1>7 DEF PowerFail, Restart
  <2>3. UNCHANGED <<table, key_index, default, order>>
    BY <2>1, <2>2 DEF Current
  <2> QED BY <2>1, <2>2, <2>3 DEF LastRecorded, Active, Current
<1>8. CASE EnableComplete \/ Disable \/ LinkDown \/ UNCHANGED vars
  BY <1>3, <1>8 DEF EnableComplete, Disable, LinkDown, vars
<1>9. ASSUME NEW a \in Addr, LinkUp(a) \/ KeyMissing(a) PROVE LastRecorded'
  BY <1>2, <1>3, <1>9 DEF LinkUp, KeyMissing, Forget
<1>10. ASSUME NEW a \in Addr, NEW k \in Key, StoreKnown(a, k) \/ StoreNew(a, k)
       PROVE  LastRecorded'
  BY <1>2, <1>10 DEF StoreKnown, StoreNew, Forget
<1>11. CASE HandleWrite
  BY <1>4, <1>11 DEF HandleWrite
<1>12. CASE SaveSetting
  BY <1>4, <1>12 DEF SaveSetting
<1>13. CASE ClearAll \/ \E k \in 0 .. Slots : PowerFailInSave(k)
  BY <1>2, <1>13 DEF ClearAll, PowerFailInSave, Forget
<1> QED BY <1>5, <1>6, <1>7, <1>8, <1>9, <1>10, <1>11, <1>12, <1>13 DEF Next

-----------------------------------------------------------------------------
\* The invariant is inductive, and what follows from it.

\* The invariant holds for the erased settings.
LEMMA InitIInv == Init => IInv
<1> SUFFICES ASSUME Init PROVE IInv
  OBVIOUS
<1>1. /\ table = Blank.table /\ key_index = Erased /\ default = NoAddr /\ order = <<>>
      /\ flash = Blank /\ saving = FALSE /\ pending = Erased /\ up = FALSE
      /\ ctrl = [a \in Addr |-> NoKey] /\ link = NoAddr /\ last = NoAddr
  BY DEF Init
<1>2. /\ GoodImage(Blank.table, Erased, <<>>) /\ Blank.table \in [Slot -> Entry]
      /\ FlashGood
  BY <1>1, BlankGood DEF Blank, FlashGood
<1>3. TypeOK
  BY <1>1, <1>2 DEF TypeOK, Blank
<1>4. LinkNeedsUnit /\ ControllerAgrees /\ LastRecorded
  BY <1>1 DEF LinkNeedsUnit, ControllerAgrees, LastRecorded
<1> QED BY <1>1, <1>2, <1>3, <1>4 DEF IInv

\* Every step keeps it.
LEMMA NextIInv == IInv /\ [Next]_vars => IInv'
<1> SUFFICES ASSUME IInv, [Next]_vars PROVE IInv'
  OBVIOUS
<1>1. TypeOK' /\ FlashGood' /\ LinkNeedsUnit' /\ ControllerAgrees' /\ LastRecorded'
  BY TypeStep, FlashStep, LinkStep, ControllerStep, RecordedStep
<1>2. GoodImage(table, key_index, order)'
  BY ImageStep
<1> QED BY <1>1, <1>2 DEF IInv

\* The conjunction of the parts is an inductive invariant of the paired devices.
THEOREM Inductive == Spec => []IInv
  BY InitIInv, NextIInv, PTL DEF Spec

\* The table, the index, the image in flash and the controller's keys keep their
\* types: key_index in particular stays in the table, or is erased.
THEOREM TypeCorrect == Spec => []TypeOK
<1>1. IInv => TypeOK
  BY DEF IInv
<1> QED BY <1>1, Inductive, PTL

\* After any pairings, removals, saves and power failures, also in the middle of
\* a save, no device has two entries and no gap comes before an entry.
THEOREM TableStaysWellFormed == Spec => []TableWellFormed
<1>1. IInv => TableWellFormed
  BY DEF IInv, GoodImage, GoodTable, Taken, TableWellFormed, Filled
<1> QED BY <1>1, Inductive, PTL

\* The link manager never has a key that is not the one in the table.
THEOREM ControllerHasNoStaleKey == Spec => []ControllerAgrees
<1>1. IInv => ControllerAgrees
  BY DEF IInv
<1> QED BY <1>1, Inductive, PTL

\* The device recorded last is the only one that is called back, also after a
\* power failure and the second write through the message pool.
THEOREM LastConnectedIsCalledBack == Spec => []LastConnectedIsActive
<1>1. IInv => LastConnectedIsActive
  BY DEF IInv, LastRecorded, LastConnectedIsActive
<1> QED BY <1>1, Inductive, PTL

\* With the table full, app_env_store_autoconn_info gives the entry of the device
\* paired longest ago, and no other, to a new one.
THEOREM OldestIsEvicted == Spec => EvictsOldest
<1> DEFINE Oldest ==
      \A s \in Slot :
        (table[s].used # Erased /\ table'[s].addr \notin {table[s].addr, NoAddr}
           /\ Len(order) = Slots /\ up')
          => table[s].addr = Head(order)
<1>1. ASSUME IInv, [Next]_vars PROVE [Oldest]_vars
  <2> SUFFICES ASSUME NEW s \in Slot, table'[s].addr \notin {table[s].addr, NoAddr},
                      Len(order) = Slots, up'
               PROVE  table[s].addr = Head(order)
    OBVIOUS
  <2>1. /\ GoodImage(table, key_index, order) /\ GoodTable(table)
        /\ GoodIndex(table, key_index) /\ default \in Addr \cup {NoAddr}
    BY <1>1 DEF IInv, TypeOK, GoodImage
  <2>2. ASSUME NEW a \in Addr, NEW k \in Key, StoreNew(a, k)
        PROVE  table[s].addr = Head(order)
    <3>1. s = Index
      BY <2>1, <2>2, StoreNewFacts
    <3> QED BY <2>1, <3>1, WithoutFacts
  <2>3. ASSUME table' = table \/ table'[s].addr = table[s].addr PROVE FALSE
    BY <2>3
  <2>4. ASSUME NEW a \in Addr, LinkUp(a) \/ ConnDone(a) \/ KeyMissing(a) PROVE FALSE
    BY <2>1, <2>3, <2>4, WriteFacts, KeyMissingFacts DEF LinkUp, ConnDone, ram
  <2>5. ASSUME NEW a \in Addr, NEW k \in Key, StoreKnown(a, k) PROVE FALSE
    BY <2>1, <2>3, <2>5, StoreKnownFacts
  <2>6. CASE HandleWrite \/ SaveSetting
    BY <2>1, <2>3, <2>6, WriteFacts DEF HandleWrite, SaveSetting
  <2>7. CASE EnableComplete \/ Disable \/ LinkDown \/ SaveDone \/ UNCHANGED vars
    BY <2>3, <2>7 DEF EnableComplete, Disable, LinkDown, SaveDone, vars, ram
  <2>8. CASE ClearAll
    BY <2>8 DEF ClearAll, Blank, Unused
  <2>9. CASE PowerFail \/ \E k \in 0 .. Slots : PowerFailInSave(k)
    BY <2>9 DEF PowerFail, PowerFailInSave, Restart
  <2> QED
    BY <1>1, <2>2, <2>4, <2>5, <2>6, <2>7, <2>8, <2>9 DEF Next
<1> QED BY <1>1, Inductive, PTL DEF Spec, EvictsOldest
=============================================================================
