------------------------------- MODULE EnvKeys -------------------------------
(***************************************************************************)
(* The paired devices of host/port/beken_app/app_env.c: the table          *)
(* env_data.key_pair, the device to reconnect to (default_btaddr), the     *)
(* copy in flash, and the keys handed to the Bluetooth controller.  The    *)
(* build is BT_MODE_1V1: one device at a time, and one entry with          *)
(* used = 0x01, the device that is called back after power-on.             *)
(*                                                                         *)
(* The flash is the store of module EnvStorage: a save cut short by a      *)
(* power failure leaves the first pages of the image and nothing else.  A  *)
(* page ends inside an entry, so the last one there may lack its key.      *)
(* MSG_ENV_WRITE_ACTION goes through the message pool, which holds at most *)
(* one of them (EnvWriteNotDoubled in MsgPool).  Connections, pairing and  *)
(* failed authentications come from the Bluetooth host library, of which   *)
(* only the callbacks are in the repository.                               *)
(***************************************************************************)
EXTENDS Naturals, Sequences, FiniteSets

CONSTANTS Addr,       \* remote devices
          Key,        \* link keys
          Slots,      \* MAX_KEY_STORE
          NoAddr,     \* ff:ff:ff:ff:ff:ff, or no connection
          NoKey,
          TornKey     \* a key that a cut save has left erased, or half so

Erased == 255

\* key_index is a byte, and Erased is not one of its values.
ASSUME EnvKeysAssumption ==
  /\ Slots \in 1 .. Erased
  /\ NoAddr \notin Addr
  /\ NoKey \notin Key
  /\ TornKey \notin Key \cup {NoKey}

Slot == 0 .. Slots - 1

Unused == [used |-> Erased, addr |-> NoAddr, key |-> NoKey]
Stored == Key \cup {TornKey}
Entry == {Unused} \cup [used : {0, 1}, addr : Addr, key : Stored]

VARIABLES table,      \* env_data.key_pair
          key_index,  \* env_data.key_index, Erased after a memset or a lost save
          default,    \* env_data.default_btaddr
          flash,      \* the image app_flash_read_env_data would read
          saving,     \* app_flash_write_env_data is under way
          pending,    \* arg of the MSG_ENV_WRITE_ACTION in the pool, or Erased
          up,         \* the Bluetooth unit is enabled
          ctrl,       \* the keys the controller holds
          link,       \* the device with an ACL link
          order,      \* history: the devices of the table, oldest first
          last        \* history: the last device whose connection was recorded

ram == <<table, key_index, default, order>>
radio == <<up, ctrl, link>>
vars == <<ram, flash, saving, pending, radio, last>>

Filled == {s \in Slot : table[s].used # Erased}
Active == {table[s].addr : s \in {s \in Slot : table[s].used = 1}}

TypeOK ==
  /\ table \in [Slot -> Entry]
  /\ key_index \in Slot \cup {Erased}
  /\ default \in Addr \cup {NoAddr}
  /\ DOMAIN flash = {"table", "key_index", "default", "order"}
  /\ saving \in BOOLEAN
  /\ pending \in {0, 1, Erased}
  /\ up \in BOOLEAN
  /\ ctrl \in [Addr -> Stored \cup {NoKey}]
  /\ link \in Addr \cup {NoAddr}
  /\ last \in Addr \cup {NoAddr}

Blank == [table |-> [s \in Slot |-> Unused], key_index |-> Erased,
          default |-> NoAddr, order |-> <<>>]
Current == [table |-> table, key_index |-> key_index, default |-> default, order |-> order]

Init ==
  /\ table = Blank.table /\ key_index = Erased /\ default = NoAddr /\ order = <<>>
  /\ flash = Blank
  /\ saving = FALSE
  /\ pending = Erased
  /\ up = FALSE
  /\ ctrl = [a \in Addr |-> NoKey]
  /\ link = NoAddr
  /\ last = NoAddr

------------------------------------------------------------------------------
\* Mutant: only the active entries are looked at.
key_stored_active(a) == {s \in Slot : table[s].used = 1 /\ table[s].addr = a}

\* app_env_key_stored: the entries for an address, the first of which counts.
key_stored(a) == {s \in Slot : table[s].used # Erased /\ table[s].addr = a}
FirstOf(S) == CHOOSE s \in S : \A t \in S : s <= t

Unuse(t, S) == [s \in Slot |-> IF s \in S THEN [t[s] EXCEPT !.used = 0] ELSE t[s]]

\* Mutant: the loop stops at the first entry that is not active.
ActivateShort(s) ==
  LET live == {t \in Slot : \A r \in 0 .. t : table[r].used = 1}
  IN  [Unuse(table, live) EXCEPT ![s].used = 1]

\* app_env_write_action with connected = 1: used is cleared in every entry up
\* to the first erased one, then set for the device.
Activate(s) ==
  LET live == {t \in Slot : \A r \in 0 .. t : table[r].used # Erased}
  IN  [Unuse(table, live) EXCEPT ![s].used = 1]

\* app_env_write_action, BT_MODE_1V1; it ends in app_flash_write_env_data.
write_action(a, connected) ==
  /\ table' = IF connected = 1 /\ key_stored(a) # {}
              THEN Activate(FirstOf(key_stored(a)))
              ELSE table
  /\ default' = a
  /\ saving' = TRUE
  /\ UNCHANGED <<key_index, order>>

\* msg_lush_put of MSG_ENV_WRITE_ACTION: nothing if one is pending.
Post(arg) == pending' = IF pending = Erased THEN arg ELSE pending

\* The history: which device alone should be active is no longer known.
Forget == last' = NoAddr

------------------------------------------------------------------------------
\* The Bluetooth host library's events, between saves.
Event == ~saving

\* app_bt_enable_complete_wrap: the controller's own list was emptied when it
\* was initialised; the leading active entries are written to it.
EnableComplete ==
  /\ Event
  /\ ~up
  /\ up' = TRUE
  /\ LET lead == {s \in Slot : \A r \in 0 .. s : table[r].used = 1}
     IN  ctrl' = [a \in Addr |->
                    IF \E s \in lead : table[s].addr = a
                    THEN table[CHOOSE s \in lead : table[s].addr = a].key
                    ELSE NoKey]
  /\ UNCHANGED <<ram, flash, saving, pending, link, last>>

\* bt_unit_disable, on a change of work mode; pre_enter_mode_handle then
\* empties the message pool.
Disable ==
  /\ Event
  /\ up
  /\ up' = FALSE
  /\ link' = NoAddr
  /\ pending' = Erased
  /\ UNCHANGED <<ram, flash, saving, ctrl, last>>

LinkUp(a) ==
  /\ Event
  /\ up
  /\ link = NoAddr
  /\ link' = a
  /\ UNCHANGED <<ram, flash, saving, pending, up, ctrl, last>>

LinkDown ==
  /\ Event
  /\ link # NoAddr
  /\ link' = NoAddr
  /\ UNCHANGED <<ram, flash, saving, pending, up, ctrl, last>>

\* The index app_env_store_autoconn_info works with.
Index == IF key_index = Erased THEN 0 ELSE key_index

\* Mutant: the wrap is tested one entry late.
NextIndexLate == IF Index + 1 > Slots THEN 0 ELSE Index + 1

NextIndex == IF Index + 1 >= Slots THEN 0 ELSE Index + 1

\* The devices in the order s without x.
Without(s, x) ==
  LET here == {i \in 1 .. Len(s) : s[i] = x}
      at   == CHOOSE i \in here : TRUE
  IN  IF here = {} THEN s
      ELSE [j \in 1 .. Len(s) - 1 |-> IF j < at THEN s[j] ELSE s[j + 1]]

\* The history: a new device is the youngest, the one it replaces is gone.
Remember(a) == order' = Append(Without(order, table[Index].addr), a)

\* app_env_store_autoconn_info, the device is in the table: its entry is
\* rewritten in place, and the entries up to it are no longer active.
StoreKnown(a, k) ==
  /\ Event
  /\ link = a
  /\ key_stored(a) # {}
  /\ LET s == FirstOf(key_stored(a))
     IN  table' = [Unuse(table, 0 .. s) EXCEPT ![s] = [used |-> 1, addr |-> a, key |-> k]]
  /\ key_index' = Index
  /\ ctrl' = [ctrl EXCEPT ![a] = k]
  /\ Forget
  /\ UNCHANGED <<default, order, flash, saving, pending, up, link>>

\* Mutant: the controller is not told of the device that is overwritten.
StoreNewKeepsCtrl(a, k) ==
  /\ Event
  /\ link = a
  /\ key_stored(a) = {}
  /\ table' = [Unuse(table, 0 .. Index - 1) EXCEPT
                 ![Index] = [used |-> 1, addr |-> a, key |-> k]]
  /\ key_index' = NextIndex
  /\ ctrl' = [ctrl EXCEPT ![a] = k]
  /\ Remember(a)
  /\ Forget
  /\ UNCHANGED <<default, flash, saving, pending, up, link>>

\* Mutant: the index stays at the last entry.
StoreNewAtEnd(a, k) ==
  /\ Event
  /\ link = a
  /\ key_stored(a) = {}
  /\ table' = [Unuse(table, 0 .. Index - 1) EXCEPT
                 ![Index] = [used |-> 1, addr |-> a, key |-> k]]
  /\ key_index' = IF Index + 1 >= Slots THEN Index ELSE Index + 1
  /\ ctrl' = [x \in Addr |-> IF x = a THEN k
                             ELSE IF x = table[Index].addr THEN NoKey ELSE ctrl[x]]
  /\ Remember(a)
  /\ Forget
  /\ UNCHANGED <<default, flash, saving, pending, up, link>>

\* app_env_store_autoconn_info, a new device: the entry at key_index is taken,
\* and the controller is told to delete the key of the device that had it.
StoreNew(a, k) ==
  /\ Event
  /\ link = a
  /\ key_stored(a) = {}
  /\ table' = [Unuse(table, 0 .. Index - 1) EXCEPT
                 ![Index] = [used |-> 1, addr |-> a, key |-> k]]
  /\ key_index' = NextIndex
  /\ ctrl' = [x \in Addr |-> IF x = a THEN k
                             ELSE IF x = table[Index].addr THEN NoKey ELSE ctrl[x]]
  /\ Remember(a)
  /\ Forget
  /\ UNCHANGED <<default, flash, saving, pending, up, link>>

\* The profiles are connected (app_bt.c 2943-2984, 3061-3068): the device is
\* recorded at once, and once more through the message pool.
ConnDone(a) ==
  /\ Event
  /\ link = a
  /\ write_action(a, 1)
  /\ Post(1)
  /\ last' = IF key_stored(a) # {} THEN a ELSE NoAddr
  /\ UNCHANGED <<flash, radio>>

\* app_bt_pinkey_missing: the device no longer has our key.
KeyMissing(a) ==
  /\ Event
  /\ link = a
  /\ ctrl' = [x \in Addr |-> NoKey]
  /\ table' = IF key_stored(a) = {} THEN table
              ELSE Unuse(table, {FirstOf(key_stored(a))})
  /\ default' = a
  /\ Post(0)
  /\ Forget
  /\ UNCHANGED <<key_index, order, flash, saving, up, link>>

\* common_msg_handler, MSG_ENV_WRITE_ACTION: the argument is the one the
\* message was posted with, the device is the one that is the default now.
HandleWrite ==
  /\ Event
  /\ pending # Erased
  /\ pending' = Erased
  /\ write_action(default, pending)
  /\ UNCHANGED <<flash, radio, last>>

\* A prompt language or a volume is changed: app_env_write_action(default, 0).
SaveSetting ==
  /\ Event
  /\ write_action(default, 0)
  /\ UNCHANGED <<flash, pending, radio, last>>

\* The key that forgets every device: app_env_clear_all_key_info.
ClearAll ==
  /\ Event
  /\ table' = Blank.table
  /\ key_index' = Erased
  /\ default' = NoAddr
  /\ order' = <<>>
  /\ saving' = TRUE
  /\ ctrl' = [x \in Addr |-> NoKey]
  /\ Forget
  /\ UNCHANGED <<flash, pending, up, link>>

------------------------------------------------------------------------------
SaveDone ==
  /\ saving
  /\ saving' = FALSE
  /\ flash' = Current
  /\ UNCHANGED <<ram, pending, radio, last>>

\* Whether a unit of 8 bytes, counted from 1, is in the first p pages of an image.
\* A page is 4 units; an entry of the table is 3, with used and addr in the first;
\* key_index and default share the unit after the table.
Reached(p, units) == units <= 4 * p

\* What is in flash when the power fails in a save that has given up the image
\* last saved: the first p pages of the new one.
Cut(p) ==
  LET tail == Reached(p, 3 * Slots + 1)
  IN  [table |-> [s \in Slot |->
                    IF Reached(p, 3 * s + 3) THEN table[s]
                    ELSE IF Reached(p, 3 * s + 1) /\ table[s].used # Erased
                    THEN [table[s] EXCEPT !.key = TornKey]
                    ELSE Unused],
       key_index |-> IF tail THEN key_index ELSE Erased,
       default   |-> IF tail THEN default ELSE NoAddr,
       order     |-> IF tail THEN order ELSE <<>>]

Restart(image) ==
  /\ flash' = image
  /\ table' = image.table
  /\ key_index' = image.key_index
  /\ default' = image.default
  /\ order' = image.order
  /\ saving' = FALSE
  /\ pending' = Erased
  /\ up' = FALSE
  /\ ctrl' = [a \in Addr |-> NoKey]
  /\ link' = NoAddr

PowerFail ==
  /\ ~saving
  /\ Restart(flash)
  /\ UNCHANGED last

PowerFailInSave(p) ==
  /\ saving
  /\ Restart(flash) \/ Restart(Cut(p))
  /\ Forget

Next ==
  \/ EnableComplete
  \/ Disable
  \/ \E a \in Addr : LinkUp(a) \/ ConnDone(a) \/ KeyMissing(a)
  \/ LinkDown
  \/ \E a \in Addr, k \in Key : StoreKnown(a, k) \/ StoreNew(a, k)
  \/ HandleWrite
  \/ SaveSetting
  \/ ClearAll
  \/ SaveDone
  \/ PowerFail
  \/ \E p \in 0 .. Slots : PowerFailInSave(p)

Spec == Init /\ [][Next]_vars

------------------------------------------------------------------------------
\* A device has at most one entry, and the entries in use come first: the
\* searches (app_env.c 674-687) and the loop that ends at the first erased
\* entry (app_env.c 807) rely on it, also after a save that was cut short.
TableWellFormed ==
  /\ \A s, t \in Filled : table[s].addr = table[t].addr => s = t
  /\ \A s \in Filled : \A t \in 0 .. s : t \in Filled

\* With the table full, a new device takes the place of the one paired longest
\* ago (app_env.c 1003-1030).  A table read back from a save that was cut short
\* before its end has no known order.
EvictsOldest ==
  [][\A s \in Slot :
        (table[s].used # Erased /\ table'[s].addr \notin {table[s].addr, NoAddr}
           /\ Len(order) = Slots /\ up')
          => table[s].addr = Head(order)]_vars

\* The controller never holds a key for a device other than the one in the
\* table: the link manager looks there first and would use a stale one
\* (app_bt.c 1612-1673, app_env.c 1017-1044).
ControllerAgrees ==
  \A a \in Addr : ctrl[a] # NoKey =>
    \E s \in Slot : table[s].addr = a /\ table[s].key = ctrl[a]

\* After a recorded connection that device alone is active, across saves,
\* restarts, settings, and the second write through the message pool, until
\* another pairing or connection (app_env.c 777-820).
LastConnectedIsActive == last # NoAddr => Active = {last}
==============================================================================
