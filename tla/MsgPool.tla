------------------------------- MODULE MsgPool -------------------------------
(***************************************************************************)
(* The message pool of host/port/beken_no_os/msg.c: a ring of MSG_COUNT    *)
(* slots with two free-running uint32 indices and a status word.  It is    *)
(* the only channel from the interrupt handlers (timer tick, SD-card       *)
(* scan, USB, button ADC) to the main loop, and the main loop also posts   *)
(* to itself through it.                                                   *)
(*                                                                         *)
(* msg_lush_put has two halves: msg_check looks for a pending              *)
(* MSG_ENV_WRITE_ACTION with interrupts enabled, then the slot is written  *)
(* with every interrupt masked.  An interrupt may run between the halves,  *)
(* so they are two actions here; everything done under the mask is one.    *)
(* Context 0 is the main loop; a context above it preempts the ones below  *)
(* it and runs to its end before they resume.                              *)
(***************************************************************************)
EXTENDS Naturals, Sequences, FiniteSets

CONSTANTS Msg,        \* the messages that can be posted
          EnvWrite,   \* those with id MSG_ENV_WRITE_ACTION (they differ in arg)
          Count,      \* MSG_COUNT
          Laps,       \* the indices wrap after this many turns of the ring
          Nest,       \* how deep interrupt contexts nest above the main loop
          NoMsg

ASSUME MsgPoolAssumption ==
  /\ Count \in Nat \ {0}
  /\ Laps \in Nat /\ Laps >= 2
  /\ Nest \in Nat
  /\ EnvWrite \subseteq Msg
  /\ NoMsg \notin Msg

\* uint32 arithmetic: 2^32 is a multiple of MSG_COUNT, and so is this.
IdMod == Count * Laps
Slot == 0 .. Count - 1
Id == 0 .. IdMod - 1
Context == 0 .. Nest
Main == 0

VARIABLES pool,       \* msg_entity.pool
          in_id,      \* msg_entity.in_id
          out_id,     \* msg_entity.out_id
          status,     \* msg_entity.status
          ready,      \* Main.c has passed msg_init(); msg_clear_all()
          putting,    \* per context, the message past msg_check and not stored
          got         \* the message the last msg_get left with its caller

vars == <<pool, in_id, out_id, status, ready, putting, got>>

Status == {"INIT", "FULL", "ADSUM", "EMPTY"}

TypeOK ==
  /\ pool \in [Slot -> Msg \cup {NoMsg}]
  /\ in_id \in Id
  /\ out_id \in Id
  /\ status \in Status
  /\ ready \in BOOLEAN
  /\ putting \in [Context -> Msg \cup {NoMsg}]
  /\ got \in Msg \cup {NoMsg}

------------------------------------------------------------------------------
\* Mutant: the index is not reduced to its width.
WideNextId(id) == id + 1

\* id & (MSG_COUNT - 1), and id += 1 on a uint32
SlotOf(id) == id % Count
NextId(id) == (id + 1) % IdMod

\* The number of messages between out_id and in_id.
Distance(from, to) == IF from <= to THEN to - from ELSE to + IdMod - from
Used == Distance(out_id, in_id)

\* The messages waiting, oldest first.
Waiting == [i \in 1 .. Used |-> pool[SlotOf(out_id + i - 1)]]

\* Mutant: the scan stops one message short.
ShortScan == \E i \in Id : out_id <= i /\ i + 1 < in_id /\ pool[SlotOf(i)] \in EnvWrite

\* msg_check counts up from out_id while i < in_id: once in_id has wrapped and
\* out_id has not, its loop body never runs.  Nothing leaves the pool while a
\* scan is under way and a message that arrives during it is scanned too, so
\* the whole scan is one step.
msg_check == \E i \in Id : out_id <= i /\ i < in_id /\ pool[SlotOf(i)] \in EnvWrite

\* The context that has the processor: no context above c has work in hand.
Running(c) == \A d \in Context : d > c => putting[d] = NoMsg

\* Interrupt handlers post timer, card, USB and key messages; every post of
\* MSG_ENV_WRITE_ACTION is made by code the main loop runs.
MayPost(c, m) == c = Main \/ m \notin EnvWrite

------------------------------------------------------------------------------
\* msg_init: the indices are zero but the status is INIT, which msg_get does
\* not treat as empty; Main.c calls msg_clear_all next.
Init ==
  /\ pool = [s \in Slot |-> NoMsg]
  /\ in_id = 0
  /\ out_id = 0
  /\ status = "INIT"
  /\ ready = FALSE
  /\ putting = [c \in Context |-> NoMsg]
  /\ got = NoMsg

\* msg_lush_put up to the disabling of interrupts.  A second
\* MSG_ENV_WRITE_ACTION returns here, as a success, and changes nothing.
BeginPut(c, m) ==
  /\ Running(c)
  /\ putting[c] = NoMsg
  /\ c = Main => ready
  /\ MayPost(c, m)
  /\ ~(msg_check /\ m \in EnvWrite)
  /\ putting' = [putting EXCEPT ![c] = m]
  /\ UNCHANGED <<pool, in_id, out_id, status, ready, got>>

\* The masked half of msg_lush_put, pool full: MSG_FAILURE_RET.
Refuse(c) ==
  /\ Running(c)
  /\ putting[c] # NoMsg
  /\ status = "FULL"
  /\ putting' = [putting EXCEPT ![c] = NoMsg]
  /\ UNCHANGED <<pool, in_id, out_id, status, ready, got>>

\* Mutant: the status is computed before in_id moves.
StoreEarlyStatus(c) ==
  /\ Running(c)
  /\ putting[c] # NoMsg
  /\ status # "FULL"
  /\ pool' = [pool EXCEPT ![SlotOf(in_id)] = putting[c]]
  /\ in_id' = NextId(in_id)
  /\ status' = IF SlotOf(in_id) = SlotOf(out_id) THEN "FULL" ELSE "ADSUM"
  /\ putting' = [putting EXCEPT ![c] = NoMsg]
  /\ UNCHANGED <<out_id, ready, got>>

\* The masked half of msg_lush_put, pool not full.
Store(c) ==
  /\ Running(c)
  /\ putting[c] # NoMsg
  /\ status # "FULL"
  /\ pool' = [pool EXCEPT ![SlotOf(in_id)] = putting[c]]
  /\ in_id' = NextId(in_id)
  /\ status' = IF SlotOf(NextId(in_id)) = SlotOf(out_id) THEN "FULL" ELSE "ADSUM"
  /\ putting' = [putting EXCEPT ![c] = NoMsg]
  /\ UNCHANGED <<out_id, ready, got>>

MainIdle == Running(Main) /\ putting[Main] = NoMsg

\* msg_get on an empty pool: MSG_FAILURE_RET, the loops read it as MSG_NULL.
GetNothing ==
  /\ MainIdle
  /\ ready
  /\ status = "EMPTY"
  /\ got' = NoMsg
  /\ UNCHANGED <<pool, in_id, out_id, status, ready, putting>>

Get ==
  /\ MainIdle
  /\ ready
  /\ status # "EMPTY"
  /\ got' = pool[SlotOf(out_id)]
  /\ out_id' = NextId(out_id)
  /\ status' = IF SlotOf(in_id) = SlotOf(NextId(out_id)) THEN "EMPTY" ELSE "ADSUM"
  /\ UNCHANGED <<pool, in_id, ready, putting>>

\* Mutant: only one of the indices is reset.
ClearInOnly ==
  /\ MainIdle
  /\ in_id' = 0
  /\ status' = "EMPTY"
  /\ ready' = TRUE
  /\ UNCHANGED <<pool, out_id, putting, got>>

\* msg_clear_all: first from Main.c at power-on, then from
\* pre_enter_mode_handle at every change of work mode.
msg_clear_all ==
  /\ MainIdle
  /\ in_id' = 0
  /\ out_id' = 0
  /\ status' = "EMPTY"
  /\ ready' = TRUE
  /\ UNCHANGED <<pool, putting, got>>

Next ==
  \/ \E c \in Context, m \in Msg : BeginPut(c, m)
  \/ \E c \in Context : Refuse(c)
  \/ \E c \in Context : Store(c)
  \/ GetNothing
  \/ Get
  \/ msg_clear_all

Spec == Init /\ [][Next]_vars

------------------------------------------------------------------------------
\* The status word tells a full pool from an empty one although both have
\* equal masked indices (msg.c 132-139 and 230-237): it says FULL exactly when
\* all slots are taken, EMPTY or INIT exactly when none is, and no index
\* sequence, including one that wraps the uint32 indices, gets it wrong.
StatusAgrees ==
  /\ Used <= Count
  /\ status = "FULL" <=> Used = Count
  /\ status \in {"INIT", "EMPTY"} <=> Used = 0
  /\ status = "INIT" => ~ready

\* Every slot between out_id and in_id holds a posted message: msg_get
\* (msg.c 209-242) never returns the contents of a slot nobody filled.
WaitingArePosted == \A i \in 1 .. Used : Waiting[i] \in Msg

EnvWritesWaiting == Cardinality({i \in 1 .. Used : Waiting[i] \in EnvWrite})

\* "If MSG_ENV_WRITE_ACTION is already in, skip put" (msg.c 105): no step adds
\* a flash-write request to a pool that holds one, although interrupts post
\* between the check and the store.  The exception is a window that straddles
\* the uint32 wrap: msg_check then sees nothing (msg.c 18).
EnvWriteNotDoubled ==
  [][EnvWritesWaiting' > EnvWritesWaiting
       => EnvWritesWaiting = 0 \/ in_id < out_id]_vars

\* The pool is the bounded FIFO the rest of the program takes it for: nothing
\* accepted is lost, duplicated, reordered or altered, whatever is posted from
\* interrupts between any two steps, until msg_clear_all.
Fifo == INSTANCE MsgFifo WITH Capacity <- Count, queue <- Waiting
IsFifo == Fifo!Spec
==============================================================================
