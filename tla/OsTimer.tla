------------------------------- MODULE OsTimer -------------------------------
(***************************************************************************)
(* The software timers of host/port/beken_no_os/timer.c (jtask_schedule,   *)
(* jtask_stop and jtask_uninit are macros for them): a singly linked list  *)
(* sorted by expiry, rooted in timers_head.  The main loop inserts and     *)
(* unlinks nodes with interrupts enabled; the 10 ms tick interrupt pops    *)
(* the expired ones and posts their callbacks to the message pool, which   *)
(* the main loop drains (common_msg_handler runs the callback).            *)
(*                                                                         *)
(* The walks are modelled at the granularity of the compiled code in       *)
(* Debug/BK3268.dmp (os_timer_stop, os_timer_reset): each turn of the loop *)
(* loads *iter once into a register, and the value stored in node->next or *)
(* *iter at the end is that register, not memory.  The tick handler is not *)
(* preempted by anything that touches timers.                              *)
(*                                                                         *)
(* Only the differences ticks - tick_counter matter to the code (both are  *)
(* uint64), so rel holds the difference and a tick decrements it.          *)
(***************************************************************************)
EXTENDS Integers, Sequences, FiniteSets

CONSTANTS Timer,      \* the os_timer_t nodes
          Delay,      \* the timeouts callers ask for, in ticks
          Step,       \* what one tick interrupt may add to tick_counter
          Retry,      \* added to the expiry of a timer the full pool refused
          Cap,        \* MSG_COUNT
          Others,     \* bound: messages other code posts in a behaviour
          Preempt,    \* may a tick arrive inside a list operation?
          Null, Other

MaxOf(S) == CHOOSE x \in S : \A y \in S : y <= x

\* The nodes are in RAM, and delays and steps are words: there are only so many
\* nodes, and there is a longest delay and a longest step.
ASSUME OsTimerAssumption ==
  /\ IsFiniteSet(Timer) /\ Null \notin Timer /\ Other \notin Timer
  /\ Delay \subseteq Nat \ {0} /\ \E d \in Delay : \A e \in Delay : e <= d
  /\ Step \subseteq Nat \ {0} /\ \E s \in Step : \A r \in Step : r <= s
  /\ Retry \in Nat \ {0}
  /\ Cap \in Nat \ {0}
  /\ Others \in Nat
  /\ Preempt \in BOOLEAN

VARIABLES head,       \* timers_head
          next,       \* node->next
          pend,       \* node->is_pending
          rel,        \* node->ticks - tick_counter
          alive,      \* the nodes between os_timer_init and os_timer_uninit
          main,       \* the main loop's list operation: its registers
          swi,        \* the tick interrupt is in timer_pwm1_pt2_swi
          queue,      \* the message pool: timers whose callback is posted, Other
          others,     \* how many Other messages may still be posted
          want        \* history: ticks until the caller wants t to run, or Off

vars == <<head, next, pend, rel, alive, main, swi, queue, others, want>>
list == <<head, next, pend, rel>>

Off == -1
Floor == -MaxOf(Step)
Horizon == MaxOf(Delay) + Retry

\* Where iter points: to timers_head (Null stands for it) or to a node's next.
Place == Timer \cup {Null}

Idle == [op |-> "none", pc |-> "idle", node |-> Null, delay |-> 0,
         iter |-> Null, cur |-> Null]

TypeOK ==
  /\ head \in Place
  /\ next \in [Timer -> Place]
  /\ pend \in [Timer -> BOOLEAN]
  /\ rel \in [Timer -> Floor .. Horizon]
  /\ alive \subseteq Timer
  /\ main \in [op : {"none", "stop", "reset", "uninit"},
               pc : {"idle", "find", "cut", "arm", "place", "link", "free"},
               node : Place, delay : Delay \cup {0}, iter : Place, cur : Place]
  /\ swi \in BOOLEAN
  /\ queue \in Seq(Timer \cup {Other}) /\ Len(queue) <= Cap
  /\ others \in 0 .. Others
  /\ want \in [Timer -> Off .. MaxOf(Delay)]

Init ==
  /\ head = Null
  /\ next = [t \in Timer |-> Null]
  /\ pend = [t \in Timer |-> FALSE]
  /\ rel = [t \in Timer |-> 0]
  /\ alive = {}
  /\ main = Idle
  /\ swi = FALSE
  /\ queue = <<>>
  /\ others = Others
  /\ want = [t \in Timer |-> Off]

------------------------------------------------------------------------------
\* The nodes met by following the list from a first one, Null once it ends.
Walk(first, link) ==
  LET at[k \in 0 .. Cardinality(Timer)] ==
        IF k = 0 THEN first
        ELSE IF at[k - 1] = Null THEN Null ELSE link[at[k - 1]]
  IN  at

Listed == LET at == Walk(head, next) IN {at[k] : k \in DOMAIN at} \ {Null}

\* *iter = v
Write(iter, v) ==
  IF iter = Null
  THEN head' = v /\ UNCHANGED next
  ELSE next' = [next EXCEPT ![iter] = v] /\ UNCHANGED head

Up(x) == IF x < Floor THEN Floor ELSE x

------------------------------------------------------------------------------
\* The tick interrupt.

\* timer_pwm1_pt2_isr: tick_counter grows by one, and by the frames slept when
\* the chip wakes from sniff mode (sniff_tick_counter); then the handler enters
\* timer_pwm1_pt2_swi.
Tick(s) ==
  /\ ~swi
  /\ Preempt \/ main.pc = "idle"
  /\ rel' = [t \in Timer |-> Up(rel[t] - s)]
  /\ want' = [t \in Timer |-> IF want[t] > s THEN want[t] - s
                              ELSE IF want[t] > 0 THEN 0 ELSE want[t]]
  /\ swi' = TRUE
  /\ UNCHANGED <<head, next, pend, alive, main, queue, others>>

\* Mutant: a timer is taken one tick early.
ExpiredEarly == head # Null /\ rel[head] <= 1

Expired == head # Null /\ rel[head] <= 0

\* Mutant: the message is stored without looking for room.
SwiPostUnchecked ==
  /\ swi
  /\ Expired
  /\ head' = next[head]
  /\ pend' = [pend EXCEPT ![head] = FALSE]
  /\ queue' = Append(queue, head)
  /\ UNCHANGED <<next, rel, alive, main, swi, others, want>>

\* One turn of the while loop: the head is popped and its callback posted.
SwiPost ==
  /\ swi
  /\ Expired
  /\ Len(queue) < Cap
  /\ head' = next[head]
  /\ pend' = [pend EXCEPT ![head] = FALSE]
  /\ queue' = Append(queue, head)
  /\ UNCHANGED <<next, rel, alive, main, swi, others, want>>

\* Mutant: a timer the pool refused is not put back.
SwiRetryDrops ==
  /\ swi
  /\ Expired
  /\ Len(queue) = Cap
  /\ head' = next[head]
  /\ pend' = [pend EXCEPT ![head] = FALSE]
  /\ UNCHANGED <<next, rel, alive, main, swi, queue, others, want>>

\* Mutant: the refused timer goes back to the front with its old expiry.
SwiRetryAtOnce ==
  /\ swi
  /\ Expired
  /\ Len(queue) = Cap
  /\ pend' = [pend EXCEPT ![head] = TRUE]
  /\ UNCHANGED <<head, next, rel, alive, main, swi, queue, others, want>>

\* One turn of the while loop with the pool full: the timer goes back into the
\* list, to expire Retry ticks later.  On a circular list the inner walk may
\* not end; the handler then hangs, and no step is taken.
SwiRetry ==
  /\ swi
  /\ Expired
  /\ Len(queue) = Cap
  /\ LET late == [rel EXCEPT ![head] = @ + Retry]
         at == Walk(next[head], next)
         stops == {k \in DOMAIN at : at[k] = Null \/ late[at[k]] >= late[head]}
         k0 == CHOOSE k \in stops : \A j \in stops : k <= j
     IN  /\ stops # {}
         /\ rel' = late
         /\ pend' = [pend EXCEPT ![head] = TRUE]
         /\ IF k0 = 0
            THEN /\ next' = [next EXCEPT ![head] = at[0]]
                 /\ UNCHANGED head
            ELSE /\ next' = [next EXCEPT ![head] = at[k0], ![at[k0 - 1]] = head]
                 /\ head' = next[head]
  /\ UNCHANGED <<alive, main, swi, queue, others, want>>

SwiDone ==
  /\ swi
  /\ ~Expired
  /\ swi' = FALSE
  /\ UNCHANGED <<list, alive, main, queue, others, want>>

------------------------------------------------------------------------------
\* The main loop.  Its steps happen when no tick is being handled.

MainAt(pc) == ~swi /\ main.pc = pc

\* os_timer_init: a zeroed node, in no list.
os_timer_init(t) ==
  /\ MainAt("idle")
  /\ t \notin alive
  /\ alive' = alive \cup {t}
  /\ next' = [next EXCEPT ![t] = Null]
  /\ pend' = [pend EXCEPT ![t] = FALSE]
  /\ rel' = [rel EXCEPT ![t] = 0]
  /\ UNCHANGED <<head, main, swi, queue, others, want>>

\* What remains of an operation once os_timer_stop has returned.
AfterStop(op) == CASE op = "stop" -> "idle" [] op = "reset" -> "arm" [] op = "uninit" -> "free"

Resume(op) == IF op = "stop" THEN Idle
              ELSE [main EXCEPT !.pc = AfterStop(op), !.iter = Null, !.cur = Null]

\* Mutant: os_timer_reset does not take a pending node off the list first.
BeginKeepsNode(op, t, d) ==
  /\ MainAt("idle")
  /\ t \in alive
  /\ want' = [want EXCEPT ![t] = Off]
  /\ IF pend[t] /\ op # "reset"
     THEN /\ pend' = [pend EXCEPT ![t] = FALSE]
          /\ main' = [op |-> op, pc |-> "find", node |-> t, delay |-> d,
                      iter |-> Null, cur |-> head]
     ELSE /\ main' = IF op = "stop" THEN Idle
                     ELSE [op |-> op, pc |-> AfterStop(op), node |-> t,
                           delay |-> d, iter |-> Null, cur |-> Null]
          /\ UNCHANGED pend
  /\ UNCHANGED <<head, next, rel, alive, swi, queue, others>>

\* Entry of os_timer_stop, os_timer_reset and os_timer_uninit.  If the node is
\* pending its flag is cleared and the search for it begins at timers_head.
Begin(op, t, d) ==
  /\ MainAt("idle")
  /\ t \in alive
  /\ want' = [want EXCEPT ![t] = Off]
  /\ IF pend[t]
     THEN /\ pend' = [pend EXCEPT ![t] = FALSE]
          /\ main' = [op |-> op, pc |-> "find", node |-> t, delay |-> d,
                      iter |-> Null, cur |-> head]
     ELSE /\ main' = IF op = "stop" THEN Idle
                     ELSE [op |-> op, pc |-> AfterStop(op), node |-> t,
                           delay |-> d, iter |-> Null, cur |-> Null]
          /\ UNCHANGED pend
  /\ UNCHANGED <<head, next, rel, alive, swi, queue, others>>

os_timer_stop(t) == Begin("stop", t, 0)
os_timer_uninit(t) == Begin("uninit", t, 0)
os_timer_reset(t, d) == Begin("reset", t, d)

\* while (*iter && *iter != node) iter = &(*iter)->next;
Find ==
  /\ MainAt("find")
  /\ main' = CASE main.cur = Null -> Resume(main.op)
               [] main.cur = main.node ->
                    [main EXCEPT !.pc = "cut", !.cur = next[main.node]]
               [] OTHER ->
                    [main EXCEPT !.iter = main.cur, !.cur = next[main.cur]]
  /\ UNCHANGED <<list, alive, swi, queue, others, want>>

\* Mutant: the list is cut off at the node.
CutRest ==
  /\ MainAt("cut")
  /\ Write(main.iter, Null)
  /\ main' = Resume(main.op)
  /\ UNCHANGED <<pend, rel, alive, swi, queue, others, want>>

\* *iter = (*iter)->next
Cut ==
  /\ MainAt("cut")
  /\ Write(main.iter, main.cur)
  /\ main' = Resume(main.op)
  /\ UNCHANGED <<pend, rel, alive, swi, queue, others, want>>

\* The node is marked pending with its expiry, f and arg; the walk begins.
Arm ==
  /\ MainAt("arm")
  /\ pend' = [pend EXCEPT ![main.node] = TRUE]
  /\ rel' = [rel EXCEPT ![main.node] = main.delay]
  /\ want' = [want EXCEPT ![main.node] = main.delay]
  /\ main' = [main EXCEPT !.pc = "place", !.iter = Null, !.cur = head]
  /\ UNCHANGED <<head, next, alive, swi, queue, others>>

\* while (*iter && (*iter)->ticks < node->ticks) iter = &(*iter)->next;
\* then node->next is set to the register the loop ended with.
PlaceNode ==
  /\ MainAt("place")
  /\ IF main.cur = Null \/ rel[main.cur] >= rel[main.node]
     THEN /\ next' = [next EXCEPT ![main.node] = main.cur]
          /\ main' = [main EXCEPT !.pc = "link"]
     ELSE /\ main' = [main EXCEPT !.iter = main.cur, !.cur = next[main.cur]]
          /\ UNCHANGED next
  /\ UNCHANGED <<head, pend, rel, alive, swi, queue, others, want>>

\* *iter = node
Link ==
  /\ MainAt("link")
  /\ Write(main.iter, main.node)
  /\ main' = Idle
  /\ UNCHANGED <<pend, rel, alive, swi, queue, others, want>>

\* jfree(timer_h)
Free ==
  /\ MainAt("free")
  /\ alive' = alive \ {main.node}
  /\ main' = Idle
  /\ UNCHANGED <<list, swi, queue, others, want>>

\* msg_get and common_msg_handler: the callback of a timer runs, and may go on
\* to use any timer; another message is handled.
Dispatch ==
  /\ MainAt("idle")
  /\ queue # <<>>
  /\ queue' = Tail(queue)
  /\ want' = [t \in Timer |-> IF t = Head(queue) /\ want[t] = 0 /\ ~pend[t]
                              THEN Off ELSE want[t]]
  /\ UNCHANGED <<list, alive, main, swi, others>>

\* pre_enter_mode_handle: a change of work mode discards every message, the
\* callbacks of expired timers included.
msg_clear_all ==
  /\ MainAt("idle")
  /\ queue' = <<>>
  /\ want' = [t \in Timer |-> IF want[t] = 0 /\ ~pend[t] THEN Off ELSE want[t]]
  /\ UNCHANGED <<list, alive, main, swi, others>>

\* Key, card, USB and application messages share the pool.
PostOther ==
  /\ main.pc = "idle"
  /\ others > 0
  /\ Len(queue) < Cap
  /\ queue' = Append(queue, Other)
  /\ others' = others - 1
  /\ UNCHANGED <<list, alive, main, swi, want>>

------------------------------------------------------------------------------
Interrupt == (\E s \in Step : Tick(s)) \/ SwiPost \/ SwiRetry \/ SwiDone

ListOperation == Find \/ Cut \/ Arm \/ PlaceNode \/ Link \/ Free

Call ==
  \E t \in Timer :
    \/ os_timer_init(t)
    \/ os_timer_stop(t)
    \/ os_timer_uninit(t)
    \/ \E d \in Delay : os_timer_reset(t, d)

Next == Interrupt \/ Call \/ ListOperation \/ Dispatch \/ msg_clear_all \/ PostOther

Spec == Init /\ [][Next]_vars

\* The hardware raises the tick for ever; a handler and a list operation that
\* are under way go on; every turn of every mode loop begins with msg_get, so
\* a waiting message is not passed over for ever.
Fairness ==
  /\ SF_vars(\E s \in Step : Tick(s))
  /\ WF_vars(SwiPost \/ SwiRetry \/ SwiDone)
  /\ WF_vars(ListOperation)
  /\ SF_vars(Dispatch)

FairSpec == Spec /\ Fairness

------------------------------------------------------------------------------
Quiet == main.pc = "idle"

\* The list is what its operations assume: it ends, it is sorted by expiry, and
\* no freed node is on it (timer.c 85-151).
ListWellFormed ==
  Quiet => /\ Walk(head, next)[Cardinality(Timer)] = Null
           /\ \A t \in Listed : next[t] # Null => rel[t] <= rel[next[t]]
           /\ Listed \subseteq alive

\* "Check if timer is waiting to run" (timer.c 153): is_pending says exactly
\* whether the timer is on the list, hence whether it will ever expire.
PendingIffListed == Quiet => \A t \in Timer : pend[t] <=> t \in Listed

\* The tick handler posts a callback only for a timer whose owner asked for it
\* and whose full timeout has passed since: never early, never twice for one
\* request, never after os_timer_stop or os_timer_uninit (timer.c 384-410).
PostedOnlyWhenDue ==
  [][\A t \in Timer : (SwiPost /\ head = t) => want[t] = 0]_vars

\* A timer whose timeout has passed does not wait for ever: its callback runs,
\* or it is stopped, armed again or discarded by a mode change, unless the pool
\* keeps filling up (each refusal puts the timer off by Retry, and nothing
\* bounds the number of refusals).  So no operation and no refusal loses a node.
DueRuns == \A t \in Timer : want[t] = 0 ~> want[t] # 0 \/ Len(queue) = Cap

\* The tick handler comes to an end, with the pool full or not.
TickEnds == swi ~> ~swi
==============================================================================
