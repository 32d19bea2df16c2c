------------------------------- MODULE MsgFifo -------------------------------
(***************************************************************************)
(* What the message pool of host/port/beken_no_os/msg.c promises to the    *)
(* code that posts to it and to the mode loops that read it: a bounded     *)
(* first-in first-out queue that accepts a message while it has room,      *)
(* refuses it (MSG_FAILURE_RET) when it is full, and is emptied on a       *)
(* change of work mode.  MsgPool is shown to implement this module.        *)
(***************************************************************************)
EXTENDS Naturals, Sequences

CONSTANTS Msg,        \* the messages that can be posted
          Capacity,   \* MSG_COUNT, the number of slots
          NoMsg       \* what msg_get leaves the reader with when it fails

VARIABLES queue,      \* the messages waiting, oldest first
          got         \* the message the last msg_get returned

vars == <<queue, got>>

TypeOK ==
  /\ queue \in Seq(Msg)
  /\ Len(queue) <= Capacity
  /\ got \in Msg \cup {NoMsg}

Init ==
  /\ queue = <<>>
  /\ got = NoMsg

Accept(m) ==
  /\ Len(queue) < Capacity
  /\ queue' = Append(queue, m)
  /\ UNCHANGED got

Deliver ==
  /\ queue # <<>>
  /\ got' = Head(queue)
  /\ queue' = Tail(queue)

Nothing ==
  /\ queue = <<>>
  /\ got' = NoMsg
  /\ UNCHANGED queue

Clear ==
  /\ queue' = <<>>
  /\ UNCHANGED got

Next ==
  \/ \E m \in Msg : Accept(m)
  \/ Deliver
  \/ Nothing
  \/ Clear

Spec == Init /\ [][Next]_vars
==============================================================================
