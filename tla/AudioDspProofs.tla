---------------------------- MODULE AudioDspProofs ----------------------------
(***************************************************************************)
(* Theorems about AudioDsp for every number of timeouts that expire before *)
(* the DSP answers.                                                        *)
(***************************************************************************)
EXTENDS AudioDsp, TLAPS

USE AudioDspAssumption DEF AudioDspAssumption

-----------------------------------------------------------------------------
\* The inductive invariant.

Operating == {"spin", "arm", "wait", "clear_rsp", "stop", "check", "clear_tmo", "send"}

\* An operation is about one command, and knows that its wait has ended; the
\* byte that is held while it is changed has no answer the byte itself has not.
Phases ==
  /\ pc \in Operating => cur \in Command /\ asked[cur.unit] = cur.set
  /\ loaded => pc \in Update
  /\ loaded /\ reg.rsp => flags.rsp
  /\ pc = "clear_rsp" => flags.rsp

\* The only command the DSP has not taken is the one the main loop spins for;
\* every other setting asked for has been given.
OneUntaken ==
  \A u \in Unit :
    /\ box[u] \in Command => pc = "spin" /\ box[u] = cur /\ cur.unit = u
    /\ told[u] # asked[u] => box[u] \in Command

\* What the main loop is going to wait for has come, or is to come.
AnswerDue ==
  /\ pc = "spin" => box[cur.unit] = cur \/ flags.rsp \/ answers # <<>>
  /\ pc \in {"arm", "wait"} => flags.rsp \/ answers # <<>>

\* The ends of a wait that are on their way: a command to be taken, answers to
\* be given, and the bit; the timeout whose callback is about to set the bit;
\* and the wait they are for.
Untaken   == IF pc = "spin" /\ box[cur.unit] = cur THEN 1 ELSE 0
Signalled == IF flags.rsp THEN 1 ELSE 0
TimingOut == IF pc = "set_rsp" THEN 1 ELSE 0
Waiting   == IF pc \in {"spin", "arm", "wait", "clear_rsp"} THEN 1 ELSE 0

\* There are no more ends than waits, and one for each timeout whose callback
\* has set the bit.
Counted ==
  Untaken + Len(answers) + Signalled + posted + TimingOut <= late + Waiting

\* No more callbacks wait than timeouts have expired.  Without a timeout, nothing
\* but an answer ends a wait, and nothing comes between the load and the store of
\* the byte.
Timeouts ==
  /\ posted <= late
  /\ late = 0 =>
       /\ pc \notin {"set_rsp", "set_tmo", "clear_tmo", "send"}
       /\ ~flags.tmo
       /\ loaded => reg = flags

IInv ==
  /\ TypeOK
  /\ Phases
  /\ OneUntaken
  /\ AnswerDue
  /\ Counted
  /\ Timeouts

-----------------------------------------------------------------------------
\* The operations on the flags.

\* What the four stores leave in the byte, and where they lead.
LEMMA StoreFacts ==
  ASSUME Store, reg \in Flags
  PROVE  /\ flags' \in Flags
         /\ flags'.dac = reg.dac /\ flags'.adc = reg.adc
         /\ \/ pc = "clear_rsp" /\ pc' = "stop" /\ ~flags'.rsp /\ flags'.tmo = reg.tmo
            \/ pc = "clear_tmo" /\ pc' = "send" /\ ~flags'.tmo /\ flags'.rsp = reg.rsp
            \/ pc = "set_rsp" /\ pc' = "set_tmo" /\ flags'.rsp /\ flags'.tmo = reg.tmo
            \/ pc = "set_tmo" /\ pc' = "idle" /\ flags'.tmo /\ flags'.rsp = reg.rsp
<1>1. /\ flags' = [reg EXCEPT ![After(pc).bit] = After(pc).val]
      /\ pc' = After(pc).next
      /\ pc \in Update
  BY DEF Store
<1>2. CASE pc = "clear_rsp"
  <2> After(pc).bit = "rsp" /\ After(pc).val = FALSE /\ After(pc).next = "stop"
    BY <1>2 DEF After
  <2>1. flags' = [reg EXCEPT !["rsp"] = FALSE] /\ pc' = "stop"
    BY <1>1, Zenon
  <2>2. /\ flags' \in Flags /\ flags'.rsp = FALSE /\ flags'.tmo = reg.tmo
        /\ flags'.dac = reg.dac /\ flags'.adc = reg.adc
    BY <2>1 DEF Flags
  <2> QED BY <2>1, <2>2, <1>2
<1>3. CASE pc = "clear_tmo"
  <2> After(pc).bit = "tmo" /\ After(pc).val = FALSE /\ After(pc).next = "send"
    BY <1>3 DEF After
  <2>1. flags' = [reg EXCEPT !["tmo"] = FALSE] /\ pc' = "send"
    BY <1>1, Zenon
  <2>2. /\ flags' \in Flags /\ flags'.tmo = FALSE /\ flags'.rsp = reg.rsp
        /\ flags'.dac = reg.dac /\ flags'.adc = reg.adc
    BY <2>1 DEF Flags
  <2> QED BY <2>1, <2>2, <1>3
<1>4. CASE pc = "set_rsp"
  <2> After(pc).bit = "rsp" /\ After(pc).val = TRUE /\ After(pc).next = "set_tmo"
    BY <1>4 DEF After
  <2>1. flags' = [reg EXCEPT !["rsp"] = TRUE] /\ pc' = "set_tmo"
    BY <1>1, Zenon
  <2>2. /\ flags' \in Flags /\ flags'.rsp = TRUE /\ flags'.tmo = reg.tmo
        /\ flags'.dac = reg.dac /\ flags'.adc = reg.adc
    BY <2>1 DEF Flags
  <2> QED BY <2>1, <2>2, <1>4
<1>5. CASE pc = "set_tmo"
  <2> After(pc).bit = "tmo" /\ After(pc).val = TRUE /\ After(pc).next = "idle"
    BY <1>5 DEF After
  <2>1. flags' = [reg EXCEPT !["tmo"] = TRUE] /\ pc' = "idle"
    BY <1>1, Zenon
  <2>2. /\ flags' \in Flags /\ flags'.tmo = TRUE /\ flags'.rsp = reg.rsp
        /\ flags'.dac = reg.dac /\ flags'.adc = reg.adc
    BY <2>1 DEF Flags
  <2> QED BY <2>1, <2>2, <1>5
<1> QED BY <1>1, <1>2, <1>3, <1>4, <1>5 DEF Update

\* What an answer leaves in the byte and in the queue.
LEMMA AnswerFacts ==
  ASSUME Answer, flags \in Flags, answers \in Seq(Unit)
  PROVE  /\ flags' \in Flags /\ flags'.rsp /\ flags'.tmo = flags.tmo
         /\ (flags.dac => flags'.dac) /\ flags'.adc
         /\ answers' \in Seq(Unit) /\ Len(answers') \in Nat
         /\ Len(answers) = Len(answers') + 1
<1>1. flags' = [flags EXCEPT !.rsp = TRUE,
                             !.dac = flags.dac \/ Head(answers) = "dac",
                             !.adc = TRUE]
  BY DEF Answer
<1>2. (flags.dac \/ Head(answers) = "dac") \in BOOLEAN
  OBVIOUS
<1>3. /\ flags' \in Flags /\ flags'.rsp /\ flags'.tmo = flags.tmo /\ flags'.adc
      /\ flags'.dac = (flags.dac \/ Head(answers) = "dac")
  BY <1>1, <1>2 DEF Flags
<1>4. flags.dac => flags'.dac
  BY <1>3
<1>5. answers # <<>> /\ answers' = Tail(answers)
  BY DEF Answer
<1> QED BY <1>3, <1>4, <1>5

-----------------------------------------------------------------------------
\* Types.

\* The byte, and the value of it the main loop holds.
BytesOK == flags \in Flags /\ reg \in Flags

\* The mailboxes and the settings.
BoxesOK ==
  /\ box \in [Unit -> Command \cup {IdleCommand, None}]
  /\ answers \in Seq(Unit)
  /\ asked \in [Unit -> Setting]
  /\ told \in [Unit -> Setting]

\* The main loop and its timer.
ControlOK ==
  /\ pc \in {"idle", "spin", "arm", "wait", "clear_rsp", "stop", "check",
             "clear_tmo", "send", "set_rsp", "set_tmo"}
  /\ cur \in Command \cup {None}
  /\ {loaded, idle, armed} \subseteq BOOLEAN
  /\ late \in 0 .. MaxLate /\ posted \in 0 .. late

\* What the invariant says of the types.
LEMMA TypeParts ==
  IInv => BytesOK /\ BoxesOK /\ ControlOK /\ Len(answers) \in Nat
BY DEF IInv, TypeOK, Timeouts, BytesOK, BoxesOK, ControlOK

\* Only a store and an answer write the byte.
LEMMA BytesStep ==
  ASSUME IInv, [Next]_vars
  PROVE  BytesOK'
<1>1. BytesOK /\ answers \in Seq(Unit)
  BY TypeParts DEF BoxesOK
<1>2. ASSUME UNCHANGED <<flags, reg>> PROVE BytesOK'
  BY <1>1, <1>2 DEF BytesOK
<1>3. CASE (\E c \in Command : Request(c)) \/ CloseInIdle
  BY <1>2, <1>3 DEF Request, CloseInIdle
<1>4. CASE Spin \/ Arm \/ Wait \/ Stop \/ Check \/ SendAgain
  BY <1>2, <1>4 DEF Spin, Arm, Wait, Stop, Check, SendAgain
<1>5. CASE Load
  BY <1>1, <1>5 DEF BytesOK, Load
<1>6. CASE Store
  <2>1. reg' = NoFlags
    BY <1>6 DEF Store
  <2>2. NoFlags \in Flags
    BY DEF NoFlags, Flags
  <2> QED BY <2>1, <2>2, <1>1, <1>6, StoreFacts DEF BytesOK
<1>7. CASE Answer
  BY <1>1, <1>7, AnswerFacts DEF BytesOK, Answer, main
<1>8. CASE Dispatch \/ msg_clear_all \/ Expire \/ (\E u \in Unit : Take(u))
  BY <1>2, <1>8 DEF Dispatch, msg_clear_all, Expire, Take, main
<1>9. CASE UNCHANGED vars
  BY <1>2, <1>9 DEF vars, main
<1> QED BY <1>3, <1>4, <1>5, <1>6, <1>7, <1>8, <1>9 DEF Next, MainStep

\* A command is written by the main loop, and taken and answered by the DSP.
LEMMA SendTypes ==
  ASSUME BoxesOK, NEW c \in Command, Send(c), UNCHANGED <<answers, told>>
  PROVE  BoxesOK'
<1>1. c.unit \in Unit /\ c.set \in Setting
  BY DEF Command
<1>2. box' = [box EXCEPT ![c.unit] = c] /\ asked' = [asked EXCEPT ![c.unit] = c.set]
  BY DEF Send
<1> QED BY <1>1, <1>2 DEF BoxesOK

\* What may be in a mailbox.
LEMMA BoxesStep ==
  ASSUME IInv, [Next]_vars
  PROVE  BoxesOK'
<1>1. BoxesOK
  BY TypeParts
<1>2. ASSUME UNCHANGED <<box, answers, asked, told>> PROVE BoxesOK'
  BY <1>1, <1>2 DEF BoxesOK
<1>3. ASSUME NEW c \in Command, Request(c) PROVE BoxesOK'
  BY <1>1, <1>3, SendTypes DEF Request
<1>4. CASE CloseInIdle
  <2>1. box' = box \/ box' = [box EXCEPT !["dac"] = IdleCommand]
    BY <1>4 DEF CloseInIdle
  <2>2. UNCHANGED <<answers, asked, told>>
    BY <1>4 DEF CloseInIdle
  <2> QED BY <2>1, <2>2, <1>1 DEF BoxesOK
<1>5. CASE SendAgain
  <2>1. cur \in Command
    BY <1>5 DEF IInv, Phases, Operating, SendAgain
  <2> QED BY <2>1, <1>1, <1>5, SendTypes DEF SendAgain
<1>6. CASE Spin \/ Arm \/ Wait \/ Stop \/ Check \/ Load \/ Store
  BY <1>2, <1>6 DEF Spin, Arm, Wait, Stop, Check, Load, Store, dsp
<1>7. CASE Answer
  BY <1>1, <1>7 DEF BoxesOK, Answer
<1>8. CASE Dispatch \/ msg_clear_all \/ Expire
  BY <1>2, <1>8 DEF Dispatch, msg_clear_all, Expire, dsp
<1>9. ASSUME NEW u \in Unit, Take(u) PROVE BoxesOK'
  <2>1. box' \in [Unit -> Command \cup {IdleCommand, None}] /\ asked' = asked
    BY <1>1, <1>9 DEF BoxesOK, Take
  <2>2. CASE box[u] = IdleCommand
    BY <2>1, <2>2, <1>1, <1>9 DEF BoxesOK, Take
  <2>3. CASE box[u] # IdleCommand
    <3>1. box[u] \in Command
      BY <2>3, <1>1, <1>9 DEF BoxesOK, Take
    <3>2. box[u].set \in Setting
      BY <3>1 DEF Command
    <3>3. answers' = Append(answers, u) /\ told' = [told EXCEPT ![u] = box[u].set]
      BY <2>3, <1>9 DEF Take
    <3> QED BY <2>1, <3>2, <3>3, <1>1 DEF BoxesOK
  <2> QED BY <2>2, <2>3
<1>10. CASE UNCHANGED vars
  BY <1>2, <1>10 DEF vars, dsp
<1> QED BY <1>3, <1>4, <1>5, <1>6, <1>7, <1>8, <1>9, <1>10 DEF Next, MainStep

\* The phases follow one another, and no more callbacks wait than have expired.
LEMMA ControlStep ==
  ASSUME IInv, [Next]_vars
  PROVE  ControlOK'
<1> ControlOK
  BY TypeParts
<1>1. ASSUME NEW c \in Command, Request(c) PROVE ControlOK'
  BY <1>1 DEF ControlOK, Request, Send, timer
<1>2. CASE CloseInIdle
  BY <1>2 DEF ControlOK, CloseInIdle, timer
<1>3. CASE Spin \/ Arm \/ Wait \/ Stop
  BY <1>3 DEF ControlOK, Spin, Arm, Wait, Stop, timer
<1>4. CASE Check
  BY <1>4 DEF ControlOK, Check, timer
<1>5. CASE SendAgain
  BY <1>5 DEF ControlOK, SendAgain, Send, timer
<1>6. CASE Load
  BY <1>6 DEF ControlOK, Load, timer
<1>7. CASE Store
  BY <1>7, StoreFacts, TypeParts DEF ControlOK, BytesOK, Store, timer
<1>8. CASE Dispatch \/ msg_clear_all
  BY <1>8 DEF ControlOK, Dispatch, msg_clear_all, main
<1>9. CASE Expire
  <2>1. late' \in 0 .. MaxLate /\ posted' \in 0 .. late'
    <3>1. late < MaxLate /\ late' = late + 1 /\ posted' = posted + 1
      BY <1>9 DEF Expire
    <3> QED BY <3>1 DEF ControlOK
  <2>2. armed' = FALSE /\ UNCHANGED main
    BY <1>9 DEF Expire
  <2> QED BY <2>1, <2>2 DEF ControlOK, main
<1>10. CASE Answer \/ (\E u \in Unit : Take(u))
  BY <1>10 DEF ControlOK, Answer, Take, main, timer
<1>11. CASE UNCHANGED vars
  BY <1>11 DEF ControlOK, vars, main, timer
<1> QED BY <1>1, <1>2, <1>3, <1>4, <1>5, <1>6, <1>7, <1>8, <1>9, <1>10, <1>11
        DEF Next, MainStep

-----------------------------------------------------------------------------
\* The parts of the invariant.

\* A command is sent in full, with the setting remembered as asked.
LEMMA SendFacts ==
  ASSUME BoxesOK, NEW c \in Command, Send(c)
  PROVE  /\ c.unit \in Unit /\ c.set \in Setting
         /\ pc' = "spin" /\ cur' = c
         /\ box'[c.unit] = c /\ asked'[c.unit] = c.set
         /\ \A u \in Unit : u # c.unit => box'[u] = box[u] /\ asked'[u] = asked[u]
<1>1. c.unit \in Unit /\ c.set \in Setting
  BY DEF Command
<1> QED BY <1>1 DEF BoxesOK, Send

\* An operation stays about the command it was begun with.
LEMMA PhasesStep ==
  ASSUME IInv, [Next]_vars
  PROVE  Phases'
<1>1. Phases /\ BytesOK /\ BoxesOK
  BY TypeParts DEF IInv
<1>2. ASSUME UNCHANGED <<flags, reg, loaded, pc, cur, asked>> PROVE Phases'
  BY <1>1, <1>2 DEF Phases
<1>3. ASSUME NEW c \in Command, Send(c), pc \notin Update,
             UNCHANGED <<flags, reg, loaded>>
      PROVE  Phases'
  <2>1. pc' = "spin" /\ cur' = c /\ asked'[c.unit] = c.set
    BY <1>1, <1>3, SendFacts
  <2>2. ~loaded
    BY <1>1, <1>3 DEF Phases
  <2> QED BY <2>1, <2>2, <1>3 DEF Phases, Operating
<1>4. CASE \E c \in Command : Request(c)
  BY <1>3, <1>4 DEF Request, Update
<1>5. CASE SendAgain
  <2>1. cur \in Command
    BY <1>1, <1>5 DEF Phases, Operating, SendAgain
  <2> QED BY <2>1, <1>3, <1>5 DEF SendAgain, Update
<1>6. CASE CloseInIdle \/ msg_clear_all \/ Expire \/ (\E u \in Unit : Take(u))
  BY <1>2, <1>6 DEF CloseInIdle, msg_clear_all, Expire, Take, main
<1>7. CASE Spin \/ Arm \/ Wait \/ Stop
  <2>1. /\ pc \in {"spin", "arm", "wait", "stop"}
        /\ pc' \in {"arm", "wait", "clear_rsp", "check"}
        /\ UNCHANGED <<flags, reg, loaded, cur, asked>>
        /\ pc' = "clear_rsp" => flags.rsp
    BY <1>7 DEF Spin, Arm, Wait, Stop
  <2> QED BY <2>1, <1>1 DEF Phases, Operating, Update
<1>8. CASE Check
  <2>1. /\ pc = "check" /\ UNCHANGED <<flags, reg, loaded, asked>>
        /\ \/ pc' = "clear_tmo" /\ cur' = cur
           \/ pc' = "idle"
    BY <1>8 DEF Check
  <2> QED BY <2>1, <1>1 DEF Phases, Operating, Update
<1>9. CASE Load
  BY <1>1, <1>9 DEF Phases, Load
<1>10. CASE Store
  <2>1. /\ ~loaded' /\ UNCHANGED <<cur, asked>>
        /\ \/ pc \in {"clear_rsp", "clear_tmo"} /\ pc' \in {"stop", "send"}
           \/ pc' \in {"set_tmo", "idle"}
    BY <1>1, <1>10, StoreFacts DEF BytesOK, Store
  <2> QED BY <2>1, <1>1 DEF Phases, Operating
<1>11. CASE Dispatch
  <2>1. pc = "idle" /\ pc' = "set_rsp" /\ UNCHANGED <<flags, reg, loaded>>
    BY <1>11 DEF Dispatch
  <2> QED BY <2>1, <1>1 DEF Phases, Operating, Update
<1>12. CASE Answer
  <2>1. flags'.rsp /\ UNCHANGED <<reg, loaded, pc, cur, asked>>
    BY <1>1, <1>12, AnswerFacts DEF BytesOK, BoxesOK, Answer, main
  <2> QED BY <2>1, <1>1 DEF Phases
<1>13. CASE UNCHANGED vars
  BY <1>2, <1>13 DEF vars, main
<1> QED BY <1>4, <1>5, <1>6, <1>7, <1>8, <1>9, <1>10, <1>11, <1>12, <1>13
        DEF Next, MainStep

\* A mailbox is written only when every command before it was taken.
LEMMA OneUntakenStep ==
  ASSUME IInv, [Next]_vars
  PROVE  OneUntaken'
<1>1. OneUntaken /\ BytesOK /\ BoxesOK /\ Phases
  BY TypeParts DEF IInv
<1>2. ASSUME UNCHANGED <<pc, cur, box, asked, told>> PROVE OneUntaken'
  BY <1>1, <1>2 DEF OneUntaken
<1>3. ASSUME pc # "spin" PROVE \A u \in Unit : box[u] \notin Command /\ told[u] = asked[u]
  BY <1>1, <1>3 DEF OneUntaken
<1>4. ASSUME pc # "spin", UNCHANGED <<box, asked, told>> PROVE OneUntaken'
  BY <1>3, <1>4 DEF OneUntaken
<1>5. ASSUME NEW c \in Command, Send(c), pc # "spin", UNCHANGED told
      PROVE  OneUntaken'
  <2>1. /\ pc' = "spin" /\ cur' = c /\ box'[c.unit] = c
        /\ \A u \in Unit : u # c.unit => box'[u] = box[u] /\ asked'[u] = asked[u]
    BY <1>1, <1>5, SendFacts
  <2>2. \A u \in Unit : box[u] \notin Command /\ told[u] = asked[u]
    BY <1>3, <1>5
  <2> QED BY <2>1, <2>2, <1>5 DEF OneUntaken
<1>6. CASE \E c \in Command : Request(c)
  BY <1>5, <1>6 DEF Request
<1>7. CASE SendAgain
  <2>1. cur \in Command
    BY <1>1, <1>7 DEF Phases, Operating, SendAgain
  <2> QED BY <2>1, <1>5, <1>7 DEF SendAgain
<1>8. CASE CloseInIdle
  <2>1. /\ pc = "idle" /\ UNCHANGED <<asked, told>>
        /\ box' = box \/ box' = [box EXCEPT !["dac"] = IdleCommand]
    BY <1>8 DEF CloseInIdle
  <2>2. IdleCommand \notin Command
    BY DEF IdleCommand, Command, Setting
  <2>3. \A u \in Unit : box'[u] \notin Command /\ told'[u] = asked'[u]
    BY <2>1, <2>2, <1>1, <1>3 DEF BoxesOK
  <2> QED BY <2>3 DEF OneUntaken
<1>9. CASE Spin
  <2>1. pc = "spin" /\ box[cur.unit] = None /\ UNCHANGED <<box, asked, told>>
    BY <1>9 DEF Spin, dsp
  <2>2. None \notin Command
    BY DEF None, Command, Unit
  <2>3. \A u \in Unit : box[u] \notin Command
    BY <2>1, <2>2, <1>1 DEF OneUntaken
  <2> QED BY <2>1, <2>3, <1>1 DEF OneUntaken
<1>10. CASE Arm \/ Wait \/ Stop \/ Check \/ Load \/ Store
  BY <1>4, <1>10 DEF Arm, Wait, Stop, Check, Load, Store, dsp, Update
<1>11. CASE Dispatch \/ msg_clear_all
  BY <1>4, <1>11 DEF Dispatch, msg_clear_all, dsp
<1>12. CASE Expire
  BY <1>2, <1>12 DEF Expire, main, dsp
<1>13. CASE Answer
  BY <1>2, <1>13 DEF Answer, main
<1>14. ASSUME NEW u \in Unit, Take(u) PROVE OneUntaken'
  <2>1. /\ box'[u] = None /\ UNCHANGED <<pc, cur, asked>>
        /\ \A v \in Unit : v # u => box'[v] = box[v]
    BY <1>1, <1>14 DEF BoxesOK, Take, main
  <2>2. None \notin Command /\ IdleCommand \notin Command
    BY DEF None, IdleCommand, Command, Unit, Setting
  <2>3. CASE box[u] = IdleCommand
    <3>1. told' = told
      BY <2>3, <1>14 DEF Take
    <3> QED BY <2>1, <2>2, <2>3, <3>1, <1>1 DEF OneUntaken
  <2>4. CASE box[u] # IdleCommand
    <3>1. box[u] \in Command
      BY <2>4, <1>1, <1>14 DEF BoxesOK, Take
    <3>2. box[u] = cur /\ cur.unit = u /\ pc = "spin"
      BY <3>1, <1>1 DEF OneUntaken
    <3>3. asked[u] = cur.set
      BY <3>2, <1>1 DEF Phases, Operating
    <3>4. told'[u] = cur.set /\ \A v \in Unit : v # u => told'[v] = told[v]
      BY <2>4, <3>2, <1>1, <1>14 DEF BoxesOK, Take
    <3> QED BY <2>1, <2>2, <3>2, <3>3, <3>4, <1>1 DEF OneUntaken
  <2> QED BY <2>3, <2>4
<1>15. CASE UNCHANGED vars
  BY <1>2, <1>15 DEF vars, main, dsp
<1> QED BY <1>6, <1>7, <1>8, <1>9, <1>10, <1>11, <1>12, <1>13, <1>14, <1>15
        DEF Next, MainStep

\* A command, taken or not, leads to an answer, and an answer to the bit.
LEMMA AnswerDueStep ==
  ASSUME IInv, [Next]_vars
  PROVE  AnswerDue'
<1>1. AnswerDue /\ OneUntaken /\ BytesOK /\ BoxesOK /\ Phases
  BY TypeParts DEF IInv
<1>2. ASSUME UNCHANGED <<pc, cur, box, flags, answers>> PROVE AnswerDue'
  BY <1>1, <1>2 DEF AnswerDue
<1>3. ASSUME pc' \notin {"spin", "arm", "wait"} PROVE AnswerDue'
  BY <1>3 DEF AnswerDue
<1>4. ASSUME NEW c \in Command, Send(c) PROVE AnswerDue'
  <2>1. pc' = "spin" /\ cur' = c /\ box'[c.unit] = c
    BY <1>1, <1>4, SendFacts
  <2> QED BY <2>1 DEF AnswerDue
<1>5. CASE \E c \in Command : Request(c)
  BY <1>4, <1>5 DEF Request
<1>6. CASE SendAgain
  <2>1. cur \in Command
    BY <1>1, <1>6 DEF Phases, Operating, SendAgain
  <2> QED BY <2>1, <1>4, <1>6 DEF SendAgain
<1>7. CASE Spin
  <2>1. /\ pc = "spin" /\ box[cur.unit] = None /\ pc' = "arm"
        /\ UNCHANGED <<flags, answers>>
    BY <1>7 DEF Spin, dsp
  <2>2. cur # None
    BY <2>1, <1>1 DEF Phases, Operating, None, Command, Unit
  <2> QED BY <2>1, <2>2, <1>1 DEF AnswerDue
<1>8. CASE Arm
  BY <1>1, <1>8 DEF AnswerDue, Arm, dsp
<1>9. CASE Wait \/ Stop \/ Check \/ Load \/ CloseInIdle
  BY <1>3, <1>9 DEF Wait, Stop, Check, Load, CloseInIdle, Update
<1>10. CASE Store
  BY <1>1, <1>3, <1>10, StoreFacts DEF BytesOK
<1>11. CASE Dispatch \/ msg_clear_all
  BY <1>3, <1>11 DEF Dispatch, msg_clear_all, main
<1>12. CASE Expire
  BY <1>2, <1>12 DEF Expire, main, dsp
<1>13. CASE Answer
  <2>1. flags'.rsp
    BY <1>1, <1>13, AnswerFacts DEF BytesOK, BoxesOK
  <2> QED BY <2>1 DEF AnswerDue
<1>14. ASSUME NEW u \in Unit, Take(u) PROVE AnswerDue'
  <2>1. /\ UNCHANGED <<pc, cur, flags>>
        /\ \A v \in Unit : v # u => box'[v] = box[v]
    BY <1>1, <1>14 DEF BoxesOK, Take, main
  <2>2. answers # <<>> => answers' # <<>>
    BY <1>1, <1>14 DEF BoxesOK, Take
  <2>3. CASE pc = "spin" /\ cur.unit = u /\ box[u] = cur
    <3>1. cur \in Command
      BY <2>3, <1>1 DEF Phases, Operating
    <3>2. box[u] # IdleCommand
      BY <2>3, <3>1 DEF IdleCommand, Command, Setting
    <3>3. answers' = Append(answers, u)
      BY <3>2, <1>14 DEF Take
    <3>4. answers' # <<>>
      BY <3>3, <1>1 DEF BoxesOK
    <3> QED BY <3>4 DEF AnswerDue
  <2>4. CASE pc = "spin" /\ cur.unit # u
    <3>1. cur.unit \in Unit
      BY <2>4, <1>1 DEF Phases, Operating, Command
    <3> QED BY <2>1, <2>2, <2>4, <3>1, <1>1 DEF AnswerDue
  <2>5. CASE pc # "spin" \/ (cur.unit = u /\ box[u] # cur)
    BY <2>1, <2>2, <2>5, <1>1 DEF AnswerDue
  <2> QED BY <2>3, <2>4, <2>5
<1>15. CASE UNCHANGED vars
  BY <1>2, <1>15 DEF vars, main, dsp
<1> QED BY <1>5, <1>6, <1>7, <1>8, <1>9, <1>10, <1>11, <1>12, <1>13, <1>14, <1>15
        DEF Next, MainStep

\* What each step adds to one side it adds to the other, or it takes an end away.
LEMMA CountedStep ==
  ASSUME IInv, [Next]_vars
  PROVE  Counted'
<1>1. Counted /\ OneUntaken /\ BytesOK /\ BoxesOK /\ Phases /\ Len(answers) \in Nat
  BY TypeParts DEF IInv
<1>2. late \in Nat /\ posted \in Nat /\ late' \in Nat /\ posted' \in Nat
  BY TypeParts, ControlStep DEF ControlOK
<1>3. /\ Untaken \in {0, 1} /\ Signalled \in {0, 1}
      /\ TimingOut \in {0, 1} /\ Waiting \in {0, 1}
      /\ Untaken' \in {0, 1} /\ Signalled' \in {0, 1}
      /\ TimingOut' \in {0, 1} /\ Waiting' \in {0, 1}
  BY DEF Untaken, Signalled, TimingOut, Waiting
<1>4. ASSUME UNCHANGED <<pc, cur, box, flags, answers, posted, late>> PROVE Counted'
  BY <1>1, <1>4 DEF Counted, Untaken, Signalled, TimingOut, Waiting
<1>5. ASSUME NEW c \in Command, Send(c), pc \in {"idle", "send"},
             UNCHANGED <<flags, answers, posted, late>>
      PROVE  Counted'
  <2>1. Untaken = 0 /\ TimingOut = 0 /\ Waiting = 0
    BY <1>5 DEF Untaken, TimingOut, Waiting
  <2>2. TimingOut' = 0 /\ Waiting' = 1
    BY <1>5 DEF Send, TimingOut, Waiting
  <2>3. Signalled' = Signalled
    BY <1>5 DEF Signalled
  <2> QED BY <2>1, <2>2, <2>3, <1>1, <1>2, <1>3, <1>5 DEF Counted
<1>6. CASE \E c \in Command : Request(c)
  BY <1>5, <1>6 DEF Request, timer
<1>7. CASE SendAgain
  <2>1. cur \in Command
    BY <1>1, <1>7 DEF Phases, Operating, SendAgain
  <2> QED BY <2>1, <1>5, <1>7 DEF SendAgain, timer
<1>8. ASSUME pc # "spin", pc' # "spin", pc # "set_rsp", pc' # "set_rsp",
             Waiting' = Waiting, UNCHANGED <<flags, answers, posted, late>>
      PROVE  Counted'
  <2>1. Untaken = 0 /\ TimingOut = 0 /\ Untaken' = 0 /\ TimingOut' = 0
    BY <1>8 DEF Untaken, TimingOut
  <2>2. Signalled' = Signalled
    BY <1>8 DEF Signalled
  <2> QED BY <2>1, <2>2, <1>1, <1>2, <1>3, <1>8 DEF Counted
<1>9. CASE CloseInIdle \/ Arm \/ Wait \/ Stop \/ Check
  <2>1. /\ UNCHANGED <<flags, answers, posted, late>>
        /\ \/ pc \in {"arm", "wait"} /\ pc' \in {"wait", "clear_rsp"}
           \/ pc \in {"idle", "stop", "check"} /\ pc' \in {"idle", "check", "clear_tmo"}
    BY <1>9 DEF CloseInIdle, Arm, Wait, Stop, Check, dsp, timer
  <2>2. Waiting' = Waiting
    BY <2>1 DEF Waiting
  <2> QED BY <2>1, <2>2, <1>8
<1>10. CASE Spin
  <2>1. /\ pc = "spin" /\ pc' = "arm"
        /\ UNCHANGED <<flags, answers, posted, late>>
    BY <1>10 DEF Spin, dsp, timer
  <2>2. Untaken' = 0 /\ TimingOut' = 0 /\ Waiting' = 1 /\ Waiting = 1
    BY <2>1 DEF Untaken, TimingOut, Waiting
  <2>3. Signalled' = Signalled
    BY <2>1 DEF Signalled
  <2> QED BY <2>1, <2>2, <2>3, <1>1, <1>2, <1>3 DEF Counted
<1>11. CASE Load
  BY <1>4, <1>11 DEF Load, dsp, timer
<1>12. CASE Store
  <2>1. UNCHANGED <<cur, box, answers, posted, late>> /\ loaded
    BY <1>12 DEF Store, dsp, timer
  <2>2. CASE pc = "clear_rsp"
    <3>1. pc' = "stop" /\ ~flags'.rsp /\ flags.rsp
      BY <2>2, <1>1, <1>12, StoreFacts DEF BytesOK, Phases
    <3>2. Signalled = 1 /\ Signalled' = 0
      BY <3>1 DEF Signalled
    <3>3. Untaken' = 0 /\ TimingOut' = 0 /\ Waiting' = 0 /\ Waiting = 1
      BY <2>2, <3>1 DEF Untaken, TimingOut, Waiting
    <3> QED BY <2>1, <3>2, <3>3, <1>1, <1>2, <1>3 DEF Counted
  <2>3. CASE pc = "set_rsp"
    <3>1. pc' = "set_tmo"
      BY <2>3, <1>1, <1>12, StoreFacts DEF BytesOK
    <3>2. Untaken' = 0 /\ TimingOut' = 0 /\ TimingOut = 1 /\ Waiting' = 0 /\ Waiting = 0
      BY <2>3, <3>1 DEF Untaken, TimingOut, Waiting
    <3> QED BY <2>1, <3>2, <1>1, <1>2, <1>3 DEF Counted
  <2>4. CASE pc \in {"clear_tmo", "set_tmo"}
    <3>1. pc' \in {"send", "idle"} /\ flags'.rsp = reg.rsp
      BY <2>4, <1>1, <1>12, StoreFacts DEF BytesOK
    <3>2. Signalled' <= Signalled
      <4>1. CASE reg.rsp
        <5>1. Signalled = 1
          BY <4>1, <2>1, <1>1 DEF Phases, Signalled
        <5> QED BY <5>1, <1>3
      <4>2. CASE ~reg.rsp
        <5>1. Signalled' = 0
          BY <4>2, <3>1 DEF Signalled
        <5> QED BY <5>1, <1>3
      <4> QED BY <4>1, <4>2
    <3>3. Untaken' = 0 /\ TimingOut' = 0 /\ Waiting' = 0 /\ Waiting = 0
      BY <2>4, <3>1 DEF Untaken, TimingOut, Waiting
    <3> QED BY <2>1, <3>2, <3>3, <1>1, <1>2, <1>3 DEF Counted
  <2> QED BY <2>2, <2>3, <2>4, <1>12 DEF Store, Update
<1>13. CASE Dispatch
  <2>1. /\ pc = "idle" /\ pc' = "set_rsp" /\ posted' = posted - 1
        /\ UNCHANGED <<flags, answers, late>>
    BY <1>13 DEF Dispatch, dsp
  <2>2. Untaken' = 0 /\ TimingOut' = 1 /\ TimingOut = 0 /\ Waiting' = 0 /\ Waiting = 0
    BY <2>1 DEF Untaken, TimingOut, Waiting
  <2>3. Signalled' = Signalled
    BY <2>1 DEF Signalled
  <2> QED BY <2>1, <2>2, <2>3, <1>1, <1>2, <1>3 DEF Counted
<1>14. CASE msg_clear_all
  <2>1. UNCHANGED <<flags, pc, cur, box, answers>> /\ late' = late /\ posted' = 0
    BY <1>14 DEF msg_clear_all, main, dsp
  <2>2. /\ Untaken' = Untaken /\ Signalled' = Signalled
        /\ TimingOut' = TimingOut /\ Waiting' = Waiting
    BY <2>1 DEF Untaken, Signalled, TimingOut, Waiting
  <2> QED BY <2>1, <2>2, <1>1, <1>2, <1>3 DEF Counted
<1>15. CASE Expire
  <2>1. /\ UNCHANGED <<flags, pc, cur, box, answers>>
        /\ late' = late + 1 /\ posted' = posted + 1
    BY <1>15 DEF Expire, main, dsp
  <2>2. /\ Untaken' = Untaken /\ Signalled' = Signalled
        /\ TimingOut' = TimingOut /\ Waiting' = Waiting
    BY <2>1 DEF Untaken, Signalled, TimingOut, Waiting
  <2> QED BY <2>1, <2>2, <1>1, <1>2, <1>3 DEF Counted
<1>16. CASE Answer
  <2>1. /\ Len(answers') \in Nat /\ Len(answers) = Len(answers') + 1
        /\ UNCHANGED <<pc, cur, box, posted, late>>
    BY <1>1, <1>16, AnswerFacts DEF BytesOK, BoxesOK, Answer, main, timer
  <2>2. Untaken' = Untaken /\ TimingOut' = TimingOut /\ Waiting' = Waiting
    BY <2>1 DEF Untaken, TimingOut, Waiting
  <2> QED BY <2>1, <2>2, <1>1, <1>2, <1>3 DEF Counted
<1>17. ASSUME NEW u \in Unit, Take(u) PROVE Counted'
  <2>1. /\ box'[u] = None /\ UNCHANGED <<pc, cur, flags, posted, late>>
        /\ \A v \in Unit : v # u => box'[v] = box[v]
    BY <1>1, <1>17 DEF BoxesOK, Take, main, timer
  <2>2. TimingOut' = TimingOut /\ Waiting' = Waiting /\ Signalled' = Signalled
    BY <2>1 DEF TimingOut, Waiting, Signalled
  <2>3. CASE box[u] = IdleCommand
    <3>1. answers' = answers
      BY <2>3, <1>17 DEF Take
    <3>2. Untaken' <= Untaken
      <4>1. CASE pc = "spin" /\ cur.unit # u
        <5>1. cur.unit \in Unit
          BY <4>1, <1>1 DEF Phases, Operating, Command
        <5>2. Untaken' = Untaken
          BY <2>1, <4>1, <5>1 DEF Untaken
        <5> QED BY <5>2, <1>3
      <4>2. CASE pc = "spin" /\ cur.unit = u
        <5>1. cur # None
          BY <4>2, <1>1 DEF Phases, Operating, None, Command, Unit
        <5>2. Untaken' = 0
          BY <2>1, <4>2, <5>1 DEF Untaken
        <5> QED BY <5>2, <1>3
      <4>3. CASE pc # "spin"
        <5>1. Untaken' = 0
          BY <2>1, <4>3 DEF Untaken
        <5> QED BY <5>1, <1>3
      <4> QED BY <4>1, <4>2, <4>3
    <3> QED BY <2>1, <2>2, <3>1, <3>2, <1>1, <1>2, <1>3 DEF Counted
  <2>4. CASE box[u] # IdleCommand
    <3>1. box[u] \in Command
      BY <2>4, <1>1, <1>17 DEF BoxesOK, Take
    <3>2. box[u] = cur /\ cur.unit = u /\ pc = "spin"
      BY <3>1, <1>1 DEF OneUntaken
    <3>3. Untaken = 1 /\ Untaken' = 0
      <4>1. cur # None
        BY <3>1, <3>2 DEF None, Command, Unit
      <4> QED BY <2>1, <3>2, <4>1 DEF Untaken
    <3>4. Len(answers') = Len(answers) + 1
      <4>1. answers' = Append(answers, u)
        BY <2>4, <1>17 DEF Take
      <4> QED BY <4>1, <1>1 DEF BoxesOK
    <3> QED BY <2>1, <2>2, <3>3, <3>4, <1>1, <1>2, <1>3 DEF Counted
  <2> QED BY <2>3, <2>4
<1>18. CASE UNCHANGED vars
  BY <1>4, <1>18 DEF vars, main, dsp, timer
<1> QED BY <1>6, <1>7, <1>9, <1>10, <1>11, <1>12, <1>13, <1>14, <1>15, <1>16, <1>17,
           <1>18
        DEF Next, MainStep

\* Before the first timeout, no answer can come while the byte is being changed:
\* the one there was is what the wait before the change has ended with.
LEMMA NoneWhileLoaded ==
  ASSUME IInv, late = 0, loaded
  PROVE  pc = "clear_rsp" /\ answers = <<>>
<1>1. pc = "clear_rsp" /\ flags.rsp
  BY DEF IInv, Phases, Timeouts, Update
<1>2. Signalled = 1 /\ Untaken = 0 /\ TimingOut = 0 /\ Waiting = 1
  BY <1>1 DEF Signalled, Untaken, TimingOut, Waiting
<1>3. posted \in Nat /\ Len(answers) \in Nat /\ answers \in Seq(Unit)
  BY TypeParts DEF ControlOK, BoxesOK
<1>4. Len(answers) = 0
  BY <1>2, <1>3 DEF IInv, Counted
<1> QED BY <1>1, <1>3, <1>4

\* Before the first timeout only answers end a wait.
LEMMA TimeoutsStep ==
  ASSUME IInv, [Next]_vars
  PROVE  Timeouts'
<1>1. posted' <= late' /\ late \in Nat /\ late' \in Nat /\ posted \in Nat
  BY TypeParts, ControlStep DEF ControlOK
<1>2. BytesOK /\ BoxesOK /\ Phases /\ Timeouts
  BY TypeParts DEF IInv
<1> DEFINE Quiet == /\ pc' \notin {"set_rsp", "set_tmo", "clear_tmo", "send"}
                    /\ ~flags'.tmo
                    /\ loaded' => reg' = flags'
<1> SUFFICES ASSUME late' = 0 PROVE Quiet
  BY <1>1 DEF Timeouts
<1>3. CASE late' = late + 1
  BY <1>1, <1>3
<1>4. ASSUME late' = late
      PROVE  /\ pc \notin {"set_rsp", "set_tmo", "clear_tmo", "send"}
             /\ ~flags.tmo /\ posted = 0
             /\ loaded => reg = flags
  BY <1>1, <1>2, <1>4 DEF Timeouts
<1>5. ASSUME late' = late, UNCHANGED <<flags, reg, loaded>>,
             pc' \notin {"set_rsp", "set_tmo", "clear_tmo", "send"}
      PROVE  Quiet
  BY <1>4, <1>5
<1>6. CASE (\E c \in Command : Request(c)) \/ CloseInIdle
  <2>1. late' = late /\ UNCHANGED <<flags, reg, loaded>> /\ pc' \in {"spin", pc}
    BY <1>6 DEF Request, Send, CloseInIdle, timer
  <2> QED BY <2>1, <1>4, <1>5
<1>7. CASE Spin \/ Arm \/ Wait \/ Stop
  <2>1. /\ late' = late /\ UNCHANGED <<flags, reg, loaded>>
        /\ pc' \in {"arm", "wait", "clear_rsp", "check"}
    BY <1>7 DEF Spin, Arm, Wait, Stop, timer
  <2> QED BY <2>1, <1>5
<1>8. CASE Check
  <2>1. late' = late /\ UNCHANGED <<flags, reg, loaded>>
    BY <1>8 DEF Check, timer
  <2>2. pc' = "idle"
    BY <2>1, <1>4, <1>8 DEF Check
  <2> QED BY <2>1, <2>2, <1>5
<1>9. CASE SendAgain \/ Dispatch
  <2>1. late' = late
    BY <1>9 DEF SendAgain, Dispatch, timer
  <2>2. pc # "send" /\ posted = 0
    BY <2>1, <1>4
  <2>3. pc = "send" \/ posted > 0
    BY <1>9 DEF SendAgain, Dispatch
  <2> QED BY <2>2, <2>3
<1>10. CASE Load
  <2>1. late' = late /\ UNCHANGED <<flags, pc>> /\ reg' = flags
    BY <1>10 DEF Load, timer
  <2> QED BY <2>1, <1>4
<1>11. CASE Store
  <2>1. late' = late /\ loaded /\ ~loaded'
    BY <1>11 DEF Store, timer
  <2>2. pc = "clear_rsp" /\ reg = flags /\ ~flags.tmo
    BY <2>1, <1>4, NoneWhileLoaded
  <2>3. pc' = "stop" /\ flags'.tmo = reg.tmo
    BY <2>2, <1>2, <1>11, StoreFacts DEF BytesOK
  <2> QED BY <2>1, <2>2, <2>3
<1>12. CASE msg_clear_all
  <2>1. late' = late /\ UNCHANGED <<flags, reg, loaded, pc>>
    BY <1>12 DEF msg_clear_all, main
  <2> QED BY <2>1, <1>4, <1>5
<1>13. CASE Expire
  BY <1>3, <1>13 DEF Expire
<1>14. CASE Answer
  <2>1. late' = late /\ UNCHANGED <<reg, loaded, pc>> /\ answers # <<>>
    BY <1>14 DEF Answer, main, timer
  <2>2. ~loaded
    BY <2>1, NoneWhileLoaded
  <2>3. flags'.tmo = flags.tmo
    BY <1>2, <1>14, AnswerFacts DEF BytesOK, BoxesOK
  <2> QED BY <2>1, <2>2, <2>3, <1>4
<1>15. CASE \E u \in Unit : Take(u)
  <2>1. late' = late /\ UNCHANGED <<flags, reg, loaded, pc>>
    BY <1>15 DEF Take, main, timer
  <2> QED BY <2>1, <1>4, <1>5
<1>16. CASE UNCHANGED vars
  <2>1. late' = late /\ UNCHANGED <<flags, reg, loaded, pc>>
    BY <1>16 DEF vars, main, timer
  <2> QED BY <2>1, <1>4, <1>5
<1> HIDE DEF Quiet
<1> QED BY <1>6, <1>7, <1>8, <1>9, <1>10, <1>11, <1>12, <1>13, <1>14, <1>15, <1>16
        DEF Next, MainStep

-----------------------------------------------------------------------------
\* The theorems.

\* Nothing is asked, and nothing is on its way.
LEMMA InitIInv == Init => IInv
<1> SUFFICES ASSUME Init PROVE IInv
  OBVIOUS
<1>1. NoFlags \in Flags /\ ~NoFlags.tmo /\ ~NoFlags.rsp
  BY DEF NoFlags, Flags
<1>2. None \notin Command
  BY DEF None, Command, Unit
<1>3. BytesOK
  BY <1>1 DEF Init, BytesOK
<1>4. BoxesOK
  BY DEF Init, BoxesOK, Setting
<1>5. ControlOK /\ Len(answers) = 0
  <2>1. late \in 0 .. MaxLate /\ posted \in 0 .. late
    BY DEF Init
  <2>2. Len(answers) = 0
    BY DEF Init
  <2> QED BY <2>1, <2>2 DEF Init, ControlOK
<1>6. Phases
  BY <1>1 DEF Init, Phases, Operating
<1>7. OneUntaken
  BY <1>2 DEF Init, OneUntaken
<1>8. AnswerDue
  BY DEF Init, AnswerDue
<1>9. Timeouts
  BY <1>1 DEF Init, Timeouts
<1>10. Counted
  <2>1. Signalled = 0
    BY <1>1 DEF Init, Signalled
  <2>2. Untaken = 0 /\ TimingOut = 0 /\ Waiting = 0 /\ posted = 0 /\ late = 0
    BY DEF Init, Untaken, TimingOut, Waiting
  <2> QED BY <1>5, <2>1, <2>2 DEF Counted
<1>11. TypeOK
  BY <1>3, <1>4, <1>5 DEF TypeOK, BytesOK, BoxesOK, ControlOK
<1> QED BY <1>6, <1>7, <1>8, <1>9, <1>10, <1>11 DEF IInv

\* The answers that wait are bounded because the ends on their way are counted.
LEMMA NextIInv == IInv /\ [Next]_vars => IInv'
<1> SUFFICES ASSUME IInv, [Next]_vars PROVE IInv'
  OBVIOUS
<1>1. BytesOK' /\ BoxesOK' /\ ControlOK' /\ Counted'
  BY BytesStep, BoxesStep, ControlStep, CountedStep
<1>2. Len(answers') \in Nat /\ Len(answers') <= MaxLate + 1
  <2>1. Len(answers') \in Nat /\ posted' \in Nat /\ late' \in 0 .. MaxLate
    BY <1>1 DEF BoxesOK, ControlOK
  <2>2. /\ Untaken' \in {0, 1} /\ Signalled' \in {0, 1}
        /\ TimingOut' \in {0, 1} /\ Waiting' \in {0, 1}
    BY DEF Untaken, Signalled, TimingOut, Waiting
  <2> QED BY <1>1, <2>1, <2>2 DEF Counted
<1>3. TypeOK'
  BY <1>1, <1>2 DEF TypeOK, BytesOK, BoxesOK, ControlOK
<1> QED BY <1>1, <1>3, PhasesStep, OneUntakenStep, AnswerDueStep, TimeoutsStep DEF IInv

\* The inductive invariant holds always.
THEOREM Inductive == Spec => []IInv
BY InitIInv, NextIInv, PTL DEF Spec

\* The registers and the byte keep their types, and no more answers pile up than
\* one for each timeout that has expired, and one for the operation under way.
THEOREM TypeCorrect == Spec => []TypeOK
<1>1. IInv => TypeOK
  BY DEF IInv
<1> QED BY <1>1, Inductive, PTL

\* aud_wait_for_dsp_resp never waits for an answer that has come already and was
\* lost: not by arriving before the wait, and not by arriving between the load
\* and the store of s_aud_ADDA_open.
THEOREM NoLostWakeupHolds == Spec => []NoLostWakeup
<1>1. IInv => NoLostWakeup
  BY DEF IInv, AnswerDue, NoLostWakeup
<1> QED BY <1>1, Inductive, PTL

\* Until a timeout expires, the MCU and the DSP are in step: each operation ends
\* with its own answer.
THEOREM InStepHolds == Spec => []InStep
<1>1. IInv => InStep
  <2> SUFFICES ASSUME IInv, pc = "idle", late = 0
               PROVE  answers = <<>> /\ ~flags.rsp /\ ~flags.tmo
    BY DEF InStep
  <2>1. posted \in Nat /\ Len(answers) \in Nat /\ answers \in Seq(Unit)
    BY TypeParts DEF ControlOK, BoxesOK
  <2>2. Untaken = 0 /\ TimingOut = 0 /\ Waiting = 0 /\ Signalled \in {0, 1}
    BY DEF Untaken, TimingOut, Waiting, Signalled
  <2>3. Len(answers) = 0 /\ Signalled = 0
    BY <2>1, <2>2 DEF IInv, Counted
  <2>4. ~flags.rsp
    BY <2>3 DEF Signalled
  <2> QED BY <2>1, <2>3, <2>4 DEF IInv, Timeouts
<1> QED BY <1>1, Inductive, PTL

\* An operation that is over has reached the DSP, whatever timed out meanwhile.
THEOREM RequestsReachDsp == Spec => []RequestReachesDsp
<1>1. IInv => RequestReachesDsp
  <2> SUFFICES ASSUME IInv, pc = "idle" PROVE told = asked
    BY DEF RequestReachesDsp
  <2>1. \A u \in Unit : told[u] = asked[u]
    BY DEF IInv, OneUntaken
  <2>2. told \in [Unit -> Setting] /\ asked \in [Unit -> Setting]
    BY TypeParts DEF BoxesOK
  <2> QED BY <2>1, <2>2
<1> QED BY <1>1, Inductive, PTL

\* Until a timeout expires, the stores of the main loop never close a gate that
\* the interrupt has opened.
THEOREM GatesStayOpen == Spec => GateStaysOpen
<1> DEFINE Open == late = 0 => (flags.dac => flags'.dac) /\ (flags.adc => flags'.adc)
<1>1. ASSUME IInv, [Next]_vars PROVE [Open]_vars
  <2> SUFFICES ASSUME late = 0
               PROVE  (flags.dac => flags'.dac) /\ (flags.adc => flags'.adc)
    OBVIOUS
  <2>1. BytesOK /\ BoxesOK
    BY <1>1, TypeParts
  <2>2. CASE flags' = flags
    BY <2>2
  <2>3. CASE Store
    <3>1. reg = flags
      BY <1>1, <2>3 DEF IInv, Timeouts, Store
    <3> QED BY <2>1, <2>3, <3>1, StoreFacts DEF BytesOK
  <2>4. CASE Answer
    BY <2>1, <2>4, AnswerFacts DEF BytesOK, BoxesOK
  <2>5. CASE (\E c \in Command : Request(c)) \/ CloseInIdle
    BY <2>2, <2>5 DEF Request, CloseInIdle
  <2>6. CASE Spin \/ Arm \/ Wait \/ Stop \/ Check \/ SendAgain \/ Load
    BY <2>2, <2>6 DEF Spin, Arm, Wait, Stop, Check, SendAgain, Load
  <2>7. CASE Dispatch \/ msg_clear_all \/ Expire \/ (\E u \in Unit : Take(u))
    BY <2>2, <2>7 DEF Dispatch, msg_clear_all, Expire, Take
  <2>8. CASE UNCHANGED vars
    BY <2>2, <2>8 DEF vars
  <2> QED BY <1>1, <2>3, <2>4, <2>5, <2>6, <2>7, <2>8 DEF Next, MainStep
<1> QED BY <1>1, Inductive, PTL DEF Spec, GateStaysOpen
=============================================================================
