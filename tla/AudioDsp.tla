------------------------------- MODULE AudioDsp -------------------------------
(***************************************************************************)
(* How the MCU opens and closes the audio units of the DSP: aud_open,      *)
(* aud_close and aud_mic_open of host/port/beken_driver/driver_audio.c     *)
(* over the mailbox registers of drv_mailbox.c.                            *)
(*                                                                         *)
(* An operation, always made by the main loop, writes its command, spins   *)
(* until the DSP has taken it, arms a timer of 500 ticks and spins until   *)
(* a bit of s_aud_ADDA_open is set by the mailbox interrupt (the answer)   *)
(* or by the callback of the timer, which the main loop would have to run. *)
(* The main loop changes the byte s_aud_ADDA_open by a load and a store,   *)
(* with interrupts enabled, so an answer may come in between.              *)
(*                                                                         *)
(* The DSP is not in the repository: it takes a command and answers it,    *)
(* after any delay.                                                        *)
(***************************************************************************)
EXTENDS Naturals, Sequences

CONSTANTS MaxLate     \* bound: timeouts that expire before the DSP answers

ASSUME AudioDspAssumption == MaxLate \in Nat

Unit == {"dac", "adc"}
Setting == {"on", "off"}

\* aud_open, aud_close, aud_mic_open(1) and aud_mic_open(0)
Command == [unit : Unit, set : Setting]
IdleCommand == [unit |-> "dac", set |-> "idle"]
None == [unit |-> "none", set |-> "off"]

VARIABLES flags,      \* s_aud_ADDA_open: RSP, TIMEOUT, and the two gates
          reg,        \* its value between a load and the store of the main loop
          loaded,     \* the main loop is between that load and that store
          pc,         \* where the main loop is
          cur,        \* the command of the operation under way, or None
          idle,       \* s_bt_aud_idle_stat
          box,        \* the MCU-to-DSP mailboxes: a command not yet taken, or None
          answers,    \* what the DSP has taken and not answered, oldest first
          armed,      \* app_audio_task is pending
          posted,     \* timeout callbacks waiting in the message pool
          late,       \* how many timeouts have expired
          asked,      \* history: the last setting asked of each unit
          told        \* history: the last setting each unit was given

main == <<reg, loaded, pc, cur, idle>>
dsp == <<box, answers, told>>
timer == <<armed, posted, late>>
vars == <<flags, main, dsp, timer, asked>>

Flags == [rsp : BOOLEAN, tmo : BOOLEAN, dac : BOOLEAN, adc : BOOLEAN]
NoFlags == [rsp |-> FALSE, tmo |-> FALSE, dac |-> FALSE, adc |-> FALSE]

TypeOK ==
  /\ flags \in Flags
  /\ reg \in Flags
  /\ loaded \in BOOLEAN
  /\ pc \in {"idle", "spin", "arm", "wait", "clear_rsp", "stop", "check",
             "clear_tmo", "send", "set_rsp", "set_tmo"}
  /\ cur \in Command \cup {None}
  /\ idle \in BOOLEAN
  /\ box \in [Unit -> Command \cup {IdleCommand, None}]
  /\ answers \in Seq(Unit)
  /\ Len(answers) <= MaxLate + 1
  /\ armed \in BOOLEAN
  /\ posted \in 0 .. MaxLate
  /\ late \in 0 .. MaxLate
  /\ asked \in [Unit -> Setting]
  /\ told \in [Unit -> Setting]

Init ==
  /\ flags = NoFlags
  /\ reg = NoFlags
  /\ loaded = FALSE
  /\ pc = "idle"
  /\ cur = None
  /\ idle = FALSE
  /\ box = [u \in Unit |-> None]
  /\ answers = <<>>
  /\ armed = FALSE
  /\ posted = 0
  /\ late = 0
  /\ asked = [u \in Unit |-> "off"]
  /\ told = [u \in Unit |-> "off"]

------------------------------------------------------------------------------
\* The main loop.

\* Mutant: a request is written like the idle command, without waiting for the
\* DSP to take it.
SendUnblocked(c) ==
  /\ cur' = c
  /\ box' = IF box[c.unit] = None THEN [box EXCEPT ![c.unit] = c] ELSE box
  /\ asked' = [asked EXCEPT ![c.unit] = c.set]
  /\ pc' = "arm"

\* write_mailbox_ctrl in block mode: the register group is overwritten whether
\* the command in it was taken or not.
Send(c) ==
  /\ cur' = c
  /\ box' = [box EXCEPT ![c.unit] = c]
  /\ asked' = [asked EXCEPT ![c.unit] = c.set]
  /\ pc' = "spin"

\* Entry of aud_open, aud_close or aud_mic_open.
Request(c) ==
  /\ pc = "idle"
  /\ Send(c)
  /\ idle' = IF c = [unit |-> "dac", set |-> "on"] THEN FALSE ELSE idle
  /\ UNCHANGED <<flags, reg, loaded, answers, told, timer>>

\* aud_ana_dac_close_in_idle: not in block mode, and no answer is asked for.
CloseInIdle ==
  /\ pc = "idle"
  /\ ~idle
  /\ idle' = TRUE
  /\ box' = IF box["dac"] = None THEN [box EXCEPT !["dac"] = IdleCommand] ELSE box
  /\ UNCHANGED <<flags, reg, loaded, pc, cur, answers, told, timer, asked>>

\* while (READ_MAILBOX_REG_SEG(... MAILBOX_INTR_SEG));
Spin ==
  /\ pc = "spin"
  /\ box[cur.unit] = None
  /\ pc' = "arm"
  /\ UNCHANGED <<flags, reg, loaded, cur, idle, dsp, timer, asked>>

\* Mutant: the response bit is cleared before the wait and not after it.
ArmAndClear ==
  /\ pc = "arm"
  /\ armed' = TRUE
  /\ flags' = [flags EXCEPT !.rsp = FALSE]
  /\ pc' = "wait"
  /\ UNCHANGED <<reg, loaded, cur, idle, dsp, posted, late, asked>>

\* Mutant: the byte is read before the wait and stored after it.
ArmAndLoad ==
  /\ pc = "arm"
  /\ armed' = TRUE
  /\ reg' = flags
  /\ loaded' = TRUE
  /\ pc' = "wait"
  /\ UNCHANGED <<flags, cur, idle, dsp, posted, late, asked>>

\* jtask_schedule(app_audio_task, 500, ...)
Arm ==
  /\ pc = "arm"
  /\ armed' = TRUE
  /\ pc' = "wait"
  /\ UNCHANGED <<flags, reg, loaded, cur, idle, dsp, posted, late, asked>>

\* Mutant: the response bit is not cleared after the wait.
WaitKeepsBit ==
  /\ pc = "wait"
  /\ flags.rsp
  /\ pc' = "stop"
  /\ UNCHANGED <<flags, reg, loaded, cur, idle, dsp, timer, asked>>

\* while (!(s_aud_ADDA_open & AUDIO_ADDA_EN_RSP_BIT));
Wait ==
  /\ pc = "wait"
  /\ flags.rsp
  /\ pc' = "clear_rsp"
  /\ UNCHANGED <<flags, reg, loaded, cur, idle, dsp, timer, asked>>

\* jtask_stop: a callback that is already in the message pool stays there.
Stop ==
  /\ pc = "stop"
  /\ armed' = FALSE
  /\ pc' = "check"
  /\ UNCHANGED <<flags, reg, loaded, cur, idle, dsp, posted, late, asked>>

\* Did the wait end by a timeout?
Check ==
  /\ pc = "check"
  /\ pc' = IF flags.tmo THEN "clear_tmo" ELSE "idle"
  /\ cur' = IF flags.tmo THEN cur ELSE None
  /\ UNCHANGED <<flags, reg, loaded, idle, dsp, timer, asked>>

\* The recursive call.
SendAgain ==
  /\ pc = "send"
  /\ Send(cur)
  /\ idle' = IF cur = [unit |-> "dac", set |-> "on"] THEN FALSE ELSE idle
  /\ UNCHANGED <<flags, reg, loaded, answers, told, timer>>

\* Mutant: the timeout is remembered when the command is sent again.
AfterForgetful(at) ==
  CASE at = "clear_rsp" -> [bit |-> "rsp", val |-> FALSE, next |-> "stop"]
    [] at = "clear_tmo" -> [bit |-> "rsp", val |-> FALSE, next |-> "send"]
    [] at = "set_rsp"   -> [bit |-> "rsp", val |-> TRUE,  next |-> "set_tmo"]
    [] at = "set_tmo"   -> [bit |-> "tmo", val |-> TRUE,  next |-> "idle"]

\* The four places where the main loop changes one bit of s_aud_ADDA_open: in
\* aud_wait_for_dsp_resp, before the recursive call, and in the callback
\* aud_mcu2dsp_cmd_timeout (two).
Update == {"clear_rsp", "clear_tmo", "set_rsp", "set_tmo"}
After(at) ==
  CASE at = "clear_rsp" -> [bit |-> "rsp", val |-> FALSE, next |-> "stop"]
    [] at = "clear_tmo" -> [bit |-> "tmo", val |-> FALSE, next |-> "send"]
    [] at = "set_rsp"   -> [bit |-> "rsp", val |-> TRUE,  next |-> "set_tmo"]
    [] at = "set_tmo"   -> [bit |-> "tmo", val |-> TRUE,  next |-> "idle"]

Load ==
  /\ pc \in Update
  /\ ~loaded
  /\ loaded' = TRUE
  /\ reg' = flags
  /\ UNCHANGED <<flags, pc, cur, idle, dsp, timer, asked>>

Store ==
  /\ pc \in Update
  /\ loaded
  /\ loaded' = FALSE
  /\ reg' = NoFlags
  /\ flags' = [reg EXCEPT ![After(pc).bit] = After(pc).val]
  /\ pc' = After(pc).next
  /\ UNCHANGED <<cur, idle, dsp, timer, asked>>

\* common_msg_handler runs the callback of app_audio_task.
Dispatch ==
  /\ pc = "idle"
  /\ posted > 0
  /\ posted' = posted - 1
  /\ pc' = "set_rsp"
  /\ UNCHANGED <<flags, reg, loaded, cur, idle, dsp, armed, late, asked>>

\* A change of work mode empties the message pool.
msg_clear_all ==
  /\ pc = "idle"
  /\ posted > 0
  /\ posted' = 0
  /\ UNCHANGED <<flags, main, dsp, armed, late, asked>>

------------------------------------------------------------------------------
\* Interrupts.

\* The 500 ticks are over: timer_pwm1_pt2_swi posts the callback.
Expire ==
  /\ armed
  /\ late < MaxLate
  /\ armed' = FALSE
  /\ posted' = posted + 1
  /\ late' = late + 1
  /\ UNCHANGED <<flags, main, dsp, asked>>

\* mailbox_isr_handler.  p0 is the address of the parameter register and not
\* its contents, so the gates are set whatever the DSP reports; the case of the
\* DAC runs into the case of the ADC.
Answer ==
  /\ answers # <<>>
  /\ answers' = Tail(answers)
  /\ flags' = [flags EXCEPT !.rsp = TRUE,
                            !.dac = @ \/ Head(answers) = "dac",
                            !.adc = TRUE]
  /\ UNCHANGED <<main, box, told, timer, asked>>

\* The DSP takes the command in a mailbox and clears its intr_flag.
Take(u) ==
  /\ box[u] # None
  /\ box' = [box EXCEPT ![u] = None]
  /\ IF box[u] = IdleCommand
     THEN UNCHANGED <<answers, told>>
     ELSE /\ answers' = Append(answers, u)
          /\ told' = [told EXCEPT ![u] = box[u].set]
  /\ UNCHANGED <<flags, main, timer, asked>>

------------------------------------------------------------------------------
\* What the main loop does until the operation under way is over.
MainStep == Spin \/ Arm \/ Wait \/ Stop \/ Check \/ SendAgain \/ Load \/ Store

Next ==
  \/ \E c \in Command : Request(c)
  \/ CloseInIdle
  \/ MainStep
  \/ Dispatch
  \/ msg_clear_all
  \/ Expire
  \/ Answer
  \/ \E u \in Unit : Take(u)

Spec == Init /\ [][Next]_vars

\* The processor runs, and the tick interrupt never stops.
McuFairness == WF_vars(MainStep) /\ WF_vars(Expire) /\ SF_vars(Dispatch)

\* The DSP looks at its mailboxes and answers, after any delay.
DspFairness == WF_vars(Answer) /\ \A u \in Unit : WF_vars(Take(u))

\* A DSP that is alive, and one that takes commands and may not answer.
FairSpec == Spec /\ McuFairness /\ DspFairness
SilentSpec == Spec /\ McuFairness /\ \A u \in Unit : WF_vars(Take(u))

------------------------------------------------------------------------------
\* The main loop never waits for an answer that has already come and gone: an
\* answer that arrives before the wait begins, or in the middle of an update of
\* s_aud_ADDA_open for an earlier one, is not the one it goes on to wait for
\* (driver_audio.c 231-240).
NoLostWakeup == pc = "wait" /\ ~flags.rsp => answers # <<>>

\* "MCU must wait for response of DSP" (driver_audio.c 222-225): as long as no
\* timeout has expired, an operation that is over has been answered, no answer
\* is left over for the next one, and no operation was sent twice.
InStep ==
  pc = "idle" /\ late = 0 => answers = <<>> /\ ~flags.rsp /\ ~flags.tmo

\* When an operation is over, the DSP has been given the setting it asked for,
\* whatever was in the mailbox when it began and however often it was sent.
RequestReachesDsp == pc = "idle" => told = asked

\* Once a unit was switched on, and no timeout has expired, samples pass its
\* gate: no update of the byte by the main loop undoes the one the interrupt
\* made (driver_audio.c 207-216, 238).
GateStaysOpen ==
  [][late = 0 => (flags.dac => flags'.dac) /\ (flags.adc => flags'.adc)]_vars

\* Every operation comes to an end if the DSP answers, late or not: the
\* recursive calls do not go on for ever.
OperationEnds == pc # "idle" ~> pc = "idle"

\* "Wait for the response of dsp ,or timeout callback" (driver_audio.c 236): a
\* wait ends once the timeout has expired.
TimeoutEndsWait == (pc = "wait" /\ posted > 0) ~> pc # "wait"
==============================================================================
