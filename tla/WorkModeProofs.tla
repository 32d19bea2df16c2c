---------------------------- MODULE WorkModeProofs ----------------------------
(***************************************************************************)
(* Theorems about WorkMode for every number of messages that interrupts    *)
(* and keys have waiting.                                                  *)
(***************************************************************************)
EXTENDS WorkMode, TLAPS

USE WorkModeAssumption DEF WorkModeAssumption

-----------------------------------------------------------------------------
\* The inductive invariant, in the parts the steps are looked at for.

\* The mode, the phase, the prompt and the hang-up are among those there are.
ControlOK ==
  /\ sys_work_mode \in Mode
  /\ pc \in {"boot", "entry", "first_turn", "pre_enter", "loop", "waiting", "off"}
  /\ prompt \in {"none", "plain", "off"}
  /\ ending \in {"no", "link", "unit"}

\* The flags are truth values.
FlagsOK ==
  {line, sd, usb, enumerated, enumerating, linked, line_audio, fat, stopping,
   down, task} \subseteq BOOLEAN

\* The messages s, waiting in the phase p.  Entering a mode of a disk posts two,
\* and finds room for them.
PoolOf(s, p) ==
  /\ s \in Seq(Message) /\ Len(s) <= MaxEnv + 3
  /\ p \in {"first_turn", "pre_enter"} => Len(s) <= MaxEnv + 1
  /\ p \in {"first_turn", "pre_enter", "loop"} =>
       \A i \in 1 .. Len(s) : s[i].when = "now"

PoolOK == PoolOf(pool, pc)

IInv == ControlOK /\ FlagsOK /\ PoolOK /\ OneSource

\* The parts say what the runs check.
LEMMA IInvImplies == IInv => TypeOK /\ OneSource /\ NoStaleRequest
<1> SUFFICES ASSUME IInv PROVE TypeOK /\ OneSource /\ NoStaleRequest
  OBVIOUS
<1>1. TypeOK
  BY DEF IInv, ControlOK, FlagsOK, PoolOK, PoolOf, TypeOK
<1>2. NoStaleRequest
  BY DEF IInv, PoolOK, PoolOf, NoStaleRequest
<1> QED BY <1>1, <1>2 DEF IInv

-----------------------------------------------------------------------------
\* The operators.

\* The least of the places in Order at which a set has a member.
LEMMA LeastPlace ==
  ASSUME NEW S \in SUBSET (1 .. 4), S # {}
  PROVE  \E i \in S : \A j \in S : i <= j
<1>1. CASE 1 \in S
  BY <1>1
<1>2. CASE 1 \notin S /\ 2 \in S
  BY <1>2
<1>3. CASE 1 \notin S /\ 2 \notin S /\ 3 \in S
  BY <1>3
<1>4. CASE 1 \notin S /\ 2 \notin S /\ 3 \notin S
  <2>1. \A j \in S : j = 4
    BY <1>4
  <2>2. 4 \in S
    BY <2>1
  <2> QED BY <2>1, <2>2
<1> QED BY <1>1, <1>2, <1>3, <1>4

\* The MODE key goes to a mode.
LEMMA AfterIsMode ==
  ASSUME NEW m \in Mode
  PROVE  After(m) \in Mode
<1> DEFINE here == CHOOSE i \in 1 .. 4 : Order[i] = m
           next == {i \in here + 1 .. 4 : Attached(Order[i])}
           least == CHOOSE i \in next : \A j \in next : i <= j
<1>1. \A i \in 1 .. 4 : Order[i] \in Mode
  BY DEF Order, Mode, Medium, Disk
<1>2. here \in 1 .. 4
  <2>1. \E i \in 1 .. 4 : Order[i] = m
    <3>1. Order[1] = "BT" /\ Order[2] = "LINEIN" /\ Order[3] = "UDISK" /\ Order[4] = "SD"
      BY DEF Order
    <3> QED BY <3>1 DEF Mode, Medium, Disk
  <2> QED BY <2>1
<1> HIDE DEF here
<1>3. next \in SUBSET (1 .. 4)
  BY <1>2
<1>4. CASE next = {}
  BY <1>4 DEF After, here, Mode
<1>5. CASE next # {}
  <2> HIDE DEF next
  <2>1. least \in next
    BY <1>3, <1>5, LeastPlace
  <2>2. Order[least] \in Mode
    BY <2>1, <1>1, <1>3
  <2>3. After(m) = Order[least]
    BY <1>5 DEF After, here, next
  <2> QED BY <2>2, <2>3
<1> QED BY <1>4, <1>5

\* So does every message that asks for a mode.
LEMMA WantedIsMode ==
  ASSUME sys_work_mode \in Mode, NEW k \in Kind
  PROVE  Wanted(k) \in Mode
<1>1. After(sys_work_mode) \in Mode
  BY AfterIsMode
<1> QED BY <1>1 DEF Wanted, Kind, Mode, Medium, Disk

\* Posting a message to a pool that has room, in the phase it is posted in.
LEMMA PostGood ==
  ASSUME NEW s, NEW p, PoolOf(s, p), NEW k \in Kind,
         Len(s) < MaxEnv + 3, p \in {"first_turn", "pre_enter"} => Len(s) <= MaxEnv
  PROVE  PoolOf(Post(s, k), p)
<1> DEFINE m == [kind |-> k, when |-> "now"]
<1>1. m \in Message /\ m.when = "now"
  BY DEF Message
<1>2. Post(s, k) = Append(s, m)
  BY DEF Post
<1>3. s \in Seq(Message) /\ Len(s) \in Nat
  BY DEF PoolOf
<1> HIDE DEF m
<1>4. /\ Append(s, m) \in Seq(Message)
      /\ Len(Append(s, m)) = Len(s) + 1
      /\ \A i \in 1 .. Len(s) + 1 : Append(s, m)[i] = IF i = Len(s) + 1 THEN m ELSE s[i]
  BY <1>1, <1>3
<1>5. \A i \in 1 .. Len(s) + 1 : i \in 1 .. Len(s) \/ i = Len(s) + 1
  BY <1>3
<1> QED BY <1>1, <1>2, <1>3, <1>4, <1>5 DEF PoolOf

\* Taking the oldest message.
LEMMA TailGood ==
  ASSUME NEW s, NEW p, PoolOf(s, p), s # <<>>
  PROVE  PoolOf(Tail(s), p) /\ Head(s) \in Message
<1>1. s \in Seq(Message) /\ Len(s) \in Nat
  BY DEF PoolOf
<1>2. /\ Tail(s) \in Seq(Message) /\ Len(Tail(s)) + 1 = Len(s)
      /\ Len(Tail(s)) \in Nat
      /\ \A i \in 1 .. Len(Tail(s)) : Tail(s)[i] = s[i + 1]
      /\ Head(s) \in Message
  BY <1>1
<1>3. \A i \in 1 .. Len(Tail(s)) : i + 1 \in 1 .. Len(s)
  BY <1>2
<1> QED BY <1>1, <1>2, <1>3 DEF PoolOf

\* Messages of a mode that was left wait in no phase that handles them.
LEMMA AgedGood ==
  ASSUME NEW s, NEW p, PoolOf(s, p), NEW q \in {"entry", "waiting"}
  PROVE  PoolOf(Aged(s), q)
<1>1. s \in Seq(Message) /\ Len(s) \in Nat /\ DOMAIN s = 1 .. Len(s)
  BY DEF PoolOf
<1>2. ASSUME NEW i \in 1 .. Len(s)
      PROVE  [s[i] EXCEPT !.when = "gone"] \in Message
  <2>1. s[i] \in Message
    BY <1>1
  <2> QED BY <2>1 DEF Message
<1>3. Aged(s) = [i \in 1 .. Len(s) |-> [s[i] EXCEPT !.when = "gone"]]
  BY <1>1 DEF Aged
<1>4. Aged(s) \in Seq(Message) /\ Len(Aged(s)) = Len(s)
  BY <1>1, <1>2, <1>3
<1> QED BY <1>4 DEF PoolOf

-----------------------------------------------------------------------------
\* Switching off, and hanging up first.

\* A machine that has lost its memory is as it is when it starts.
LEMMA ResetGood ==
  ASSUME app_powerdown_action
  PROVE  IInv'
<1>1. ControlOK'
  BY DEF app_powerdown_action, ControlOK, Mode
<1>2. FlagsOK'
  BY DEF app_powerdown_action, FlagsOK
<1>3. PoolOK'
  BY DEF app_powerdown_action, PoolOK, PoolOf
<1>4. OneSource'
  BY DEF app_powerdown_action, OneSource
<1> QED BY <1>1, <1>2, <1>3, <1>4 DEF IInv

\* app_powerdown switches off, or hangs up and leaves the phase alone.
LEMMA PowerdownGood ==
  ASSUME IInv, NEW s, PoolOf(s, pc), NEW p \in {"none", "plain", "off"},
         app_powerdown(s, p)
  PROVE  IInv'
<1>1. CASE sys_work_mode = "BT" /\ linked
  <2>1. ControlOK'
    BY <1>1 DEF app_powerdown, IInv, ControlOK
  <2>2. FlagsOK'
    BY <1>1 DEF app_powerdown, IInv, FlagsOK, media
  <2>3. PoolOK'
    BY <1>1 DEF app_powerdown, PoolOK, PoolOf
  <2>4. OneSource'
    BY <1>1 DEF app_powerdown, IInv, OneSource
  <2> QED BY <2>1, <2>2, <2>3, <2>4 DEF IInv
<1>2. CASE ~(sys_work_mode = "BT" /\ linked)
  BY <1>2, ResetGood DEF app_powerdown
<1> QED BY <1>1, <1>2

-----------------------------------------------------------------------------
\* The handlers of a message.

\* A message that asks for a mode ends the one there is, or is dropped.
LEMMA SwitchGood ==
  ASSUME IInv, pc \in {"first_turn", "pre_enter", "loop"}, pool # <<>>, Switch
  PROVE  IInv'
<1> DEFINE k == Head(pool).kind
           mode == Wanted(k)
<1>1. PoolOf(Tail(pool), pc) /\ Head(pool) \in Message
  BY TailGood DEF IInv, PoolOK
<1>2. k \in Kind
  BY <1>1 DEF Message
<1>3. mode \in Mode
  BY <1>2, WantedIsMode DEF IInv, ControlOK
<1>4. UNCHANGED <<line, sd, usb, enumerated, prompt, stopping, down, ending>>
  BY DEF Switch
<1>5. enumerating' = (enumerating \/ k = "usb_device")
  BY DEF Switch
<1>6. CASE mode = sys_work_mode
  <2>1. /\ pool' = Tail(pool)
        /\ UNCHANGED <<sys_work_mode, pc, linked, line_audio, fat, task>>
    BY <1>6 DEF Switch
  <2>2. ControlOK'
    BY <1>4, <2>1 DEF IInv, ControlOK
  <2>3. FlagsOK'
    BY <1>4, <1>5, <2>1 DEF IInv, FlagsOK
  <2>4. PoolOK'
    BY <1>1, <2>1 DEF PoolOK
  <2>5. OneSource'
    BY <2>1 DEF IInv, OneSource
  <2> QED BY <2>2, <2>3, <2>4, <2>5 DEF IInv
<1>7. CASE mode # sys_work_mode
  <2>1. /\ exit_work_mode
        /\ sys_work_mode' = mode
        /\ pool' = Aged(Tail(pool))
        /\ pc' \in {"waiting", "entry"}
    BY <1>7 DEF Switch
  <2> HIDE DEF mode
  <2>2. ControlOK'
    BY <1>3, <1>4, <2>1 DEF IInv, ControlOK
  <2>3. FlagsOK'
    BY <1>4, <1>5, <2>1 DEF IInv, FlagsOK, exit_work_mode
  <2>4. PoolOK'
    BY <1>1, <2>1, AgedGood DEF PoolOK
  <2>5. OneSource'
    BY <2>1 DEF IInv, OneSource, exit_work_mode
  <2> QED BY <2>2, <2>3, <2>4, <2>5 DEF IInv
<1> QED BY <1>6, <1>7

\* The power key hangs up, switches off, or asks for the prompt that will.
LEMMA PowerKeyGood ==
  ASSUME IInv, pool # <<>>, PowerKey
  PROVE  IInv'
<1>1. PoolOf(Tail(pool), pc)
  BY TailGood DEF IInv, PoolOK
<1>2. CASE ~down /\ app_powerdown(Tail(pool), prompt)
  BY <1>1, <1>2, PowerdownGood DEF IInv, ControlOK
<1>3. CASE /\ stopping' = TRUE
           /\ pool' = Tail(pool)
           /\ prompt' = IF down THEN prompt ELSE "off"
           /\ UNCHANGED <<sys_work_mode, pc, media, linked, line_audio, fat>>
           /\ UNCHANGED <<down, task, ending>>
  <2>1. ControlOK'
    BY <1>3 DEF IInv, ControlOK
  <2>2. FlagsOK'
    BY <1>3 DEF IInv, FlagsOK, media
  <2>3. PoolOK'
    BY <1>1, <1>3 DEF PoolOK
  <2>4. OneSource'
    BY <1>3 DEF IInv, OneSource
  <2> QED BY <2>1, <2>2, <2>3, <2>4 DEF IInv
<1> QED BY <1>2, <1>3 DEF PowerKey

-----------------------------------------------------------------------------
\* Interrupts, keys, the phone and the enumeration of a stick.

\* Whoever posts a message finds room for it, and changes no phase.
LEMMA ArrivalGood ==
  ASSUME IInv,
         LineChange \/ SdChange \/ UsbChange \/ KeyMode \/ KeyPower
  PROVE  IInv'
<1>1. Len(pool) < MaxEnv /\ PoolOf(pool, pc)
  BY DEF IInv, PoolOK, LineChange, SdChange, UsbChange, KeyMode, KeyPower, MayPost
<1>2. \E k \in Kind : pool' = Post(pool, k)
  BY DEF LineChange, SdChange, UsbChange, KeyMode, KeyPower, Kind
<1>3. UNCHANGED <<sys_work_mode, pc, audio, power>>
  BY DEF LineChange, SdChange, UsbChange, KeyMode, KeyPower
<1>4. ControlOK'
  BY <1>3 DEF IInv, ControlOK, audio, power
<1>5. FlagsOK'
  <2>1. FlagsOK
    BY DEF IInv
  <2>2. UNCHANGED <<linked, line_audio, fat, stopping, down, task>>
    BY <1>3 DEF audio, power
  <2>3. {line', sd', usb', enumerated', enumerating'} \subseteq BOOLEAN
    BY <2>1 DEF FlagsOK, LineChange, SdChange, UsbChange, KeyMode, KeyPower, media
  <2> QED BY <2>1, <2>2, <2>3 DEF FlagsOK
<1>6. PoolOK'
  <2>1. Len(pool) \in Nat
    BY <1>1 DEF PoolOf
  <2>2. PICK k \in Kind : pool' = Post(pool, k)
    BY <1>2
  <2>3. PoolOf(Post(pool, k), pc)
    BY <1>1, <2>1, PostGood
  <2> QED BY <2>2, <2>3, <1>3 DEF PoolOK
<1>7. OneSource'
  BY <1>3 DEF IInv, OneSource, audio
<1> QED BY <1>4, <1>5, <1>6, <1>7 DEF IInv

\* A phone that comes or goes changes neither the phase nor what a mode holds.
LEMMA LinkGood ==
  ASSUME IInv, LinkUp \/ LinkDown
  PROVE  IInv'
<1>1. ControlOK'
  BY DEF IInv, ControlOK, LinkUp, LinkDown, power
<1>2. FlagsOK'
  BY DEF IInv, FlagsOK, LinkUp, LinkDown, media, power
<1>3. PoolOK'
  BY DEF IInv, PoolOK, LinkUp, LinkDown
<1>4. OneSource'
  BY DEF IInv, OneSource, LinkUp, LinkDown
<1> QED BY <1>1, <1>2, <1>3, <1>4 DEF IInv

\* The stick announces itself only while there is room.
LEMMA EnumerateGood ==
  ASSUME IInv, Enumerate
  PROVE  IInv'
<1>1. UNCHANGED <<sys_work_mode, pc, line, sd, usb, audio, power>> /\ enumerating' = FALSE
  BY DEF Enumerate
<1>2. \/ /\ Len(pool) <= MaxEnv /\ pool' = Post(pool, "udisk_ok")
         /\ enumerated' = TRUE
      \/ UNCHANGED <<enumerated, pool>>
  BY DEF Enumerate
<1>3. ControlOK'
  <2>1. ControlOK
    BY DEF IInv
  <2>2. UNCHANGED <<sys_work_mode, pc, prompt, stopping, down, task, ending>>
    BY <1>1 DEF audio, power
  <2> QED BY <2>1, <2>2 DEF ControlOK
<1>4. FlagsOK'
  <2>1. FlagsOK
    BY DEF IInv
  <2>2. UNCHANGED <<line, sd, usb, linked, line_audio, fat, stopping, down, task>>
    BY <1>1 DEF audio, power
  <2>3. {enumerated', enumerating'} \subseteq BOOLEAN
    BY <2>1, <1>1, <1>2 DEF FlagsOK
  <2> QED BY <2>1, <2>2, <2>3 DEF FlagsOK
<1>5. PoolOK'
  <2>1. PoolOf(pool, pc) /\ Len(pool) \in Nat
    BY DEF IInv, PoolOK, PoolOf
  <2>2. Len(pool) <= MaxEnv => PoolOf(Post(pool, "udisk_ok"), pc)
    BY <2>1, PostGood DEF Kind
  <2> QED BY <1>1, <1>2, <2>1, <2>2 DEF PoolOK
<1>6. OneSource'
  BY <1>1 DEF IInv, OneSource, audio
<1> QED BY <1>3, <1>4, <1>5, <1>6 DEF IInv

-----------------------------------------------------------------------------
\* The phases of the main loop.

\* Between two modes, messages are dropped.
LEMMA DropGood ==
  ASSUME IInv, BT_msg_handler
  PROVE  IInv'
<1>1. ControlOK'
  BY DEF IInv, ControlOK, BT_msg_handler, audio, power
<1>2. FlagsOK'
  BY DEF IInv, FlagsOK, BT_msg_handler, audio, power
<1>3. PoolOK'
  BY TailGood DEF IInv, PoolOK, BT_msg_handler
<1>4. OneSource'
  BY DEF IInv, OneSource, BT_msg_handler, audio
<1> QED BY <1>1, <1>2, <1>3, <1>4 DEF IInv

\* The mode chosen after start-up is entered with nothing held.
LEMMA BootGood ==
  ASSUME IInv, Boot
  PROVE  IInv'
<1>1. BootMode \in Mode
  BY DEF IInv, FlagsOK, BootMode, Attached, Mode, Medium, Disk
<1>2. ControlOK'
  BY <1>1 DEF IInv, ControlOK, Boot, audio, power
<1>3. FlagsOK'
  BY DEF IInv, FlagsOK, Boot, media, audio, power
<1>4. PoolOK'
  BY DEF IInv, PoolOK, PoolOf, Boot
<1>5. OneSource'
  BY DEF IInv, OneSource, Boot, audio
<1> QED BY <1>2, <1>3, <1>4, <1>5 DEF IInv

\* The wait at the end of Bluetooth, and the key that wakes the chip.
LEMMA WaitedGood ==
  ASSUME IInv, Waited \/ PowerOn
  PROVE  IInv'
<1>1. ControlOK'
  BY DEF IInv, ControlOK, Waited, PowerOn, audio, power
<1>2. FlagsOK'
  BY DEF IInv, FlagsOK, Waited, PowerOn, media, audio, power
<1>3. PoolOK'
  BY DEF IInv, PoolOK, PoolOf, Waited, PowerOn
<1>4. OneSource'
  BY DEF IInv, OneSource, Waited, PowerOn, audio
<1> QED BY <1>1, <1>2, <1>3, <1>4 DEF IInv

\* Entering a mode empties the pool, or runs the callback of the power-off prompt.
LEMMA PreEnterGood ==
  ASSUME IInv, PreEnter
  PROVE  IInv'
<1>1. \A p : PoolOf(<<>>, p)
  BY DEF PoolOf
<1>2. CASE prompt = "off" /\ ~down
  BY <1>1, <1>2, PowerdownGood DEF PreEnter
<1>3. CASE ~(prompt = "off" /\ ~down)
  <2>1. /\ pc = "entry" /\ pc' = "first_turn" /\ pool' = <<>>
        /\ enumerating' \in {enumerating, FALSE} /\ task' \in {task, FALSE}
        /\ prompt' = "none"
        /\ UNCHANGED <<sys_work_mode, line, sd, usb, enumerated>>
        /\ UNCHANGED <<linked, line_audio, fat, stopping, down, ending>>
    BY <1>3 DEF PreEnter
  <2>2. ControlOK'
    BY <2>1 DEF IInv, ControlOK
  <2>3. FlagsOK'
    BY <2>1 DEF IInv, FlagsOK
  <2>4. PoolOK'
    BY <1>1, <2>1 DEF PoolOK
  <2>5. OneSource'
    BY <2>1 DEF IInv, OneSource
  <2> QED BY <2>2, <2>3, <2>4, <2>5 DEF IInv
<1> QED BY <1>2, <1>3

\* The prompt of a mode starts.
LEMMA ModePromptGood ==
  ASSUME IInv, ModePrompt
  PROVE  IInv'
<1>1. ControlOK'
  BY DEF IInv, ControlOK, ModePrompt, power
<1>2. FlagsOK'
  BY DEF IInv, FlagsOK, ModePrompt, media, power
<1>3. PoolOK'
  BY DEF IInv, PoolOK, PoolOf, ModePrompt
<1>4. OneSource'
  BY DEF IInv, OneSource, ModePrompt
<1> QED BY <1>1, <1>2, <1>3, <1>4 DEF IInv

\* The end of a prompt, which may be the power-off prompt.
LEMMA PromptEndsGood ==
  ASSUME IInv, PromptEnds
  PROVE  IInv'
<1>1. CASE prompt = "off" /\ ~down
  BY <1>1, PowerdownGood DEF IInv, PoolOK, PromptEnds
<1>2. CASE ~(prompt = "off" /\ ~down)
  <2>1. /\ prompt' = "none"
        /\ UNCHANGED <<sys_work_mode, pc, media, pool, linked, line_audio, fat, power>>
    BY <1>2 DEF PromptEnds
  <2>2. ControlOK'
    BY <2>1 DEF IInv, ControlOK, power
  <2>3. FlagsOK'
    BY <2>1 DEF IInv, FlagsOK, media, power
  <2>4. PoolOK'
    BY <2>1 DEF IInv, PoolOK
  <2>5. OneSource'
    BY <2>1 DEF IInv, OneSource
  <2> QED BY <2>2, <2>3, <2>4, <2>5 DEF IInv
<1> QED BY <1>1, <1>2

\* A hang-up is confirmed.
LEMMA HungUpGood ==
  ASSUME IInv, HungUp
  PROVE  IInv'
<1>1. ControlOK'
  BY DEF IInv, ControlOK, HungUp, audio
<1>2. FlagsOK'
  BY DEF IInv, FlagsOK, HungUp, media, audio
<1>3. PoolOK'
  BY DEF IInv, PoolOK, HungUp
<1>4. OneSource'
  BY DEF IInv, OneSource, HungUp, audio
<1> QED BY <1>1, <1>2, <1>3, <1>4 DEF IInv

\* What waits when a mode has been let in is handled in it, and leaves room for
\* the two messages of a failed start.
LEMMA LoopPool ==
  ASSUME IInv, PreEntered
  PROVE  PoolOf(pool, "loop") /\ Len(pool) \in Nat /\ Len(pool) <= MaxEnv + 1
BY DEF IInv, PoolOK, PoolOf, PreEntered

\* Bluetooth and the line input are let in, unless stopping the prompt switches
\* off.
LEMMA EnterGood ==
  ASSUME IInv, EnterBt \/ EnterLine
  PROVE  IInv'
<1>1. CASE app_powerdown_action
  BY <1>1, ResetGood
<1>2. CASE ~app_powerdown_action
  <2>1. /\ pc' = "loop"
        /\ PoolOf(pool, "loop") /\ Len(pool) \in Nat /\ Len(pool) <= MaxEnv + 1
    BY <1>2, LoopPool DEF EnterBt, EnterLine
  <2>2. ControlOK'
    BY <1>2 DEF IInv, ControlOK, EnterBt, EnterLine, power
  <2>3. FlagsOK'
    BY <1>2 DEF IInv, FlagsOK, EnterBt, EnterLine, media, power
  <2>4. PoolOK'
    <3>1. PoolOf(Post(pool, "line_detach"), "loop")
      BY <2>1, PostGood DEF Kind
    <3>2. pool' = pool \/ pool' = Post(pool, "line_detach")
      BY <1>2 DEF EnterBt, EnterLine
    <3> QED BY <2>1, <3>1, <3>2 DEF PoolOK
  <2>5. OneSource'
    BY <1>2 DEF IInv, OneSource, EnterBt, EnterLine, PreEntered
  <2> QED BY <2>2, <2>3, <2>4, <2>5 DEF IInv
<1> QED BY <1>1, <1>2

\* A player is let in, whatever goes wrong when it starts.
LEMMA EnterDiskGood ==
  ASSUME IInv, EnterDisk
  PROVE  IInv'
<1>1. /\ PreEntered /\ pc' = "loop" /\ sys_work_mode \in Disk
      /\ UNCHANGED <<sys_work_mode, media, prompt, linked, line_audio, power>>
  BY DEF EnterDisk
<1>2. PICK buffers \in BOOLEAN, ready \in BOOLEAN :
        /\ fat' = buffers \/ UNCHANGED fat
        /\ LET one == IF buffers THEN pool ELSE Post(pool, "change")
           IN  pool' = IF ready THEN one ELSE Post(one, "change")
  <2>1. CASE linked
    <3>1. pool' = Post(pool, "change") /\ UNCHANGED fat
      BY <2>1 DEF EnterDisk
    <3> QED BY <3>1
  <2>2. CASE ~linked
    <3>1. PICK buffers \in BOOLEAN, mounted \in BOOLEAN, music \in BOOLEAN :
            /\ fat' = buffers
            /\ LET one == IF buffers THEN pool ELSE Post(pool, "change")
               IN  pool' = IF mounted /\ music THEN one ELSE Post(one, "change")
      BY <2>2 DEF EnterDisk
    <3>2. (mounted /\ music) \in BOOLEAN
      OBVIOUS
    <3> QED BY <3>1, <3>2
  <2> QED BY <2>1, <2>2
<1>3. ControlOK'
  BY <1>1 DEF IInv, ControlOK, power
<1>4. FlagsOK'
  BY <1>1, <1>2 DEF IInv, FlagsOK, media, power
<1>5. PoolOK'
  <2> DEFINE one == IF buffers THEN pool ELSE Post(pool, "change")
  <2>1. PoolOf(pool, "loop") /\ Len(pool) \in Nat /\ Len(pool) <= MaxEnv + 1
    BY <1>1, LoopPool
  <2>2. PoolOf(Post(pool, "change"), "loop") /\ Len(Post(pool, "change")) = Len(pool) + 1
    <3>1. PoolOf(Post(pool, "change"), "loop")
      BY <2>1, PostGood DEF Kind
    <3>2. Len(Post(pool, "change")) = Len(pool) + 1
      BY <2>1 DEF PoolOf, Post
    <3> QED BY <3>1, <3>2
  <2>3. PoolOf(one, "loop") /\ Len(one) <= MaxEnv + 2
    BY <2>1, <2>2
  <2> HIDE DEF one
  <2>4. Len(one) \in Nat
    BY <2>3 DEF PoolOf
  <2>5. PoolOf(Post(one, "change"), "loop")
    BY <2>3, <2>4, PostGood DEF Kind
  <2>6. pool' = one \/ pool' = Post(one, "change")
    BY <1>2 DEF one
  <2> QED BY <1>1, <2>3, <2>5, <2>6 DEF PoolOK
<1>6. OneSource'
  BY <1>1, <1>2 DEF IInv, OneSource, Disk
<1> QED BY <1>3, <1>4, <1>5, <1>6 DEF IInv

-----------------------------------------------------------------------------
\* The theorems.

\* The machine starts as a loudspeaker without a phone.
LEMMA InitIInv == Init => IInv
<1> SUFFICES ASSUME Init PROVE IInv
  OBVIOUS
<1>1. ControlOK
  BY DEF Init, ControlOK, Mode
<1>2. FlagsOK
  BY DEF Init, FlagsOK
<1>3. PoolOK
  BY DEF Init, PoolOK, PoolOf
<1>4. OneSource
  BY DEF Init, OneSource
<1> QED BY <1>1, <1>2, <1>3, <1>4 DEF IInv

\* Whatever arrives in whichever phase keeps the invariant.
LEMMA NextIInv == IInv /\ [Next]_vars => IInv'
<1> SUFFICES ASSUME IInv, [Next]_vars PROVE IInv'
  OBVIOUS
<1>1. CASE LineChange \/ SdChange \/ UsbChange \/ KeyMode \/ KeyPower
  BY <1>1, ArrivalGood
<1>2. CASE LinkUp \/ LinkDown \/ Enumerate \/ BT_msg_handler
  BY <1>2, LinkGood, EnumerateGood, DropGood
<1>3. CASE common_msg_handler
  <2>1. pc \in {"first_turn", "pre_enter", "loop"} /\ pool # <<>>
    BY <1>3 DEF common_msg_handler
  <2> QED BY <1>3, <2>1, SwitchGood, PowerKeyGood, ResetGood
          DEF common_msg_handler, MediaPowerOff
<1>4. CASE Boot \/ Waited \/ PowerOn \/ PreEnter \/ ModePrompt \/ PromptEnds \/ HungUp
  BY <1>4, BootGood, WaitedGood, PreEnterGood, ModePromptGood, PromptEndsGood,
     HungUpGood
<1>5. CASE EnterBt \/ EnterLine \/ EnterDisk
  BY <1>5, EnterGood, EnterDiskGood
<1>6. CASE PowerTask
  BY <1>6, ResetGood DEF PowerTask
<1>7. CASE UNCHANGED vars
  <2>1. ControlOK'
    BY <1>7 DEF IInv, ControlOK, vars, audio, power
  <2>2. FlagsOK'
    BY <1>7 DEF IInv, FlagsOK, vars, media, audio, power
  <2>3. PoolOK'
    BY <1>7 DEF IInv, PoolOK, vars
  <2>4. OneSource'
    BY <1>7 DEF IInv, OneSource, vars, audio
  <2> QED BY <2>1, <2>2, <2>3, <2>4 DEF IInv
<1> QED BY <1>1, <1>2, <1>3, <1>4, <1>5, <1>6, <1>7 DEF Next

\* The inductive invariant holds always.
THEOREM Inductive == Spec => []IInv
BY InitIInv, NextIInv, PTL DEF Spec

\* Modes, phases and messages are among those there are, and the pool never
\* holds more than three messages beyond those of interrupts and keys.
THEOREM TypeCorrect == Spec => []TypeOK
BY Inductive, IInvImplies, PTL

\* exit_work_mode gives back what the mode held on every way out of it, so the
\* line input and the file system are never in use by another mode, whatever
\* phones do meanwhile.
THEOREM SourceIsExclusive == Spec => []OneSource
BY Inductive, IInvImplies, PTL

\* pre_enter_mode_handle empties the pool on every way into a mode, so that
\* common_msg_handler never acts on a request of the mode before.
THEOREM RequestsAreCurrent == Spec => []NoStaleRequest
BY Inductive, IInvImplies, PTL
=============================================================================
