------------------------------- MODULE WorkMode -------------------------------
(***************************************************************************)
(* The four things the device can be - a Bluetooth loudspeaker, an         *)
(* amplifier of its line input, a player of a USB stick or of an SD card - *)
(* and how it goes from one to another: the dispatch loop of main, the     *)
(* handler of each mode, pre_enter_mode_handle and the mode messages of    *)
(* common_msg_handler.                                                     *)
(*                                                                         *)
(* Media come and go at any time, in interrupts, which note the change and *)
(* post a message.  The main loop acts on the message later, when the      *)
(* medium may be gone again, and throws messages away: all of them when it *)
(* enters a mode, most of them while it leaves Bluetooth.                  *)
(*                                                                         *)
(* Phones come and go at any time as well, in every mode: a page that was  *)
(* on its way is answered, a profile follows, the phone calls a device     *)
(* whose scan was left on.  A mode other than Bluetooth waits for them to  *)
(* go before it is let in.                                                 *)
(*                                                                         *)
(* Switching the device off cuts across all this.  The power-off prompt    *)
(* carries the callback that does it; with a phone connected the callback  *)
(* only hangs up, and leaves the rest to a timer that each event of the    *)
(* hang-up starts anew, and that leaving Bluetooth stops.                  *)
(*                                                                         *)
(* Not here: the tuner, low battery and the coexistence builds.            *)
(***************************************************************************)
EXTENDS Naturals, Sequences

CONSTANTS MaxEnv     \* bound: messages that interrupts and keys have waiting

ASSUME WorkModeAssumption == MaxEnv \in Nat \ {0}

Disk == {"UDISK", "SD"}
Medium == Disk \cup {"LINEIN"}
Mode == Medium \cup {"BT"}

VARIABLES sys_work_mode,
          pc,         \* boot, entry of a handler, the first turn of
                      \* pre_enter_mode_handle and the others, the handler's
                      \* loop, its end; or the device is off
          line,       \* linein_status; the line input is plugged
          sd,         \* SDOnline
          usb,        \* UdeviceConnectFlag
          enumerated, \* the stick can be read: udisk_is_enumerated()
          enumerating,\* usb_host_enumerate_task is pending
          pool,       \* the message pool, oldest first
          prompt,     \* the prompt that is playing: "off" has app_powerdown as
                      \* its func
          linked,     \* APP_AUDIO_FLAG_SET: a phone is connected
          line_audio, \* linein_audio_flag: the line input is being amplified
          fat,        \* the buffers of the file system are allocated
          stopping,   \* usb_tf_aux_in_out_flag
          down,       \* APP_FLAG_POWERDOWN
          task,       \* app_bt_common_task is to call app_powerdown_action
          ending      \* what a hang-up for power-down still waits for

media == <<line, sd, usb, enumerated, enumerating>>
audio == <<prompt, linked, line_audio, fat>>
power == <<stopping, down, task, ending>>
vars == <<sys_work_mode, pc, media, pool, audio, power>>

Kind == {"line_attach", "line_detach", "sd_attach", "sd_detach",
         "usb_device", "udisk_ok", "usb_detach", "change", "power"}
MediaChange == Kind \ {"usb_device", "change", "power"}

\* A message, and (history) the mode in which it was posted, "gone" once that
\* mode was left.
Message == [kind : Kind, when : {"now", "gone"}]
Post(s, k) == Append(s, [kind |-> k, when |-> "now"])
Aged(s) == [i \in DOMAIN s |-> [s[i] EXCEPT !.when = "gone"]]

\* linein_is_attached(), sd_is_attached(), udisk_is_enumerated().
Attached(m) ==
  CASE m = "LINEIN" -> line
    [] m = "SD"     -> sd
    [] m = "UDISK"  -> enumerated

TypeOK ==
  /\ sys_work_mode \in Mode
  /\ pc \in {"boot", "entry", "first_turn", "pre_enter", "loop", "waiting", "off"}
  /\ {line, sd, usb, enumerated, enumerating} \subseteq BOOLEAN
  /\ pool \in Seq(Message) /\ Len(pool) <= MaxEnv + 3
  /\ prompt \in {"none", "plain", "off"}
  /\ {linked, line_audio, fat, stopping, down, task} \subseteq BOOLEAN
  /\ ending \in {"no", "link", "unit"}

Init ==
  /\ sys_work_mode = "BT" /\ pc = "boot"
  /\ line = FALSE /\ sd = FALSE /\ usb = FALSE
  /\ enumerated = FALSE /\ enumerating = FALSE
  /\ pool = <<>>
  /\ prompt \in {"none", "plain"}
  /\ linked = FALSE /\ line_audio = FALSE /\ fat = FALSE
  /\ stopping = FALSE /\ down = FALSE /\ task = FALSE /\ ending = "no"

------------------------------------------------------------------------------
\* Interrupts and keys.

MayPost == pc # "off" /\ Len(pool) < MaxEnv

\* linein_attach_judge and linein_detach_judge, once the level is stable.
LineChange ==
  /\ MayPost
  /\ line' = ~line
  /\ pool' = Post(pool, IF line THEN "line_detach" ELSE "line_attach")
  /\ UNCHANGED <<sys_work_mode, pc, sd, usb, enumerated, enumerating, audio, power>>

\* sd_detect_fun, once the level is stable.
SdChange ==
  /\ MayPost
  /\ sd' = ~sd
  /\ pool' = Post(pool, IF sd THEN "sd_detach" ELSE "sd_attach")
  /\ UNCHANGED <<sys_work_mode, pc, line, usb, enumerated, enumerating, audio, power>>

\* The connect and disconnect interrupts of the USB controller; the second has
\* MUSB_HfiDeviceRemoved called.
UsbChange ==
  /\ MayPost
  /\ usb' = ~usb
  /\ enumerated' = FALSE
  /\ pool' = Post(pool, IF usb THEN "usb_detach" ELSE "usb_device")
  /\ UNCHANGED <<sys_work_mode, pc, line, sd, enumerating, audio, power>>

\* The MODE key; keys are not scanned during a power-down.
KeyMode ==
  /\ pc # "boot" /\ ~down
  /\ MayPost
  /\ pool' = Post(pool, "change")
  /\ UNCHANGED <<sys_work_mode, pc, media, audio, power>>

\* The power key, or nothing to do for too long.
KeyPower ==
  /\ pc # "boot" /\ ~down
  /\ MayPost
  /\ pool' = Post(pool, "power")
  /\ UNCHANGED <<sys_work_mode, pc, media, audio, power>>

\* BTms_Sched handles the events of the phone in every loop but the few that
\* lie between two phases.
Turning == pc \notin {"entry", "off"}

\* A profile comes up, app_bt_profile_conn_wrap: no test of the mode, and outside
\* Bluetooth app_bt_conn_compl_wrap has not hung up either.  The first one has
\* its prompt played, unless that of the power-off is.
LinkUp ==
  /\ Turning /\ ~linked
  /\ linked' = TRUE
  /\ prompt' \in IF prompt = "none" /\ ~down THEN {"none", "plain"} ELSE {prompt}
  /\ UNCHANGED <<sys_work_mode, pc, media, pool, line_audio, fat, power>>

\* The last of them goes, or the link with all of them.
LinkDown ==
  /\ Turning /\ linked
  /\ linked' = FALSE
  /\ UNCHANGED <<sys_work_mode, pc, media, pool, prompt, line_audio, fat, power>>

------------------------------------------------------------------------------
\* Enumeration of a stick, a task of the main loop that arms itself again.

\* usb_enumberator succeeds, and MUSB_HfiAddDevice posts; or it gives up.
Enumerate ==
  /\ enumerating
  /\ pc # "entry"
  /\ enumerating' = FALSE
  /\ \/ /\ usb /\ ~enumerated
        /\ enumerated' = TRUE
        /\ Len(pool) <= MaxEnv
        /\ pool' = Post(pool, "udisk_ok")
     \/ ~enumerated /\ UNCHANGED <<enumerated, pool>>
  /\ UNCHANGED <<sys_work_mode, pc, line, sd, usb, audio, power>>

------------------------------------------------------------------------------
\* Which mode is next.

\* Main.c: the choice after start-up.
BootMode ==
  CASE Attached("UDISK")                                            -> "UDISK"
    [] ~Attached("UDISK") /\ Attached("SD")                         -> "SD"
    [] ~Attached("UDISK") /\ ~Attached("SD") /\ Attached("LINEIN")  -> "LINEIN"
    [] \A m \in Medium : ~Attached(m)                               -> "BT"

\* system_work_mode_change_button: the next mode, in the order of the
\* enumeration, whose medium is there; after the last comes Bluetooth.
Order == <<"BT", "LINEIN", "UDISK", "SD">>
After(m) ==
  LET here == CHOOSE i \in 1 .. 4 : Order[i] = m
      next == {i \in here + 1 .. 4 : Attached(Order[i])}
  IN  IF next = {} THEN "BT"
      ELSE Order[CHOOSE i \in next : \A j \in next : i <= j]

\* What a message asks for: system_mode_shift_for_*_change and the MODE key.
Wanted(k) ==
  LET Second(m) == IF Attached(m) THEN m
                   ELSE IF Attached("LINEIN") THEN "LINEIN" ELSE "BT"
  IN  CASE k = "line_attach" -> "LINEIN"
        [] k = "sd_attach"   -> "SD"
        [] k = "udisk_ok"    -> "UDISK"
        [] k = "line_detach" -> IF sys_work_mode = "LINEIN" THEN "BT" ELSE sys_work_mode
        [] k = "sd_detach"   -> IF sys_work_mode = "SD" THEN Second("UDISK") ELSE sys_work_mode
        [] k = "usb_detach"  -> IF sys_work_mode = "UDISK" THEN Second("SD") ELSE sys_work_mode
        [] k = "change"      -> After(sys_work_mode)
        [] k \in {"usb_device", "power"} -> sys_work_mode

------------------------------------------------------------------------------
\* Leaving a mode.

\* Mutant: the buffers of the file system are not freed.
ExitLeaky ==
  /\ line_audio' = (line_audio /\ sys_work_mode # "LINEIN")
  /\ linked' = (linked /\ sys_work_mode # "BT")
  /\ task' = (task /\ sys_work_mode # "BT")
  /\ UNCHANGED fat

\* exit_work_mode: app_player_unload, app_linein_exit, or the end of the links
\* and of app_bt_common_task.
exit_work_mode ==
  /\ line_audio' = (line_audio /\ sys_work_mode # "LINEIN")
  /\ fat' = (fat /\ sys_work_mode \notin Disk)
  /\ linked' = (linked /\ sys_work_mode # "BT")
  /\ task' = (task /\ sys_work_mode # "BT")

\* common_msg_handler, for a message that may ask for a mode.  A switch of mode
\* ends the handler; bt_mode_msg_handler first waits for the prompt and the links.
Switch ==
  LET k == Head(pool).kind
      mode == Wanted(k)
  IN  /\ k # "power"
      /\ ~(stopping /\ k \in MediaChange)
      /\ enumerating' = (enumerating \/ k = "usb_device")
      /\ IF mode = sys_work_mode
         THEN /\ pool' = Tail(pool)
              /\ UNCHANGED <<sys_work_mode, pc, linked, line_audio, fat, task>>
         ELSE /\ exit_work_mode
              /\ sys_work_mode' = mode
              /\ pool' = Aged(Tail(pool))
              /\ pc' = IF sys_work_mode = "BT" /\ pc = "loop"
                       THEN "waiting" ELSE "entry"
      /\ UNCHANGED <<line, sd, usb, enumerated, prompt, stopping, down, ending>>

------------------------------------------------------------------------------
\* Switching off.

\* app_powerdown_action: what was in memory is lost.
app_powerdown_action ==
  /\ sys_work_mode' = "BT" /\ pc' = "off"
  /\ line' = FALSE /\ sd' = FALSE /\ usb' = FALSE
  /\ enumerated' = FALSE /\ enumerating' = FALSE
  /\ pool' = <<>> /\ prompt' = "none"
  /\ linked' = FALSE /\ line_audio' = FALSE /\ fat' = FALSE
  /\ stopping' = FALSE /\ down' = FALSE /\ task' = FALSE /\ ending' = "no"

\* app_powerdown, which leaves the messages s and the prompt p.
app_powerdown(s, p) ==
  IF sys_work_mode = "BT" /\ linked
  THEN /\ down' = TRUE /\ task' = TRUE /\ ending' = "link"
       /\ linked' = FALSE
       /\ pool' = s /\ prompt' = p
       /\ stopping' = TRUE
       /\ UNCHANGED <<sys_work_mode, pc, media, line_audio, fat>>
  ELSE app_powerdown_action

\* app_button_powerdown: not a second time, once app_powerdown has run.  The
\* callback is run at once if there is no prompt to play, or the power-off
\* prompt plays already.
PowerKey ==
  /\ Head(pool).kind = "power"
  /\ \/ ~down /\ app_powerdown(Tail(pool), prompt)
     \/ /\ down \/ prompt # "off"
        /\ stopping' = TRUE
        /\ pool' = Tail(pool)
        /\ prompt' = IF down THEN prompt ELSE "off"
        /\ UNCHANGED <<sys_work_mode, pc, media, linked, line_audio, fat>>
        /\ UNCHANGED <<down, task, ending>>

\* After the power key a change of media switches off at once.
MediaPowerOff ==
  /\ stopping /\ Head(pool).kind \in MediaChange
  /\ app_powerdown_action

\* app_bt_disconn_wrap, and app_bt_disable_complete_wrap after it: each starts
\* the timer anew.
HungUp ==
  /\ ending # "no"
  /\ pc # "entry"
  /\ ending' = IF ending = "link" THEN "unit" ELSE "no"
  /\ task' = TRUE
  /\ UNCHANGED <<sys_work_mode, pc, media, pool, audio, stopping, down>>

\* The timer of app_bt_common_task.
PowerTask ==
  /\ task
  /\ pc # "entry"
  /\ app_powerdown_action

\* The power key wakes the chip, which starts from reset.
PowerOn ==
  /\ pc = "off"
  /\ pc' = "boot"
  /\ prompt' \in {"none", "plain"}
  /\ UNCHANGED <<sys_work_mode, media, pool, linked, line_audio, fat, power>>

------------------------------------------------------------------------------
\* Start-up, and the wait at the end of Bluetooth mode.

\* BT_msg_handler: timers and a new USB device are seen to, the rest is dropped.
BT_msg_handler ==
  /\ pc \in {"boot", "waiting"}
  /\ pool # <<>>
  /\ pool' = Tail(pool)
  /\ enumerating' = (enumerating \/ Head(pool).kind = "usb_device")
  /\ UNCHANGED <<sys_work_mode, pc, line, sd, usb, enumerated, audio, power>>

\* 250 ticks have passed and the start-up prompt is over.
Boot ==
  /\ pc = "boot"
  /\ prompt = "none"
  /\ sys_work_mode' = BootMode
  /\ pc' = "entry"
  /\ UNCHANGED <<media, pool, audio, power>>

\* 100 ticks, or 400 while a prompt plays.
Waited ==
  /\ pc = "waiting"
  /\ pc' = "entry"
  /\ UNCHANGED <<sys_work_mode, media, pool, audio, power>>

------------------------------------------------------------------------------
\* Entering a mode.

\* Mutant: messages of the old mode stay in the pool.
EnterUncleared ==
  /\ pc = "entry"
  /\ pc' = "first_turn"
  /\ prompt' = "none"
  /\ UNCHANGED <<sys_work_mode, media, pool, linked, line_audio, fat, power>>

\* Mutant: the prompt is stopped, and its callback is not called.
EnterSilenced ==
  /\ pc = "entry"
  /\ pc' = "first_turn"
  /\ pool' = <<>>
  /\ enumerating' \in {enumerating, FALSE}
  /\ task' \in {task, FALSE}
  /\ prompt' = "none"
  /\ UNCHANGED <<sys_work_mode, line, sd, usb, enumerated, linked, line_audio, fat>>
  /\ UNCHANGED <<stopping, down, ending>>

\* The first part of pre_enter_mode_handle.  With the pool go the callbacks of
\* the enumeration and of the power-down, if they were in there.  A prompt that
\* plays is stopped.
PreEnter ==
  /\ pc = "entry"
  /\ IF prompt = "off" /\ ~down
     THEN app_powerdown(<<>>, "none")
     ELSE /\ pc' = "first_turn"
          /\ pool' = <<>>
          /\ enumerating' \in {enumerating, FALSE}
          /\ task' \in {task, FALSE}
          /\ prompt' = "none"
          /\ UNCHANGED <<sys_work_mode, line, sd, usb, enumerated>>
          /\ UNCHANGED <<linked, line_audio, fat, stopping, down, ending>>

\* The prompt of the mode starts at the end of the first turn of the loop, which
\* handles a message (here any number of them).  It is refused during a
\* power-down and while the power-off prompt plays, and may be missing.
ModePrompt ==
  /\ pc = "first_turn"
  /\ prompt # "off" /\ ~down
  /\ pc' = "pre_enter"
  /\ prompt' = "plain"
  /\ UNCHANGED <<sys_work_mode, media, pool, linked, line_audio, fat, power>>

\* The prompt ends, or is stopped after five seconds; its callback is called.
PromptEnds ==
  /\ prompt # "none"
  /\ pc # "entry"
  /\ IF prompt = "off" /\ ~down
     THEN app_powerdown(pool, "none")
     ELSE /\ prompt' = "none"
          /\ UNCHANGED <<sys_work_mode, pc, media, pool, linked, line_audio, fat, power>>

\* common_msg_handler, called by the loop of pre_enter_mode_handle and by those of
\* the handlers.
common_msg_handler ==
  /\ pc \in {"first_turn", "pre_enter", "loop"}
  /\ pool # <<>>
  /\ Switch \/ PowerKey \/ MediaPowerOff

\* Mutant: Bluetooth waits for the phone to go, as the other modes do.
PreEnteredAlone ==
  \/ pc = "first_turn"
  \/ pc = "pre_enter" /\ prompt = "none" /\ ~linked

\* pre_enter_mode_handle returns at once if the prompt of the mode is refused.  If
\* not, it waits for the prompt, and outside Bluetooth for the phone to go.
PreEntered ==
  \/ pc = "first_turn"
  \/ /\ pc = "pre_enter"
     /\ prompt = "none"
     /\ linked => sys_work_mode = "BT"

\* app_bt_acl_time_out_wrap starts Bluetooth afresh.
EnterBt ==
  /\ PreEntered
  /\ sys_work_mode = "BT"
  /\ linked' = FALSE
  /\ pc' = "loop"
  /\ UNCHANGED <<sys_work_mode, media, pool, prompt, line_audio, fat, power>>

\* Mutant: the input is taken to be there still.
EnterLineBlind ==
  /\ PreEntered
  /\ sys_work_mode = "LINEIN" /\ (prompt = "off" => down)
  /\ line_audio' = TRUE
  /\ prompt' = "none"
  /\ pc' = "loop"
  /\ UNCHANGED <<sys_work_mode, media, pool, linked, fat, power>>

\* app_linein_enter, which stops the prompt, and the test that follows it.
EnterLine ==
  /\ PreEntered
  /\ sys_work_mode = "LINEIN"
  /\ IF prompt = "off" /\ ~down
     THEN app_powerdown_action
     ELSE /\ line_audio' = TRUE
          /\ prompt' = "none"
          /\ pool' = IF line THEN pool ELSE Post(pool, "line_detach")
          /\ pc' = "loop"
          /\ UNCHANGED <<sys_work_mode, media, linked, fat, power>>

\* media_start_task and app_player_file_info_init.  It may fail: a phone is
\* connected, the buffers cannot be allocated, the file system cannot be mounted
\* (not without its medium), there is no music on it.  The second of these does
\* not stop the third from being tried.
EnterDisk ==
  /\ PreEntered
  /\ sys_work_mode \in Disk
  /\ pc' = "loop"
  /\ \/ /\ linked
        /\ pool' = Post(pool, "change")
        /\ UNCHANGED fat
     \/ /\ ~linked
        /\ \E buffers, mounted, music \in BOOLEAN :
             LET one == IF buffers THEN pool ELSE Post(pool, "change")
             IN  /\ mounted => buffers /\ Attached(sys_work_mode)
                 /\ fat' = buffers
                 /\ pool' = IF mounted /\ music THEN one ELSE Post(one, "change")
  /\ UNCHANGED <<sys_work_mode, media, prompt, linked, line_audio, power>>

------------------------------------------------------------------------------
\* The main loop goes on from one phase to the next.
Proceed ==
  Boot \/ Waited \/ PreEnter \/ ModePrompt \/ EnterBt \/ EnterLine \/ EnterDisk

Next ==
  \/ LineChange \/ SdChange \/ UsbChange \/ KeyMode \/ KeyPower
  \/ LinkUp \/ LinkDown
  \/ Enumerate
  \/ common_msg_handler \/ BT_msg_handler
  \/ Boot \/ Waited \/ PreEnter \/ ModePrompt
  \/ EnterBt \/ EnterLine \/ EnterDisk
  \/ PromptEnds
  \/ HungUp \/ PowerTask \/ PowerOn

Spec == Init /\ [][Next]_vars

\* The main loop turns; a turn handles at most one message and then looks
\* whether the phase is over, so messages that keep coming do not hold it up.
\* Phones and prompts come and go in these turns, each of which tests for them:
\* one that ends is seen to have ended, even if another follows (SF; no turn has
\* time for both).  A prompt ends: by its length, or by the timeout of
\* pre_enter_mode_handle.  Timers expire, and a hang-up is confirmed, by the phone
\* or by its supervision timeout.  Of media, keys and phones nothing else is
\* assumed.
FairSpec ==
  /\ Spec
  /\ WF_vars(common_msg_handler \/ BT_msg_handler)
  /\ SF_vars(Proceed)
  /\ WF_vars(PromptEnds)
  /\ WF_vars(HungUp)
  /\ WF_vars(PowerTask)

------------------------------------------------------------------------------
\* The audio has one source, that of the mode, and a mode that is left gives
\* back what it held: whatever interrupted its entry (exit_work_mode is also
\* called for a mode that pre_enter_mode_handle never let in).
OneSource ==
  /\ line_audio => sys_work_mode = "LINEIN" /\ pc = "loop"
  /\ fat => sys_work_mode \in Disk /\ pc = "loop"

\* A request made in one mode never takes effect in the next: the second of the
\* two changes a failed start posts, or a MODE key pressed too often, does not
\* carry the device past the mode it has just chosen.
NoStaleRequest ==
  pc \in {"first_turn", "pre_enter", "loop"} =>
    \A i \in DOMAIN pool : pool[i].when = "now"

\* From some time on nobody asks for another mode.
Settled == <>[][sys_work_mode' = sys_work_mode]_vars

\* pre_enter_mode_handle waits for a phone that is connected outside Bluetooth.
Held == pc = "pre_enter" /\ linked /\ sys_work_mode # "BT"

\* Entering a mode comes to an end, unless others are asked for without end:
\* neither prompts, nor messages, nor phones that come and go hold it up.  There is
\* one exception: a phone that connects outside Bluetooth does so for as long as it
\* stays, for the timeout of pre_enter_mode_handle only stops the prompt.
EntryEnds == Settled => []<>(pc \in {"loop", "off"}) \/ <>[]Held

\* A mode whose medium is gone is left, even if the message that would say so
\* was thrown away: on entering the mode, or while Bluetooth was left.  The same
\* phone may keep the mode from being let in, and so from being left.
MissingMediumIsLeft ==
  Settled => []<>(sys_work_mode \in Medium => Attached(sys_work_mode)) \/ <>[]Held

\* The power key switches the device off, whatever prompts, messages and media
\* do, with one exception: a MODE key handled after the hang-up has begun leaves
\* Bluetooth and stops the timer, and no event is left to start it anew (or the
\* callback was among the messages thrown away).
PowerDownEnds ==
  stopping ~> \/ pc = "off"
              \/ down /\ ~task /\ ending = "no"
==============================================================================
