# Verification of the BK3268 dual-mode firmware

The repository is the firmware of a Bluetooth audio chip with a printer front
end: a single-threaded C program on bare metal (`host/port/beken_no_os`), a
classic Bluetooth host and a controller that are prebuilt libraries (only their
headers are here), an RW BLE stack, and a DSP reached through mailbox registers.
There is one main loop at a time (one per work mode) and a set of interrupt
handlers. The configuration modelled is the one of `host/config/config.h`:
`BT_MODE_1V1`, MP3 player, SD card, USB, AEC, BLE; TWS, OTA and FM are off.

## Inventory

| Component | State | Operations | Interacts with | What is hard |
|---|---|---|---|---|
| message pool (`msg.c`) | ring of 32 slots, two free-running indices, status word | put, get, clear | every interrupt posts, the main loop posts and reads | a check outside the masked section, full and empty with equal indices, index wrap |
| software timers (`timer.c`) | sorted list, `is_pending`, tick counter | init, reset, stop, uninit, tick | callbacks go through the pool | interrupts inside list walks, retry when the pool is full |
| settings sector (`app_env.c`, `driver_flash.c`) | 8 tagged blocks, RAM copy | read, save, erase | pairing, volumes, player | power failure anywhere |
| paired devices (`app_env.c`, `app_bt.c`) | key table, index, default device | pair, connect, key missing, clear, deferred write | pool, flash, controller's key list | deferred requests meet later state, eviction, restart |
| DSP control (`driver_audio.c`, `drv_mailbox.c`) | flag byte, mailboxes | open, close, microphone, idle close | mailbox interrupt, timer, pool | lost wake-ups, late answers, waiting for oneself |
| ring buffers, echo canceller (`driver_ringbuff.c`, `app_aec.c`) | read and write pointers | fill, take, size | SCO decoder, DSP | wrap, partial fill, uint16 sizes |
| SBC and A2DP path (`app_sbc.c`, `bt_a2dp_backend.c`, `bt_sco_backend_utils.c`, `app_prompt_wav.c`) | lists of frames, their count, play and discard flags, the DAC | media, start, suspend, call, prompt, decode, throttle | Bluetooth callbacks, controller, DSP | interruptions that overlap, a count kept apart from the list |
| work modes, hot plug, power (`app_protocol.c`, `app_msg.c`, `driver_sdcard.c`, `app_udisk.c`, `app_linein.c`, `Main.c`) | mode, media, prompt, power flags | MODE and power keys, plug, unplug, enter, leave, switch off | pool, players, Bluetooth, timers | a change of mode discards messages; a hang-up must end before the power goes |
| connection control (`app_bt.c`, `bt_unit_backend.c`) | `flag_sm1`, `flag_sm2`, `auto_conn_status`, `retry_count`, `app_auto_con_task` | call the phone, retry, profiles, give up, scan | host library, profiles, keys, modes | one timer for everything, stale callbacks, a page and a link the host has forgotten |
| hands-free (`app_hfp.c`, `bt_hf_backend.c`, `bt_sco_backend_utils.c`) | call flags, SCO state | indicators, commands, SCO | host library, DSP | order of indicators and SCO events |
| BLE application (`rw_ble/project/app`) | `app_env`, connection | advertise, connect, update | RW kernel (library) | message protocol of the kernel |
| prompts, player, keys, LEDs | files, positions, key patterns | play, seek, press | pool, timers | queueing while a mode changes |
| TWS, OTA, FM | | | | not compiled in this configuration |
| drivers, start-up, allocator, equaliser | registers | | | straight-line code |

What makes each modelled component correct is stated with its module below; the
hazards, each at its line, are the list `hazards` of `PROJECT.json`.

## Modules

`MsgPool` is `msg.c`. `msg_lush_put` has an unmasked half (`BeginPut`:
`msg_check`) and a masked half (`Store`, `Refuse`); contexts nest, so an
interrupt may put between the halves. `Get`, `GetNothing` and `msg_clear_all`
are the main loop's. The indices wrap at `Count * Laps`, standing for 2^32: both
are multiples of the ring size. `MsgFifo` is what the rest of the firmware
assumes, a bounded queue; `IsFifo` is the refinement, with the slots from
`out_id` to `in_id` as the queue. `msg_priority_put`, `msg_delay_put`,
`msg_uninit` and `msg_get_pool_status` have no callers and are left out.

`OsTimer` is `timer.c` with the dispatch of `app_msg.c`. The main loop's list
operations are as fine as the compiled code of `Debug/BK3268.dmp`: each turn of
a walk is a step that holds one node in a register (`main.cur`), and the store
that ends a walk writes that register. The tick handler pops (`SwiPost`), puts
back when the pool is full (`SwiRetry`), and ends (`SwiDone`). Expiry times are
kept relative to the tick counter. `Preempt` says whether a tick may come in the
middle of a list operation. On the chip it may; `FALSE` is used to ask whether
the list code is right by itself, and `TRUE` shows what is wrong with it.
`want` is a history variable: the ticks until the owner of the timer wants it.

`EnvFlash` is the settings sector: `Override`, `Skip`, `TakeFree`, `NoneFree`,
`Erase` and `WritePage` are the steps of `app_flash_write_env_data`; the power
may fail at each of them, and an erase cut short leaves any set of blocks
erased. `EnvStorage` is what it promises: the last image saved, or a prefix of
the one being saved. It is deliberately not atomic, because the code is not.
`failed` is a history variable of both: it is set by a power failure during a
save and cleared when the next save begins, so a save can only end early, and
lose pages, through a failure.

`EnvKeys` is the table of paired devices on top of that store: pairing
(`StoreKnown`, `StoreNew`), recorded connections (`ConnDone`), the queued second
write (`HandleWrite`), missing keys, a factory clear, settings, saves cut short.
A save that is cut short leaves the old image, if it had not been overridden yet,
or the first pages of 32 bytes of the new one (`Cut`): an entry has 24 bytes, so
the last one reached may have its address and not its key (`TornKey`), and
`key_index` and the default address may have arrived or not. `order` and `last`
are history variables. The Bluetooth host library is the
environment: links come and go, and its callbacks are the actions.

`AudioDsp` is `aud_open`, `aud_close` and `aud_mic_open` with the mailbox, the
flag byte `s_aud_ADDA_open` and the response timer. A change of the byte by the
main loop is a `Load` and a `Store`; `Answer` is the mailbox interrupt and may
come between them. The DSP is not in the repository (`Take` and the timing of
`Answer` are assumptions): it takes a command and answers it, after any delay.

`SbcQueue` is the way of the music from the L2CAP packet to the decoder. The
controller holds packets (`acl`) and hands them over while it is not throttled;
`Media` is `a2dp_stream_input` down to `sbc_fill_encode_buffer`; `Decode` and
`DropFrames` are the turns of `sbc_do_decode`, which play, wait for a cushion, or
discard what came in before an interruption. `Start`, `Suspend`, `Disconnect`,
`ScoConnect`, `ScoDisconnect`, `CallSetup`, `WaveStart` and `WaveStop` are the
handlers that open and close the DAC for music, calls and prompts. A prompt of
another type than the last one stops that one first, playing or not, and so
renews the music (`RenewQueue`) before it starts. The use list
keeps, as history, whether a frame is still wanted; of the free list only the
length is kept. `played` (history) is what a step gave to the DSP.

`WorkMode` is the dispatch loop of `main`, the handlers of the four modes,
`pre_enter_mode_handle`, `enter_work_mode`, `exit_work_mode` and the MODE branch
of `common_msg_handler`. Card, stick and plug change in interrupts and post
messages; `pc` says where in the entry of a mode the main loop is. A message
carries, as history, whether the mode it was posted in has been left since.
Phones come and go in every mode (`LinkUp`, `LinkDown`: `APP_AUDIO_FLAG_SET`),
because nothing outside Bluetooth hangs up on them: `app_bt_conn_compl_wrap` only
stops the automatic connection there, `exit_work_mode` does not cancel a page on
its way, and `app_bt_profile_conn_wrap` does not look at the mode. The first turn
of `pre_enter_mode_handle` is a phase of its own: it ends in the prompt of the
mode (`ModePrompt`), or in the return if that is refused or missing.
`PowerKey`, `app_powerdown`, `HungUp` and `PowerTask` are switching off, which
waits for the prompt, then for the hang-up, then for a timer. The timer
interrupt's post is taken as a direct firing, lost when the pool is cleared.

`Reconnect` is the automatic connection of `app_bt.c`: `AUTO`
(`APP_FLAG_AUTO_CONNECTION`, after power-on or the connect key) and `RECONN`
(after a loss). Its timer is `app.task`, a callback and its argument; `Expire`
posts it (`posted`), `Dispatch` runs it. Each of the callbacks is an action, cut
by what it finds (`ReconnOver`, `ReconnPage`, `ReconnFree`; `ConnPage`,
`ConnOver`; `ActiveConn`, `AutoConnOk`). `disconn` is `app_bt_disconn_wrap`, and
`Follow` the part of it that decides what is to follow a loss. The host's view
(`link`) and the controller's (`air`) are two variables. The phone may answer a
page or not, drop the link or a profile at any time, call by itself, and start a
call. `Overtake` lets events be handled before a callback that is already
posted, up to `MaxAhead`. `Enter` may find a callback that was posted in the last
turn of `pre_enter_mode_handle`: `app_bt_acl_time_out_wrap` stops only the timer.

The theorems about a component `M` are in `MProofs`, which extends it.

Operators whose comment begins with "Mutant" are plausible mistakes. Each is
named in `PROJECT.json` next to the property that fails when it replaces the
definition after it.

## Runs

| Run | Instance | Shows |
|---|---|---|
| `msg_pool` | 4 slots, indices wrap every 2 turns, 1 interrupt level, 3 messages | types; the status word agrees with the indices; a flash-write request is not doubled; the pool is a FIFO |
| `timer_list` | 3 timers, 2 delays, pool of 2, no preemption | the list is sorted, finite and free of freed nodes; `is_pending` is accurate; a callback is posted only when due |
| `timer_live` | 2 timers, fairness | an expired timer is not lost; the tick handler ends |
| `timer_preempt` | 2 timers, ticks anywhere | **violation**: a timer is pending and not on the list |
| `env_flash` | 3 blocks, 2 pages, 2 values | one readable image; no page programmed twice; `EnvStorage` is implemented |
| `env_flash_torn` | the same | **violation**: a block tagged valid is not whole |
| `env_keys` | 3 devices, table of 2, a key and a torn one | one entry per device, oldest evicted, controller in agreement, last connected device alone active |
| `audio_dsp` | 2 timeouts, DSP answers | no lost wake-up; operations in step; the DSP gets the setting; gates stay open; operations end |
| `audio_dsp_silent` | DSP may not answer | **violation**: the timeout does not end the wait |
| `sbc_queue` | pool of 6 nodes, cushion 3, margin 2, packets of up to 2 frames, 3 packets in the controller, DSP room 2 | no node lost, the count is the length of the list; nothing stale is heard; the DAC is open exactly when needed; playing starts with a cushion; the controller is let go again |
| `work_mode` | all four modes, at most 2 messages of interrupts and keys waiting | a mode gives back what it held; no request outlives its mode; an entry ends and a mode without its medium is left, with one exception; switching off ends, with another |
| `reconnect` | the firmware's retry count of 3, one event ahead of a posted callback | calling the phone ends; an idle device can be connected to, with four exceptions |

Bounds. A ring of four with `Laps = 2` has every relative position of the
indices, wrapped or not, and its size only enters through the theorems below,
which need no bound. Three timers let a node be cut from and placed between two
others; two delays and steps of one and two give equal and different expiries,
several expiries in one tick, and late ones; a pool of two fills up. `Others`
bounds foreign messages. Three blocks give a first, a middle and a last block;
two pages make a save that can be cut short; two values tell images apart. A
table of two with three devices evicts and wraps; of its seven units of 8 bytes
one page holds four, which tears the key of the second entry and loses the index
(in the firmware's six entries one of the pages does the same); a device needs a second key only to have the first
replaced, which pairing after a torn one does as well. `MaxLate = 2` lets a second
timeout fall into the repetition caused by the first, and lets an operation
meet a callback left over by the one before. `SbcQueue` has the real shape in
small (`SBC_MEM_POOL_MAX_NODE` 153, cushion 120, margin 10): the cushion fits
below the mark of throttling, packets of one and two frames straddle it and the
end of the pool, and three held packets let media wait behind a suspend and a
start that the throttled controller has not handed over yet. `WorkMode` needs
two waiting messages for one to be stale by the time the other is handled; its
`first_turn` handles any number of messages where the code handles one, which
only adds behaviours. `Reconnect` has the retry count of the
firmware. With `MaxAhead = 2` two keys, or a key and a loss, are handled while
one callback waits in the pool (a few milliseconds); the callback then replaces
the schedule of an attempt that began after it, and `OpenToPhoneWhenIdle` has
further exceptions. What the bound excludes is this.

Fairness. `OsTimer`: the tick comes for ever (a hardware counter); a handler or
a list operation under way goes on; every turn of every mode loop starts with
`msg_get`, so `Dispatch` is strongly fair. Nothing forces callers to do
anything. `AudioDsp`: the processor runs, the tick does not stop, the main
loop's dispatch as above, and in `FairSpec` the DSP serves its mailboxes and
answers eventually; `SilentSpec` drops the last assumption. `SbcQueue`: the
main loop turns, a DSP whose DAC is open makes room, prompts end (they are
files); nothing is assumed of the phone. `WorkMode`: the main loop turns and
handles at most one message per turn, and each turn tests whether the phase is
over. Phones and prompts begin and end in these turns, so an end is seen before
the next beginning: `Proceed` is strongly fair. Prompts end by their length or by
the timeout of `pre_enter_mode_handle`, timers expire, and a hang-up for the
power-down is confirmed by the phone or by the supervision timeout of the link.
Nothing makes another phone go, and nothing makes keys and media stop: that the
mode is not changed for ever (`Settled`) is a premise of `EntryEnds` and
`MissingMediumIsLeft`. `Reconnect`: the tick, the
main loop, a page ends (`HCI_ERR_PAGE_TIMEOUT`), an enabled unit comes up. That
the user stops pressing the connect key is a premise of `AttemptEnds`.

## What the violations say

* `timer_preempt`. `os_timer_reset` walks past t1 with interrupts enabled; the
  tick pops t1; the node is then linked behind t1, which is on no list. Its flag
  stays set and it never expires. The callers do not mask interrupts.
* `env_flash_torn`. The tag is the first byte of the image, written with its
  first page. The reader checks nothing else.
* `audio_dsp_silent`. The timeout callback is delivered by the main loop, which
  is spinning. In the field the watchdog (cleared only by the main loop) resets
  the chip after half a minute; the watchdog is not modelled.

## What the passing runs know to be wrong

Six behaviours of the code look like defects; the properties name them as
exceptions, so that everything else is checked.

* `sbc_mem_free` (`app_sbc.c` 423) empties the pool and keeps `sbc_ecout`, on
  which the controller is throttled: after a call has freed the pool it can be
  throttled with nothing queued, where the comment (`app_sbc.c` 480) says
  "nearly full". The next fill, restore or start sets the count right, and
  `FlowReopens` holds; `PoolConserved` speaks of the count while the pool is
  allocated.
* Power-down. With a phone linked `app_powerdown` (`app_protocol.c` 2181) only
  schedules `app_powerdown_action` on `app_bt_common_task` and hangs up. A MODE
  message that was waiting then leaves Bluetooth, and `exit_work_mode` (4197 and
  the lines after) stops that task; or `msg_clear_all` throws its callback away.
  The keys are no longer scanned: only a change of media still switches off.
  `PowerDownEnds` excludes this.
* A phone that connects outside Bluetooth while a mode is being entered, because
  its page was on the way when Bluetooth was left, or the scan was on. The loop of
  `pre_enter_mode_handle` (`app_msg.c` 329) goes on while `APP_AUDIO_FLAG_SET`
  holds and the mode is not Bluetooth; nothing there hangs up, and the timeout of
  five seconds stops the prompt only. The mode is not let in as long as the phone
  stays, unless a message asks for another one; if its medium is gone and the
  message that said so was thrown away, it is not left either. `EntryEnds` and
  `MissingMediumIsLeft` exclude this (`Held`).
* A device that cannot be connected to and does nothing about it, the exceptions
  of `OpenToPhoneWhenIdle`. (1) A reconnection has its link, which stops the
  timer, and the phone goes, before the profiles are up, for a reason
  `app_bt_disconn_wrap` has no branch for (0x15, say): RECONN stays set, the
  timer and the scan off. (2) A2DP is given up in an automatic connection, which
  is to end 200 ms later with a retry count above the limit; a link lost in
  these 200 ms stops the timer, and AUTO stays set. (3) The pairing key's flag is
  still pending when a mode change overtakes the hang-up: the next loss schedules
  nothing and leaves AUTO or RECONN set, and `bt_is_reject_new_connect` refuses
  everybody. (4) The memory is cleared during an attempt: the timer is stopped,
  the scan, which paging had switched off, stays off, and there is no phone left
  to call. A key or a change of mode ends each of them.
* The same flag of the pairing key switches the scan on in another mode, where
  the comment at `app_protocol.c` 4204 says "Disable BT scan".
* The retry timer of an automatic connection can fire between the link and its
  authentication: `bt_auto_connect_stop` then ends the attempt and the device
  never opens its profiles; the phone has to.

## Proofs

Every invariant and every action property of the passing runs is a theorem,
for all values of the constants that the assumption of its module admits; so are
the two refinements. Each proof module defines the inductive invariant (`IInv`)
and proves that it holds in the initial states and is kept by every step; the
properties follow from it. TLC has checked each of these invariants on the
instance of its run before it was proved.

| Module | Theorems | For every |
|---|---|---|
| `MsgPoolProofs` | `TypeCorrect`, `StatusCorrect`, `GetReturnsPosted`, `RequestsNotDoubled`, `PoolIsFifo` | ring size, index width, set of messages, depth of nesting |
| `OsTimerProofs` | `TypeCorrect`; with `~Preempt`: `ListIsWellFormed`, `PendingMeansListed`, `NeverEarly` | finite set of timers, bounded delays and steps, size of the pool |
| `EnvFlashProofs` | `TypeCorrect`, `OneValidCorrect`, `ProgramsErasedCorrect`, `SectorIsEnvStorage` | number of blocks, pages, values |
| `EnvKeysProofs` | `TypeCorrect`, `TableStaysWellFormed`, `ControllerHasNoStaleKey`, `LastConnectedIsCalledBack`, `OldestIsEvicted` | set of devices and keys, table of up to 255 entries |
| `AudioDspProofs` | `TypeCorrect`, `NoLostWakeupHolds`, `InStepHolds`, `RequestsReachDsp`, `GatesStayOpen` | number of timeouts |
| `SbcQueueProofs` | `TypeCorrect`, `PoolNeverLeaks`, `OldAudioNeverHeard`, `DacFollowsUsers`, `CushionBeforePlaying` | pool, cushion, margin, packet and room |
| `WorkModeProofs` | `TypeCorrect`, `SourceIsExclusive`, `RequestsAreCurrent` | number of waiting messages |
| `ReconnectProofs` | `TypeCorrect`; with `MaxAhead <= 1`: `OpenWhenIdle` | retry count |

Assumptions. The indices of the message pool wrap at a multiple of the ring size
that is at least twice it. A table of paired devices has at most 255 entries,
because `key_index` is a byte and 0xFF means none (the firmware has 5 or 6).
The sets of timers, delays and steps have a largest element, which is what makes
the expiries bounded. The cushion and the margin of the SBC pool fit in it.

Two conditions are in the theorems themselves, because without them the
statements are false, and TLC shows how.

* `~Preempt`: ticks come between the list operations of `timer.c`. With ticks
  in the middle the list is not sound (`timer_preempt`). The theorems say that
  without such ticks it is; `TypeCorrect` needs no condition.
* `MaxAhead <= 1`: at most one event is handled before a callback that waits in
  the pool. With two, the pairing key and then the connect key overtake a posted
  `bt_create_reconnect_wrap`; it takes the timer of the attempt the second key
  began, and the device is left deaf with AUTO set.

The inductive invariants, and what they add to the properties.

* `MsgPool`. The status is a function of the masked indices only when it is
  known that at most one ring's worth is in use (`MaskedCompare`), so types,
  status and the contents of the slots in use go together. `SameSlot` and
  `WrapKeepsSlot` carry the modular arithmetic. For the refinement, a `Store`
  appends (`StoreAppends`), a `Get` takes the head (`GetRemoves`), everything
  else stutters or clears. For `RequestsNotDoubled`, `CheckStands` says what the
  unmasked half of `msg_lush_put` has found out and that interrupts cannot make
  it untrue, because they post no flash-write requests.
* `OsTimer`. The list is a sequence of n nodes (`ListOK`): no node twice, linked
  in that order, sorted, its nodes alive and, but for the one being moved,
  exactly the pending ones. `WalkOK` says where in the sequence the registers of
  an unfinished walk point, and that what was passed expires no later. The tick,
  the removal of a node and its insertion are lemmas about such sequences; that
  a walk along the links finds the places of the sequence is shown by taking the
  smallest place where it would not. `DueOK` relates expiry and what the owner
  wants.
* `EnvFlash`. `OneValidBlock` is not inductive. `IInv` adds that free blocks are
  erased, that the scan leaves only dead blocks behind, that the sector is all
  dead when it is erased, and what the pages of the block being written are. The
  reader gets the first block that is not dead (`ReadsFirst`); overriding a tag,
  and erasing, change what it gets to the erased image (`ReadsBlank`), and
  writing a page extends the prefix by one.
* `EnvKeys`. The index points to the first free entry, or into a full table
  (`GoodIndex`), and the order of pairing can be read off the table backwards
  from it, around its end (`GoodOrder`); `OldestIsEvicted` follows. The same
  holds of the image in flash (`FlashGood`), which a restart brings back.
  `LastRecorded` adds to `LastConnectedIsActive` that the default address and
  the image agree, unless a save is under way.
* `AudioDsp`. `Counted` is the core: commands not taken, answers not given, the
  bit, and callbacks that are to set it are together no more than the waits they
  can end, plus the timeouts. `AnswerDue` says that a wait has something to wait
  for, `OneUntaken` that only the command of the operation under way is not
  taken, `Timeouts` that without a timeout nothing comes between `Load` and
  `Store` that the byte would lose.
* `SbcQueue`. Media in the controller belongs to a stream that has been started,
  possibly by a packet still in front of it (`MediaAnnounced`); frames wait only
  for music without a call (`QueueBelongs`), and stale ones only under a prompt
  (`StaleUnderPrompt`). Without these, `NoStaleAudio` is not inductive.
* `WorkMode`. From the entry of a mode to the end of its loop the pool holds
  nothing old, and what interrupts post on top of the messages of the entry finds
  room (`PoolOf`). `OneSource` is inductive by itself: what phones do has no
  part in it.
* `Reconnect`. A scheduled callback was asked for by the attempt under way
  (`Asked`); a posted one too, or the event that overtook it has left nothing it
  could disturb (`Overtaken`); and without a link the device listens, or the
  unit that is coming up will (`Coming`), or what is scheduled or posted will end
  or continue the attempt (`Listening`).

Only model-checked:

* liveness, which needs fairness and is out of the prover's reach: `DueRuns`,
  `TickEnds`, `OperationEnds`, `FlowReopens`, `EntryEnds`, `MissingMediumIsLeft`,
  `PowerDownEnds`, `AttemptEnds`. `AttemptEnds` needs the bound of one event
  ahead, too: TLC finds an attempt that does not end with two;
* what the three violation runs refute.

## Not modelled

The components marked `not_modelled` in `PROJECT.json`, with the reason. The
watchdog, the low-battery and charging paths and real time (the length of a tick
against the length of a handler) are abstracted away throughout. Flash erasure
with interrupts masked is one step, so the interrupts it discards
(`driver_flash.c` 664) are not seen.

* `SbcQueue`: the decoder, the resampling and the drift correction of
  `audio_sync.c`; frames that are corrupt; a power-down in between;
  `INCOMING_CALL_RING`, which is not defined. `APP_FLAG_MUSIC_PLAY` of the
  application and `bt_flag1` are one variable, as one phone is connected. The
  phone has the hands-free profile. With one that has the headset profile only,
  `sco_utils_connected` takes the branch at 251-271 of
  `bt_sco_backend_utils.c`, which prepares the audio path with `aud_initial` and
  does not call `aud_open`: for such calls `DacOpenIffUsed` is not claimed. The
  digits of a caller's number, which are prompts that follow one another, are one
  prompt.
* `WorkMode`: the tuner, low battery (`app_protocol.c` 3069), the coexistence
  and TWS builds; `MSG_GOTO_*`, which nobody posts; play and pause in line-in;
  the debouncing of the detectors, whose outcome is a change that happened;
  a mount that fails half-way (the vendored file system).
* `Reconnect`: one phone; keys before the unit is up, and a mode change before
  `bt_set_class_complete` (which would switch the scan on in another mode);
  line-in's own handling of the scan; what the host library does with a
  page asked for while the unit is coming up (it is taken as any other); `app_match_task`, which nothing schedules;
  the counter of hands-free retries, which is a choice; the very first
  `bt_set_class_complete` after power-on, which only clears the flags; the null
  pointer `app_bt_profile_disconn_wrap` would read if the link were gone.
  Whether a link is authenticated is `hci_acl_setmode` of the library, read from
  its calls in `Debug/BK3268.dmp`; a link that stays unauthenticated is ended by
  the timer of the library and appears as a lost link.

## Plan

1. Done: `MsgPool`, `OsTimer`, `EnvFlash`, `EnvKeys`, `AudioDsp`, `SbcQueue`,
   `WorkMode`, `Reconnect`, with `MsgFifo` and `EnvStorage` as specifications,
   and the proofs of all safety properties.
2. Proofs to come: which part of the list invariant of `OsTimer` survives ticks
   in the middle of an operation; abstract specifications of the SBC path (a
   queue of wanted frames) and of the key table (the set of paired devices in
   their order), with the refinement proved from the invariants there are;
   `AudioDsp` as a remote call that is answered.
3. Worth modelling after that: `driver_ringbuff.c` as a bounded queue of samples,
   the call indicators of `bt_hf_backend.c`, sniff mode in `app_bt.c`, and
   `EnvKeys` composed with the power-down of `WorkMode` (the queued flash write
   takes `app_env_write_action` without the guard of `app_env_write_flash`).
