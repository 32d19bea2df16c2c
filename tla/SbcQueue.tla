------------------------------- MODULE SbcQueue -------------------------------
(***************************************************************************)
(* The path of the music from the controller to the DSP: the pool of SBC   *)
(* frames and the decoder of host/port/beken_app/app_sbc.c, the handlers   *)
(* of bt_a2dp_backend.c and bt_sco_backend_utils.c that start, suspend and *)
(* interrupt it, the prompts of app_prompt_wav.c that borrow the DAC, and  *)
(* the flow control that rests on the count of queued frames.              *)
(*                                                                         *)
(* Everything runs in the main loop, one handler after the other.  What    *)
(* makes it hard is that music, calls and prompts begin and end in any     *)
(* order, that each end restores what it thinks it interrupted, and that   *)
(* sbc_ecout, the number on which the controller is throttled, is kept     *)
(* apart from the list it counts.                                          *)
(*                                                                         *)
(* A node of the pool is on one of two lists: of the free list only the    *)
(* length matters, of the use list the order and whether its frames are    *)
(* still wanted.  A frame is stale once the audio it belongs to was        *)
(* interrupted: by a prompt, a call, or a new start of the stream.         *)
(***************************************************************************)
EXTENDS Naturals, Sequences

CONSTANTS MaxNode,      \* SBC_MEM_POOL_MAX_NODE
          FirstTry,     \* SBC_FIRST_TRY_TIME: frames queued before playing
          Margin,       \* free nodes below which the pool is nearly full
          PacketFrames, \* bound: frames of a media packet
          Room,         \* bound: frames for which the DSP has room
          MaxAcl        \* bound: ACL packets the controller holds

\* A cushion fits below the mark at which the controller is throttled.
ASSUME SbcQueueAssumption ==
  /\ MaxNode \in Nat /\ FirstTry \in Nat \ {0} /\ Margin \in Nat \ {0}
  /\ PacketFrames \in Nat \ {0} /\ Room \in Nat \ {0} /\ MaxAcl \in Nat \ {0}
  /\ FirstTry + Margin <= MaxNode

VARIABLES free,       \* nodes of sbc_mem_pool.freelist
          uselist,    \* sbc_mem_pool.uselist, oldest frame first
          ecout,      \* sbc_ecout
          initial,    \* sbc_target_initial: the pool is allocated
          ptr,        \* sbc_ptr # NULL: a stream is open
          play,       \* flag_sbc_buffer_play
          discard,    \* sbc_first_discrad_flag, _count and _data
          music,      \* APP_FLAG_MUSIC_PLAY, of the application and of bt_flag1
          setup,      \* APP_FLAG_HFP_CALLSETUP
          sco,        \* APP_FLAG_SCO_CONNECTION, and hfp_has_sco_conn()
          wave,       \* APP_FLAG_WAVE_PLAYING and flag_playing
          dac,        \* the last of aud_open and aud_close
          acl,        \* ACL packets held by the controller, oldest first
          played      \* history: the kinds of frames this step decoded

pool == <<free, uselist, ecout, initial>>
flags == <<music, setup, sco, wave>>
vars == <<pool, ptr, play, discard, flags, dac, acl, played>>

Packet == {"media", "start", "suspend", "setup", "idle"}
Frame == {"fresh", "stale"}
NoDiscard == [flag |-> 0, count |-> 0, data |-> 0]

Least(a, b) == IF a <= b THEN a ELSE b
KindsIn(s) == {s[i] : i \in DOMAIN s}
AllStale(s) == [i \in DOMAIN s |-> "stale"]

TypeOK ==
  /\ free \in 0 .. MaxNode
  /\ uselist \in Seq(Frame) /\ Len(uselist) <= MaxNode
  /\ ecout \in 0 .. MaxNode
  /\ {initial, ptr, play, music, setup, sco, wave, dac} \subseteq BOOLEAN
  /\ discard \in [flag : {0, 1}, count : {0, 1}, data : {0, 1}]
  /\ acl \in Seq(Packet) /\ Len(acl) <= MaxAcl
  /\ played \subseteq Frame

Init ==
  /\ free = 0 /\ uselist = <<>> /\ ecout = 0 /\ initial = FALSE
  /\ ptr = FALSE /\ play = FALSE /\ discard = NoDiscard
  /\ music = FALSE /\ setup = FALSE /\ sco = FALSE /\ wave = FALSE
  /\ dac = FALSE /\ acl = <<>> /\ played = {}

------------------------------------------------------------------------------
\* The pool.

\* All nodes are taken off both lists, and the decoder no longer plays.
sbc_mem_pool_deinit ==
  /\ free' = 0 /\ uselist' = <<>> /\ initial' = FALSE
  /\ play' = FALSE

\* The same, and the release of the buffers: sbc_ecout stays.
sbc_mem_free == sbc_mem_pool_deinit /\ UNCHANGED ecout

\* Mutant: the nodes taken off the use list are not given back.
DropLeaky(n) ==
  LET k == Least(n, Len(uselist))
  IN  /\ uselist' = SubSeq(uselist, k + 1, Len(uselist))
      /\ ecout' = ecout - k
      /\ UNCHANGED <<free, initial>>

\* The first n frames go back to the free list, each counted off.
Drop(n) ==
  LET k == Least(n, Len(uselist))
  IN  /\ uselist' = SubSeq(uselist, k + 1, Len(uselist))
      /\ free' = free + k
      /\ ecout' = ecout - k
      /\ UNCHANGED initial

\* sbc_discard_uselist_node and sbc_init_adjust_param, always called together.
DiscardAll ==
  /\ free' = free + Len(uselist)
  /\ uselist' = <<>>
  /\ ecout' = 0
  /\ UNCHANGED initial

\* sbc_encode_buffer_status: what the controller is throttled on.
Status ==
  IF setup \/ sco \/ ~music THEN 0
  ELSE IF MaxNode - ecout < Margin THEN 1
  ELSE IF ecout < Margin THEN 2 ELSE 0

\* Mutant: frames are stored though no node is free.
FillOverrun(n) ==
  LET kept == IF initial THEN uselist ELSE <<>>
      left == IF initial THEN free ELSE MaxNode
      i    == IF wave THEN 0 ELSE n
  IN  /\ initial' = TRUE
      /\ uselist' = kept \o [j \in 1 .. i |-> "fresh"]
      /\ free' = left - i
      /\ ecout' = (IF initial THEN ecout ELSE 0) + i

\* sbc_fill_encode_buffer, for a packet of n frames.
Fill(n) ==
  LET kept == IF initial THEN uselist ELSE <<>>
      left == IF initial THEN free ELSE MaxNode
      base == IF initial THEN ecout ELSE 0
      i    == IF wave THEN 0 ELSE Least(n, left)
  IN  /\ initial' = TRUE
      /\ uselist' = kept \o [j \in 1 .. i |-> "fresh"]
      /\ free' = left - i
      /\ ecout' = base + i

------------------------------------------------------------------------------
\* The phone, and the controller that holds its ACL packets.

\* Whether p is the later one of the packets p and q the phone has sent: `now'
\* is the answer for those that have been delivered.
LastSent(p, q, now) ==
  \/ \E i \in 1 .. Len(acl) :
       acl[i] = p /\ \A j \in i + 1 .. Len(acl) : acl[j] # q
  \/ now /\ \A i \in 1 .. Len(acl) : acl[i] # q

Streaming == LastSent("start", "suspend", music)
InSetup == LastSent("setup", "idle", setup)

Send(p) ==
  /\ ptr
  /\ Len(acl) < MaxAcl
  /\ p \in {"media", "suspend"} => Streaming
  /\ p = "start" => ~Streaming
  /\ p = "setup" => ~InSetup
  /\ p = "idle" => InSetup
  /\ acl' = Append(acl, p)
  /\ UNCHANGED <<pool, ptr, play, discard, flags, dac>>
  /\ played' = {}

\* HCfc_Get_Next_HC_to_Host_Data_Descriptor gives the host no ACL packet of any
\* kind while the status is 1.
Next_HC_to_Host(p) ==
  /\ Status # 1
  /\ acl # <<>>
  /\ Head(acl) = p
  /\ acl' = Tail(acl)
  /\ played' = {}

\* a2dp_stream_input: dropped during a call.
Media ==
  /\ Next_HC_to_Host("media")
  /\ IF sco THEN UNCHANGED pool ELSE \E n \in 1 .. PacketFrames : Fill(n)
  /\ UNCHANGED <<ptr, play, discard, flags, dac>>

\* The call is being set up, or no longer is.
CallSetup ==
  /\ \/ Next_HC_to_Host("setup") /\ setup' = TRUE
     \/ Next_HC_to_Host("idle") /\ setup' = FALSE
  /\ UNCHANGED <<pool, ptr, play, discard, music, sco, wave, dac>>

------------------------------------------------------------------------------
\* Music begins and ends.

\* a2dp_stream_alloc, for the first user of the decoder.
Open ==
  /\ ~ptr
  /\ ptr' = TRUE
  /\ initial' = FALSE
  /\ UNCHANGED <<free, uselist, ecout, play, discard, flags, dac, acl>>
  /\ played' = {}

\* a2dp_stream_start_cb and stream_start_handler.
Start ==
  /\ Next_HC_to_Host("start")
  /\ music' = TRUE
  /\ IF wave \/ sco
     THEN UNCHANGED <<pool, play, dac>>
     ELSE DiscardAll /\ play' = FALSE /\ dac' = TRUE
  /\ UNCHANGED <<ptr, discard, setup, sco, wave>>

\* Mutant: the DAC is closed under the prompt or the call that uses it.
SuspendShut ==
  /\ Next_HC_to_Host("suspend")
  /\ music' = FALSE
  /\ sbc_mem_pool_deinit /\ ecout' = 0
  /\ dac' = FALSE
  /\ UNCHANGED <<ptr, discard, setup, sco, wave>>

\* a2dp_stream_suspend_cb: sbc_init_adjust_param, then sbc_mem_free.
Suspend ==
  /\ Next_HC_to_Host("suspend")
  /\ music' = FALSE
  /\ sbc_mem_pool_deinit /\ ecout' = 0
  /\ dac' = (dac /\ (sco \/ wave))
  /\ UNCHANGED <<ptr, discard, setup, sco, wave>>

\* a2dp_disconnected when the link is lost, and a2dp_stream_free; a call on the
\* link has ended before.
Disconnect ==
  /\ ptr /\ ~sco
  /\ ptr' = FALSE
  /\ music' = FALSE /\ setup' = FALSE
  /\ sbc_mem_free
  /\ dac' = (dac /\ ~(music /\ ~wave))
  /\ acl' = <<>>
  /\ UNCHANGED <<discard, sco, wave>>
  /\ played' = {}

------------------------------------------------------------------------------
\* Calls and prompts.

\* Mutant: the old frames are not discarded.
RestoreKeeps(s) ==
  IF music /\ ~s
  THEN /\ discard' = [flag |-> 0, count |-> 0, data |-> 0]
       /\ UNCHANGED pool /\ play' = FALSE /\ dac' = TRUE
  ELSE /\ play' = FALSE
       /\ dac' = s
       /\ UNCHANGED <<pool, discard>>

\* Its old frames are discarded, and so is the first batch after them.
RenewQueue ==
  /\ discard' = [flag |-> 1, count |-> 0, data |-> 1]
  /\ DiscardAll

\* app_audio_restore in Bluetooth mode, when neither the machine is being
\* switched off nor a prompt plays; s says whether a call is up.
app_audio_restore(s) ==
  IF music /\ ~s
  THEN RenewQueue /\ play' = FALSE /\ dac' = TRUE
  ELSE /\ play' = FALSE
       /\ dac' = s
       /\ UNCHANGED <<pool, discard>>

\* sco_utils_connected: sbc_ecout keeps its value.
ScoConnect ==
  /\ ~sco
  /\ ptr
  /\ sco' = TRUE
  /\ sbc_mem_free
  /\ dac' = (dac \/ ~wave)
  /\ UNCHANGED <<ptr, discard, music, setup, wave, acl>>
  /\ played' = {}

\* sco_utils_disconnected.  Under a prompt a2dp_audio_handler(0), which discards
\* nothing.  The three packets to discard that are asked for before the restore
\* become the one the restore asks for.
ScoDisconnect ==
  /\ sco
  /\ sco' = FALSE
  /\ IF wave
     THEN /\ dac' = (dac \/ music)
          /\ UNCHANGED <<pool, play, discard>>
     ELSE app_audio_restore(FALSE)
  /\ UNCHANGED <<ptr, music, setup, wave, acl>>
  /\ played' = {}

\* What was queued before a prompt stays queued.
KeepQueue ==
  /\ uselist' = AllStale(uselist)
  /\ UNCHANGED <<free, ecout, initial, discard>>

\* app_wave_file_play_start.  The queue is left as it is, unless the prompt is of
\* another type than the last one: app_wave_file_play_stop comes first then,
\* whether the last one still plays or not, and renews the music there is.
WaveStart ==
  /\ wave' = TRUE
  /\ play' = FALSE
  /\ dac' = TRUE
  /\ \/ ~wave /\ KeepQueue
     \/ IF music /\ ~sco THEN RenewQueue ELSE KeepQueue
  /\ UNCHANGED <<ptr, music, setup, sco, acl>>
  /\ played' = {}

\* Mutant: a prompt ends without the restore.
WaveStopPlain ==
  /\ wave' = FALSE
  /\ UNCHANGED <<pool, play, discard, dac, ptr, music, setup, sco, acl>>
  /\ played' = {}

\* app_wave_file_play_stop: at the end of a prompt, but also when none plays, as
\* before one of another type that then cannot be started.
WaveStop ==
  /\ wave' = FALSE
  /\ app_audio_restore(sco)
  /\ UNCHANGED <<ptr, music, setup, sco, acl>>
  /\ played' = {}

------------------------------------------------------------------------------
\* sbc_do_decode: called by the loop of bt_mode_msg_handler unless a prompt is
\* playing.

MayDecode == ~wave /\ ptr /\ initial

Discarding == discard.flag = 1 /\ discard.count < discard.data

\* Frames left over in a call, or the first batches after an interruption.
DropFrames ==
  /\ MayDecode
  /\ sco \/ (~play /\ ecout >= FirstTry /\ Discarding)
  /\ Drop(IF sco THEN Len(uselist) ELSE FirstTry)
  /\ discard' = IF sco THEN discard ELSE [discard EXCEPT !.count = @ + 1]
  /\ UNCHANGED <<ptr, play, flags, dac, acl>>
  /\ played' = {}

\* Mutant: playing begins with the first frame.
DecodeAtOnce(room) ==
  /\ MayDecode /\ ~sco
  /\ ecout > 0
  /\ play' = TRUE
  /\ discard' = IF play THEN discard ELSE NoDiscard
  /\ LET n == Least(room, ecout)
     IN  /\ Drop(n)
         /\ played' = KindsIn(SubSeq(uselist, 1, Least(n, Len(uselist))))
  /\ UNCHANGED <<ptr, flags, dac, acl>>

\* The other frames go to the DSP, as many as it has room for.  A frame that is
\* counted and not queued would be replaced by silence and stay counted.
Decode(room) ==
  /\ MayDecode /\ ~sco
  /\ play \/ (ecout >= FirstTry /\ ~Discarding)
  /\ play' = TRUE
  /\ discard' = IF play \/ discard.flag = 0 THEN discard ELSE NoDiscard
  /\ LET n == Least(room, ecout)
     IN  /\ Drop(n)
         /\ played' = KindsIn(SubSeq(uselist, 1, Least(n, Len(uselist))))
  /\ UNCHANGED <<ptr, flags, dac, acl>>

------------------------------------------------------------------------------
Next ==
  \/ \E p \in Packet : Send(p)
  \/ Media
  \/ CallSetup
  \/ Open
  \/ Start
  \/ Suspend
  \/ Disconnect
  \/ ScoConnect
  \/ ScoDisconnect
  \/ WaveStart
  \/ WaveStop
  \/ DropFrames
  \/ \E room \in 0 .. Room : Decode(room)

Spec == Init /\ [][Next]_vars

\* The main loop turns; a DSP whose DAC is open plays what it has and makes
\* room for more; a prompt is as long as its file.  Nothing is assumed of the
\* phone, of calls, or of when prompts begin.
FairSpec ==
  /\ Spec
  /\ WF_vars(DropFrames)
  /\ WF_vars(dac /\ \E room \in 1 .. Room : Decode(room))
  /\ WF_vars(wave /\ WaveStop)

------------------------------------------------------------------------------
\* While the pool is allocated no node is lost and none is on both lists, and
\* the count the controller is throttled on is the length of the queue.
PoolConserved ==
  /\ free + Len(uselist) = IF initial THEN MaxNode ELSE 0
  /\ initial => ecout = Len(uselist)

\* "discard all the old sbc note avoid noise" (bt_a2dp_backend.c 1042): nothing
\* that was queued before a prompt, a call or a new start of the stream is heard
\* after it, and no music is decoded in a call or under a prompt.
NoStaleAudio == played # {} => played = {"fresh"} /\ ~sco /\ ~wave

\* The DAC is open exactly as long as there is something to hear, in whatever
\* order music, calls and prompts began and ended.
DacOpenIffUsed == dac <=> (music \/ sco \/ wave)

\* The DSP is given its first frame when FirstTry of them are queued ("sbc
\* buffer cache, avoid POP", app_sbc.c 731), and not from the batch that comes
\* right after an interruption.
StartsWithCushion ==
  [][~play /\ play' => Len(uselist) >= FirstTry
                       /\ (discard.flag = 1 => discard.count = discard.data)]_vars

\* The controller is not throttled for ever: the frames that made the pool
\* nearly full are played, or discarded.
FlowReopens == []<>(Status # 1)
==============================================================================
