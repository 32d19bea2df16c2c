---------------------------- MODULE SbcQueueProofs ----------------------------
(***************************************************************************)
(* Theorems about SbcQueue for every size of the pool, of the cushion and  *)
(* of the packets, and for every number of packets the controller holds.   *)
(***************************************************************************)
EXTENDS SbcQueue, TLAPS

USE SbcQueueAssumption DEF SbcQueueAssumption

-----------------------------------------------------------------------------
\* The inductive invariant.

\* No ACL packet is on its way without a stream, and no pool without one.
StreamFirst ==
  /\ initial => ptr
  /\ acl # <<>> => ptr

\* Frames wait only for music that no call has interrupted.
QueueBelongs == uselist # <<>> => music /\ ~sco

\* A stale frame is one that waits under a prompt.
StaleUnderPrompt ==
  ~wave => \A i \in 1 .. Len(uselist) : uselist[i] = "fresh"

\* At place i of the packets s the stream is running, if m says whether it was
\* running before the first of them.
Announced(s, m, i) ==
  \/ \E k \in 1 .. i - 1 :
       s[k] = "start" /\ \A j \in k + 1 .. i - 1 : s[j] # "suspend"
  \/ m /\ \A j \in 1 .. i - 1 : s[j] # "suspend"

\* Every media packet on its way belongs to a stream that has been started.
MediaAnnounced ==
  \A i \in 1 .. Len(acl) : acl[i] = "media" => Announced(acl, music, i)

\* No more batches have been discarded than were asked for.
DiscardBounded == discard.count <= discard.data

IInv ==
  /\ TypeOK
  /\ PoolConserved
  /\ StreamFirst
  /\ QueueBelongs
  /\ StaleUnderPrompt
  /\ MediaAnnounced
  /\ DiscardBounded
  /\ DacOpenIffUsed
  /\ NoStaleAudio

-----------------------------------------------------------------------------
\* The operators on the pool.

\* What the pool keeps, whichever handler uses it.
PoolGood ==
  /\ free \in 0 .. MaxNode
  /\ uselist \in Seq(Frame) /\ Len(uselist) <= MaxNode
  /\ ecout \in 0 .. MaxNode
  /\ PoolConserved

\* The smaller of two numbers is a number, and no larger than either.
LEMMA LeastFacts ==
  ASSUME NEW a \in Nat, NEW b \in Nat
  PROVE  Least(a, b) \in Nat /\ Least(a, b) <= a /\ Least(a, b) <= b
BY DEF Least

\* Emptying the pool conserves it, whatever is then in sbc_ecout.
LEMMA DeinitGood ==
  ASSUME PoolGood, sbc_mem_pool_deinit, ecout' = ecout \/ ecout' = 0
  PROVE  PoolGood'
<1>1. /\ free' \in 0 .. MaxNode
      /\ uselist' \in Seq(Frame) /\ Len(uselist') <= MaxNode
  BY DEF sbc_mem_pool_deinit
<1>2. ecout' \in 0 .. MaxNode
  BY DEF PoolGood
<1>3. PoolConserved'
  BY DEF sbc_mem_pool_deinit, PoolConserved
<1> QED BY <1>1, <1>2, <1>3 DEF PoolGood

\* Discarding moves every node to the free list.
LEMMA DiscardAllGood ==
  ASSUME PoolGood, DiscardAll
  PROVE  PoolGood' /\ uselist' = <<>>
BY DEF PoolGood, PoolConserved, DiscardAll

\* Dropping moves the oldest nodes to the free list and leaves the others.
LEMMA DropGood ==
  ASSUME PoolGood, initial, NEW n \in Nat, Drop(n)
  PROVE  /\ PoolGood'
         /\ Len(uselist') <= Len(uselist)
         /\ \A i \in 1 .. Len(uselist') :
              \E j \in 1 .. Len(uselist) : uselist'[i] = uselist[j]
<1> DEFINE k == Least(n, Len(uselist))
<1>1. uselist \in Seq(Frame) /\ Len(uselist) \in Nat
  BY DEF PoolGood
<1>2. k \in Nat /\ k <= Len(uselist)
  BY <1>1, LeastFacts
<1>3. /\ uselist' = SubSeq(uselist, k + 1, Len(uselist))
      /\ free' = free + k /\ ecout' = ecout - k /\ initial' = initial
  BY DEF Drop
<1> HIDE DEF k
<1>4. /\ uselist' \in Seq(Frame)
      /\ Len(uselist') = Len(uselist) - k
      /\ \A i \in 1 .. Len(uselist') : uselist'[i] = uselist[i + k]
  BY <1>1, <1>2, <1>3
<1>5. PoolGood'
  <2>1. free + Len(uselist) = MaxNode /\ ecout = Len(uselist)
    BY DEF PoolGood, PoolConserved
  <2>2. free \in 0 .. MaxNode /\ Len(uselist) <= MaxNode
    BY DEF PoolGood
  <2>3. free' = free + k /\ ecout' = ecout - k /\ Len(uselist') = Len(uselist) - k
    BY <1>3, <1>4
  <2>4. /\ free' \in 0 .. MaxNode /\ ecout' \in 0 .. MaxNode
        /\ Len(uselist') <= MaxNode
    BY <1>1, <1>2, <2>1, <2>2, <2>3
  <2>5. free' + Len(uselist') = MaxNode /\ ecout' = Len(uselist')
    BY <1>1, <1>2, <2>1, <2>2, <2>3
  <2>6. initial'
    BY <1>3
  <2> QED BY <1>4, <2>4, <2>5, <2>6 DEF PoolGood, PoolConserved
<1>6. \A i \in 1 .. Len(uselist') : i + k \in 1 .. Len(uselist)
  BY <1>1, <1>2, <1>4
<1> QED BY <1>1, <1>2, <1>4, <1>5, <1>6

\* Filling takes a free node for every frame stored, appends fresh frames only,
\* and stores none under a prompt.
LEMMA FillGood ==
  ASSUME PoolGood, NEW n \in Nat, Fill(n)
  PROVE  /\ PoolGood' /\ initial'
         /\ \A i \in 1 .. Len(uselist') :
              \/ uselist'[i] = "fresh"
              \/ i \in 1 .. Len(uselist) /\ uselist'[i] = uselist[i]
         /\ wave => Len(uselist') <= Len(uselist)
<1> DEFINE kept == IF initial THEN uselist ELSE <<>>
           left == IF initial THEN free ELSE MaxNode
           base == IF initial THEN ecout ELSE 0
           stored == IF wave THEN 0 ELSE Least(n, left)
           new == [j \in 1 .. stored |-> "fresh"]
<1>1. /\ kept \in Seq(Frame) /\ Len(kept) \in Nat
      /\ left \in Nat /\ base \in Nat
      /\ left + Len(kept) = MaxNode /\ base = Len(kept)
  BY DEF PoolGood, PoolConserved
<1>2. stored \in Nat /\ stored <= left /\ (wave => stored = 0)
  <2>1. CASE wave
    BY <2>1, <1>1
  <2>2. CASE ~wave
    BY <2>2, <1>1, LeastFacts
  <2> QED BY <2>1, <2>2
<1>3. /\ initial' = TRUE /\ uselist' = kept \o new
      /\ free' = left - stored /\ ecout' = base + stored
  BY DEF Fill
<1>4. Len(kept) <= Len(uselist)
      /\ \A i \in 1 .. Len(kept) : i \in 1 .. Len(uselist) /\ kept[i] = uselist[i]
  BY DEF PoolGood
<1> HIDE DEF kept, left, base, stored
<1>5. new \in Seq(Frame) /\ Len(new) = stored
      /\ \A j \in 1 .. stored : new[j] = "fresh"
  BY <1>2 DEF Frame
<1> HIDE DEF new
<1>6. /\ kept \o new \in Seq(Frame)
      /\ Len(kept \o new) = Len(kept) + stored
      /\ \A i \in 1 .. Len(kept) + stored :
           (kept \o new)[i] = IF i <= Len(kept) THEN kept[i] ELSE new[i - Len(kept)]
  BY <1>1, <1>5
<1>7. PoolGood'
  <2>1. /\ free' \in 0 .. MaxNode /\ ecout' \in 0 .. MaxNode
        /\ uselist' \in Seq(Frame) /\ Len(uselist') <= MaxNode
    BY <1>1, <1>2, <1>3, <1>6
  <2>2. free' = left - stored /\ ecout' = base + stored
        /\ Len(uselist') = Len(kept) + stored
    BY <1>3, <1>6
  <2>3. free' + Len(uselist') = MaxNode /\ ecout' = Len(uselist')
    BY <1>1, <1>2, <2>2
  <2>4. initial'
    BY <1>3
  <2> QED BY <2>1, <2>3, <2>4 DEF PoolGood, PoolConserved
<1>8. \A i \in 1 .. Len(uselist') :
        \/ uselist'[i] = "fresh"
        \/ i \in 1 .. Len(uselist) /\ uselist'[i] = uselist[i]
  <2> TAKE i \in 1 .. Len(uselist')
  <2>1. CASE i <= Len(kept)
    BY <2>1, <1>1, <1>2, <1>3, <1>4, <1>6
  <2>2. CASE ~(i <= Len(kept))
    <3>1. i \in 1 .. Len(kept) + stored
      BY <1>3, <1>6
    <3>2. i - Len(kept) \in 1 .. stored
      BY <2>2, <3>1, <1>1, <1>2
    <3>3. uselist'[i] = new[i - Len(kept)]
      BY <2>2, <3>1, <1>3, <1>6
    <3> QED BY <3>2, <3>3, <1>5
  <2> QED BY <2>1, <2>2
<1>9. wave => Len(uselist') <= Len(uselist)
  BY <1>1, <1>2, <1>3, <1>4, <1>6
<1> QED BY <1>3, <1>7, <1>8, <1>9

-----------------------------------------------------------------------------
\* The packets on their way.

\* The types of acl that TypeOK states.
AclGood == acl \in Seq(Packet) /\ Len(acl) <= MaxAcl

\* Delivering the packet p keeps every media packet announced, if the handler
\* turns the music on for a start and leaves it alone for what is neither a
\* start nor a suspension.
LEMMA DeliverKeeps ==
  ASSUME AclGood, MediaAnnounced,
         NEW p \in Packet, Next_HC_to_Host(p),
         p = "start" => music',
         p \notin {"start", "suspend"} => music' = music
  PROVE  AclGood' /\ MediaAnnounced'
<1>1. acl \in Seq(Packet) /\ acl # <<>> /\ acl[1] = p
  BY DEF AclGood, Next_HC_to_Host
<1>2. /\ acl' \in Seq(Packet) /\ Len(acl') \in Nat /\ Len(acl') + 1 = Len(acl)
      /\ \A i \in 1 .. Len(acl') : acl'[i] = acl[i + 1]
  BY <1>1 DEF Next_HC_to_Host
<1>3. AclGood'
  BY <1>1, <1>2 DEF AclGood
<1>4. ASSUME NEW i \in 1 .. Len(acl'), acl'[i] = "media"
      PROVE  Announced(acl', music', i)
  <2>1. i + 1 \in 1 .. Len(acl) /\ acl[i + 1] = "media"
    BY <1>2, <1>4
  <2>2. Announced(acl, music, i + 1)
    BY <2>1 DEF MediaAnnounced
  <2>3. CASE \E k \in 1 .. i :
               acl[k] = "start" /\ \A j \in k + 1 .. i : acl[j] # "suspend"
    <3>1. PICK k \in 1 .. i :
                 acl[k] = "start" /\ \A j \in k + 1 .. i : acl[j] # "suspend"
      BY <2>3
    <3>2. \A j \in k .. i - 1 : acl'[j] # "suspend"
      <4> TAKE j \in k .. i - 1
      <4>1. j \in 1 .. Len(acl') /\ j + 1 \in k + 1 .. i
        BY <1>2
      <4> QED BY <4>1, <3>1, <1>2
    <3>3. CASE k = 1
      <4>1. music'
        BY <3>3, <3>1, <1>1
      <4> QED BY <4>1, <3>2, <3>3 DEF Announced
    <3>4. CASE k # 1
      <4>1. k - 1 \in 1 .. i - 1 /\ k - 1 \in 1 .. Len(acl')
        BY <3>4, <1>2
      <4>2. acl'[k - 1] = "start"
        BY <4>1, <3>1, <1>2
      <4>3. \A j \in (k - 1) + 1 .. i - 1 : acl'[j] # "suspend"
        BY <3>2
      <4> QED BY <4>1, <4>2, <4>3 DEF Announced
    <3> QED BY <3>3, <3>4
  <2>4. CASE music /\ \A j \in 1 .. i : acl[j] # "suspend"
    <3>1. p # "suspend"
      BY <2>4, <1>1
    <3>2. music'
      BY <3>1, <2>4
    <3>3. \A j \in 1 .. i - 1 : acl'[j] # "suspend"
      <4> TAKE j \in 1 .. i - 1
      <4>1. j \in 1 .. Len(acl') /\ j + 1 \in 1 .. i
        BY <1>2
      <4> QED BY <4>1, <2>4, <1>2
    <3> QED BY <3>2, <3>3 DEF Announced
  <2>5. (i + 1) - 1 = i
    OBVIOUS
  <2> QED BY <2>2, <2>3, <2>4, <2>5 DEF Announced
<1> QED BY <1>3, <1>4 DEF MediaAnnounced

\* The phone sends media packets only while the last it sent is a start.
LEMMA SendKeeps ==
  ASSUME AclGood, MediaAnnounced, NEW p \in Packet, Send(p)
  PROVE  AclGood' /\ MediaAnnounced'
<1>1. acl \in Seq(Packet) /\ Len(acl) \in Nat /\ Len(acl) < MaxAcl
  BY DEF AclGood, Send
<1>2. /\ acl' \in Seq(Packet) /\ Len(acl') = Len(acl) + 1
      /\ \A i \in 1 .. Len(acl) : acl'[i] = acl[i]
      /\ acl'[Len(acl) + 1] = p
  BY <1>1 DEF Send
<1>3. music' = music
  BY DEF Send, flags
<1>4. AclGood'
  BY <1>1, <1>2 DEF AclGood
<1>5. ASSUME NEW i \in 1 .. Len(acl), acl'[i] = "media"
      PROVE  Announced(acl', music', i)
  <2>1. Announced(acl, music, i)
    BY <1>5, <1>2 DEF MediaAnnounced
  <2>2. \A j \in 1 .. i - 1 : acl'[j] = acl[j]
    BY <1>1, <1>2
  <2> QED BY <2>1, <2>2, <1>3 DEF Announced
<1>6. ASSUME p = "media"
      PROVE  Announced(acl', music', Len(acl) + 1)
  <2>1. LastSent("start", "suspend", music)
    BY <1>6 DEF Send, Streaming
  <2>2. (Len(acl) + 1) - 1 = Len(acl)
    BY <1>1
  <2> QED BY <2>1, <2>2, <1>2, <1>3 DEF LastSent, Announced
<1>7. \A i \in 1 .. Len(acl') : i \in 1 .. Len(acl) \/ i = Len(acl) + 1
  BY <1>1, <1>2
<1> QED BY <1>2, <1>4, <1>5, <1>6, <1>7 DEF MediaAnnounced

-----------------------------------------------------------------------------
\* What each action does to the parts of the invariant.

\* The invariant gives the operators on the pool and the packets what they need.
LEMMA IInvParts == IInv => PoolGood /\ AclGood
BY DEF IInv, TypeOK, PoolGood, AclGood

\* An action that leaves the pool alone, or uses it through its operators, and
\* keeps it conserved.
LEMMA PoolStep ==
  ASSUME IInv, [Next]_vars
  PROVE  PoolGood'
<1>1. PoolGood
  BY IInvParts
<1> USE DEF pool
<1>2. ASSUME UNCHANGED pool PROVE PoolGood'
  BY <1>1, <1>2 DEF PoolGood, PoolConserved
<1>3. CASE \E p \in Packet : Send(p)
  BY <1>2, <1>3 DEF Send
<1>4. CASE Media
  <2>1. CASE sco
    BY <2>1, <1>2, <1>4 DEF Media
  <2>2. CASE ~sco
    <3>1. PICK n \in 1 .. PacketFrames : Fill(n)
      BY <2>2, <1>4 DEF Media
    <3>2. n \in Nat
      OBVIOUS
    <3> QED BY <3>1, <3>2, <1>1, FillGood
  <2> QED BY <2>1, <2>2
<1>5. CASE CallSetup
  BY <1>2, <1>5 DEF CallSetup
<1>6. CASE Open
  <2>1. ~initial
    BY <1>6 DEF IInv, StreamFirst, Open
  <2>2. free' = free /\ uselist' = uselist /\ ecout' = ecout /\ ~initial'
    BY <1>6 DEF Open
  <2> QED BY <1>1, <2>1, <2>2 DEF PoolGood, PoolConserved
<1>7. CASE Start
  <2>1. CASE wave \/ sco
    BY <2>1, <1>2, <1>7 DEF Start
  <2>2. CASE ~(wave \/ sco)
    BY <2>2, <1>1, <1>7, DiscardAllGood DEF Start
  <2> QED BY <2>1, <2>2
<1>8. CASE Suspend
  BY <1>1, <1>8, DeinitGood DEF Suspend
<1>9. CASE Disconnect
  BY <1>1, <1>9, DeinitGood DEF Disconnect, sbc_mem_free
<1>10. CASE ScoConnect
  BY <1>1, <1>10, DeinitGood DEF ScoConnect, sbc_mem_free
<1>11. ASSUME NEW s, app_audio_restore(s) PROVE PoolGood'
  <2>1. CASE music /\ ~s
    BY <2>1, <1>1, <1>11, DiscardAllGood DEF app_audio_restore, RenewQueue
  <2>2. CASE ~(music /\ ~s)
    BY <2>2, <1>2, <1>11 DEF app_audio_restore
  <2> QED BY <2>1, <2>2
<1>12. CASE ScoDisconnect
  <2>1. CASE wave
    BY <2>1, <1>2, <1>12 DEF ScoDisconnect
  <2>2. CASE ~wave
    BY <2>2, <1>11, <1>12 DEF ScoDisconnect
  <2> QED BY <2>1, <2>2
<1>13. CASE WaveStart
  <2>1. /\ AllStale(uselist) \in Seq(Frame)
        /\ Len(AllStale(uselist)) = Len(uselist)
    <3>1. DOMAIN uselist = 1 .. Len(uselist) /\ Len(uselist) \in Nat
      BY <1>1 DEF PoolGood
    <3> QED BY <3>1 DEF AllStale, Frame
  <2>2. CASE KeepQueue
    <3>1. /\ free' = free /\ ecout' = ecout /\ initial' = initial
          /\ uselist' = AllStale(uselist)
      BY <2>2 DEF KeepQueue
    <3> QED BY <1>1, <2>1, <3>1 DEF PoolGood, PoolConserved
  <2>3. CASE RenewQueue
    BY <2>3, <1>1, DiscardAllGood DEF RenewQueue
  <2> QED BY <1>13, <2>2, <2>3 DEF WaveStart
<1>14. CASE WaveStop
  BY <1>11, <1>14 DEF WaveStop
<1>15. CASE DropFrames
  <2>1. initial /\ Drop(IF sco THEN Len(uselist) ELSE FirstTry)
    BY <1>15 DEF DropFrames, MayDecode
  <2>2. (IF sco THEN Len(uselist) ELSE FirstTry) \in Nat
    BY <1>1 DEF PoolGood
  <2> QED BY <2>1, <2>2, <1>1, DropGood
<1>16. CASE \E room \in 0 .. Room : Decode(room)
  <2>1. PICK room \in 0 .. Room : Decode(room)
    BY <1>16
  <2>2. Least(room, ecout) \in Nat
    <3>1. room \in Nat /\ ecout \in Nat
      BY <1>1 DEF PoolGood
    <3> QED BY <3>1, LeastFacts
  <2>3. initial /\ Drop(Least(room, ecout))
    BY <2>1 DEF Decode, MayDecode
  <2> QED BY <2>2, <2>3, <1>1, DropGood
<1>17. CASE UNCHANGED vars
  BY <1>2, <1>17 DEF vars
<1> QED BY <1>3, <1>4, <1>5, <1>6, <1>7, <1>8, <1>9, <1>10, <1>12, <1>13, <1>14,
           <1>15, <1>16, <1>17 DEF Next

\* Every packet on its way is a packet the phone was allowed to send.
LEMMA AclStep ==
  ASSUME IInv, [Next]_vars
  PROVE  AclGood' /\ MediaAnnounced'
<1>1. AclGood /\ MediaAnnounced
  BY IInvParts DEF IInv
<1>2. ASSUME UNCHANGED <<acl, music>> PROVE AclGood' /\ MediaAnnounced'
  BY <1>1, <1>2 DEF AclGood, MediaAnnounced, Announced
<1>3. CASE \E p \in Packet : Send(p)
  BY <1>1, <1>3, SendKeeps
<1>4. CASE Media
  BY <1>1, <1>4, DeliverKeeps DEF Media, flags, Packet
<1>5. CASE CallSetup
  BY <1>1, <1>5, DeliverKeeps DEF CallSetup, Packet
<1>6. CASE Start
  BY <1>1, <1>6, DeliverKeeps DEF Start, Packet
<1>7. CASE Suspend
  BY <1>1, <1>7, DeliverKeeps DEF Suspend, Packet
<1>8. CASE Disconnect
  <2>1. acl' = <<>>
    BY <1>8 DEF Disconnect
  <2> QED BY <2>1 DEF AclGood, MediaAnnounced
<1>9. CASE Open \/ ScoConnect \/ ScoDisconnect \/ WaveStart \/ WaveStop
  BY <1>2, <1>9 DEF Open, ScoConnect, ScoDisconnect, WaveStart, WaveStop, flags
<1>10. CASE DropFrames \/ (\E room \in 0 .. Room : Decode(room))
  BY <1>2, <1>10 DEF DropFrames, Decode, flags
<1>11. CASE UNCHANGED vars
  BY <1>2, <1>11 DEF vars, flags
<1> QED BY <1>3, <1>4, <1>5, <1>6, <1>7, <1>8, <1>9, <1>10, <1>11 DEF Next

\* The packets are on a stream, and so is the pool.
LEMMA StreamStep ==
  ASSUME IInv, [Next]_vars
  PROVE  StreamFirst'
<1>1. StreamFirst
  BY DEF IInv
<1>2. ASSUME UNCHANGED <<initial, ptr, acl>> PROVE StreamFirst'
  BY <1>1, <1>2 DEF StreamFirst
<1>3. CASE \E p \in Packet : Send(p)
  BY <1>1, <1>3 DEF StreamFirst, Send, pool
<1>4. CASE Media \/ CallSetup
  <2>1. acl # <<>> /\ ptr' = ptr
    BY <1>4 DEF Media, CallSetup, Next_HC_to_Host
  <2> QED BY <1>1, <2>1 DEF StreamFirst
<1>5. CASE Open
  BY <1>5 DEF StreamFirst, Open
<1>6. CASE Start \/ Suspend
  <2>1. acl # <<>> /\ ptr' = ptr
    BY <1>6 DEF Start, Suspend, Next_HC_to_Host
  <2> QED BY <1>1, <2>1 DEF StreamFirst
<1>7. CASE Disconnect
  BY <1>7 DEF StreamFirst, Disconnect, sbc_mem_free, sbc_mem_pool_deinit
<1>8. CASE ScoConnect
  BY <1>1, <1>8 DEF StreamFirst, ScoConnect, sbc_mem_free, sbc_mem_pool_deinit
<1>9. ASSUME NEW s, app_audio_restore(s) PROVE initial' = initial
  BY <1>9 DEF app_audio_restore, RenewQueue, DiscardAll, pool
<1>10. CASE ScoDisconnect \/ WaveStop
  <2>1. initial' = initial
    BY <1>9, <1>10 DEF ScoDisconnect, WaveStop, pool
  <2> QED BY <1>2, <1>10, <2>1 DEF ScoDisconnect, WaveStop
<1>11. CASE WaveStart
  <2>1. initial' = initial
    BY <1>11 DEF WaveStart, KeepQueue, RenewQueue, DiscardAll
  <2> QED BY <1>2, <1>11, <2>1 DEF WaveStart
<1>12. CASE DropFrames \/ (\E room \in 0 .. Room : Decode(room))
  BY <1>2, <1>12 DEF DropFrames, Decode, Drop
<1>13. CASE UNCHANGED vars
  BY <1>2, <1>13 DEF vars, pool
<1> QED BY <1>3, <1>4, <1>5, <1>6, <1>7, <1>8, <1>10, <1>11, <1>12, <1>13 DEF Next

\* The restore discards the queue, or is without music, or in a call; in all of
\* these no frame is left.
LEMMA RestoreEmpties ==
  ASSUME IInv, NEW s, app_audio_restore(s), s => sco
  PROVE  uselist' = <<>>
<1>1. CASE music /\ ~s
  BY <1>1 DEF app_audio_restore, RenewQueue, DiscardAll
<1>2. CASE ~(music /\ ~s)
  BY <1>2 DEF IInv, QueueBelongs, app_audio_restore, pool
<1> QED BY <1>1, <1>2

\* Frames wait only for music that no call has interrupted, and those that wait
\* without a prompt are fresh.
LEMMA QueueStep ==
  ASSUME IInv, [Next]_vars
  PROVE  QueueBelongs' /\ StaleUnderPrompt'
<1>1. QueueBelongs /\ StaleUnderPrompt /\ PoolGood /\ MediaAnnounced /\ AclGood
  BY IInvParts DEF IInv
<1>2. ASSUME UNCHANGED <<uselist, music, sco, wave>>
      PROVE  QueueBelongs' /\ StaleUnderPrompt'
  BY <1>1, <1>2 DEF QueueBelongs, StaleUnderPrompt
<1>3. ASSUME uselist' = <<>>
      PROVE  QueueBelongs' /\ StaleUnderPrompt'
  BY <1>3 DEF QueueBelongs, StaleUnderPrompt
<1>4. CASE \E p \in Packet : Send(p)
  BY <1>2, <1>4 DEF Send, pool, flags
<1>5. CASE Media
  <2>1. UNCHANGED <<music, sco, wave>>
    BY <1>5 DEF Media, flags
  <2>2. CASE sco
    BY <2>1, <2>2, <1>2, <1>5 DEF Media, pool
  <2>3. CASE ~sco
    <3>1. PICK n \in 1 .. PacketFrames : Fill(n)
      BY <2>3, <1>5 DEF Media
    <3>2. \A i \in 1 .. Len(uselist') :
            \/ uselist'[i] = "fresh"
            \/ i \in 1 .. Len(uselist) /\ uselist'[i] = uselist[i]
      BY <3>1, <1>1, FillGood
    <3>3. music
      <4>1. 1 \in 1 .. Len(acl) /\ acl[1] = "media"
        BY <1>1, <1>5 DEF AclGood, Media, Next_HC_to_Host
      <4>2. Announced(acl, music, 1)
        BY <4>1, <1>1 DEF MediaAnnounced
      <4> QED BY <4>2 DEF Announced
    <3>4. QueueBelongs'
      BY <3>3, <2>1, <2>3 DEF QueueBelongs
    <3>5. StaleUnderPrompt'
      BY <3>2, <2>1, <1>1 DEF StaleUnderPrompt
    <3> QED BY <3>4, <3>5
  <2> QED BY <2>2, <2>3
<1>6. CASE CallSetup \/ Open
  BY <1>2, <1>6 DEF CallSetup, Open, pool, flags
<1>7. CASE Start
  <2>1. CASE wave \/ sco
    <3>1. UNCHANGED <<uselist, sco, wave>> /\ music'
      BY <2>1, <1>7 DEF Start, pool
    <3> QED BY <3>1, <1>1 DEF QueueBelongs, StaleUnderPrompt
  <2>2. CASE ~(wave \/ sco)
    BY <2>2, <1>3, <1>7 DEF Start, DiscardAll
  <2> QED BY <2>1, <2>2
<1>8. CASE Suspend \/ Disconnect \/ ScoConnect
  BY <1>3, <1>8 DEF Suspend, Disconnect, ScoConnect, sbc_mem_free, sbc_mem_pool_deinit
<1>9. CASE ScoDisconnect
  <2>1. CASE wave
    <3>1. uselist = <<>>
      BY <1>1, <1>9 DEF QueueBelongs, ScoDisconnect
    <3> QED BY <2>1, <3>1, <1>3, <1>9 DEF ScoDisconnect, pool
  <2>2. CASE ~wave
    <3>1. app_audio_restore(FALSE) /\ sco
      BY <2>2, <1>9 DEF ScoDisconnect
    <3>2. uselist = <<>>
      BY <1>1, <3>1 DEF QueueBelongs
    <3>3. uselist' = <<>>
      BY <3>1, <3>2 DEF app_audio_restore, RenewQueue, DiscardAll, pool
    <3> QED BY <3>3, <1>3
  <2> QED BY <2>1, <2>2
<1>10. CASE WaveStart
  <2>1. DOMAIN uselist = 1 .. Len(uselist) /\ Len(uselist) \in Nat
    BY <1>1 DEF PoolGood
  <2>2. uselist = <<>> => uselist' = <<>>
    BY <2>1, <1>10 DEF WaveStart, KeepQueue, AllStale, RenewQueue, DiscardAll
  <2> QED BY <2>2, <1>1, <1>10 DEF WaveStart, QueueBelongs, StaleUnderPrompt
<1>11. CASE WaveStop
  BY <1>3, <1>11, RestoreEmpties DEF WaveStop
<1>12. ASSUME NEW n \in Nat, Drop(n), initial, UNCHANGED flags
       PROVE  QueueBelongs' /\ StaleUnderPrompt'
  <2>1. /\ PoolGood' /\ Len(uselist') <= Len(uselist)
        /\ \A i \in 1 .. Len(uselist') :
             \E j \in 1 .. Len(uselist) : uselist'[i] = uselist[j]
    BY <1>1, <1>12, DropGood
  <2>2. uselist = <<>> => uselist' = <<>>
    BY <2>1, <1>1 DEF PoolGood
  <2> QED BY <2>1, <2>2, <1>1, <1>12 DEF QueueBelongs, StaleUnderPrompt, flags
<1>13. CASE DropFrames
  <2>1. (IF sco THEN Len(uselist) ELSE FirstTry) \in Nat
    BY <1>1 DEF PoolGood
  <2> QED BY <2>1, <1>12, <1>13 DEF DropFrames, MayDecode
<1>14. CASE \E room \in 0 .. Room : Decode(room)
  <2>1. PICK room \in 0 .. Room : Decode(room)
    BY <1>14
  <2>2. Least(room, ecout) \in Nat
    <3>1. room \in Nat /\ ecout \in Nat
      BY <1>1 DEF PoolGood
    <3> QED BY <3>1, LeastFacts
  <2>3. initial /\ Drop(Least(room, ecout))
    BY <2>1 DEF Decode, MayDecode
  <2>4. UNCHANGED flags
    BY <2>1 DEF Decode
  <2> QED BY <2>2, <2>3, <2>4, <1>12
<1>15. CASE UNCHANGED vars
  BY <1>2, <1>15 DEF vars, pool, flags
<1> QED BY <1>4, <1>5, <1>6, <1>7, <1>8, <1>9, <1>10, <1>11, <1>13, <1>14, <1>15
        DEF Next

\* The DAC follows its users.
LEMMA DacStep ==
  ASSUME IInv, [Next]_vars
  PROVE  DacOpenIffUsed'
<1>1. DacOpenIffUsed
  BY DEF IInv
<1>2. ASSUME UNCHANGED <<dac, music, sco, wave>> PROVE DacOpenIffUsed'
  BY <1>1, <1>2 DEF DacOpenIffUsed
<1>3. CASE \E p \in Packet : Send(p)
  BY <1>2, <1>3 DEF Send, flags
<1>4. CASE Media \/ CallSetup \/ Open
  BY <1>2, <1>4 DEF Media, CallSetup, Open, flags
<1>5. CASE Start
  BY <1>1, <1>5 DEF DacOpenIffUsed, Start
<1>6. CASE Suspend
  BY <1>1, <1>6 DEF DacOpenIffUsed, Suspend
<1>7. CASE Disconnect
  BY <1>1, <1>7 DEF DacOpenIffUsed, Disconnect
<1>8. CASE ScoConnect
  BY <1>1, <1>8 DEF DacOpenIffUsed, ScoConnect
<1>9. CASE ScoDisconnect
  BY <1>1, <1>9 DEF DacOpenIffUsed, ScoDisconnect, app_audio_restore
<1>10. CASE WaveStart
  BY <1>1, <1>10 DEF DacOpenIffUsed, WaveStart
<1>11. CASE WaveStop
  BY <1>1, <1>11 DEF DacOpenIffUsed, WaveStop, app_audio_restore
<1>12. CASE DropFrames \/ (\E room \in 0 .. Room : Decode(room))
  BY <1>2, <1>12 DEF DropFrames, Decode, flags
<1>13. CASE UNCHANGED vars
  BY <1>2, <1>13 DEF vars, flags
<1> QED BY <1>3, <1>4, <1>5, <1>6, <1>7, <1>8, <1>9, <1>10, <1>11, <1>12, <1>13
        DEF Next

\* What TypeOK and the invariant say of the batches to discard.
DiscardOK ==
  /\ discard \in [flag : {0, 1}, count : {0, 1}, data : {0, 1}]
  /\ DiscardBounded

\* A batch is counted as discarded only while one is still to be discarded.
LEMMA DiscardStep ==
  ASSUME IInv, [Next]_vars
  PROVE  DiscardOK'
<1>1. DiscardOK
  BY DEF IInv, TypeOK, DiscardOK
<1>2. ASSUME UNCHANGED discard PROVE DiscardOK'
  BY <1>1, <1>2 DEF DiscardOK, DiscardBounded
<1>3. ASSUME discard' = NoDiscard PROVE DiscardOK'
  BY <1>3 DEF DiscardOK, DiscardBounded, NoDiscard
<1>4. CASE \E p \in Packet : Send(p)
  BY <1>2, <1>4 DEF Send
<1>5. CASE Media \/ CallSetup \/ Open \/ Start \/ Suspend \/ Disconnect
  BY <1>2, <1>5 DEF Media, CallSetup, Open, Start, Suspend, Disconnect
<1>6. ASSUME RenewQueue PROVE DiscardOK'
  BY <1>6 DEF RenewQueue, DiscardOK, DiscardBounded
<1>7. ASSUME NEW s, app_audio_restore(s) PROVE DiscardOK'
  BY <1>2, <1>6, <1>7 DEF app_audio_restore
<1>8. CASE ScoDisconnect
  BY <1>2, <1>7, <1>8 DEF ScoDisconnect
<1>9. CASE WaveStop
  BY <1>7, <1>9 DEF WaveStop
<1>10. CASE DropFrames
  <2>1. CASE sco
    BY <2>1, <1>2, <1>10 DEF DropFrames
  <2>2. CASE ~sco
    <3>1. /\ discard.flag = 1 /\ discard.count < discard.data
          /\ discard' = [discard EXCEPT !.count = @ + 1]
      BY <2>2, <1>10 DEF DropFrames, Discarding
    <3> QED BY <3>1, <1>1 DEF DiscardOK, DiscardBounded
  <2> QED BY <2>1, <2>2
<1>11. CASE \E room \in 0 .. Room : Decode(room)
  BY <1>2, <1>3, <1>11 DEF Decode
<1>12. CASE ScoConnect
  BY <1>2, <1>12 DEF ScoConnect
<1>13. CASE WaveStart
  BY <1>2, <1>6, <1>13 DEF WaveStart, KeepQueue
<1>14. CASE UNCHANGED vars
  BY <1>2, <1>14 DEF vars
<1> QED BY <1>4, <1>5, <1>8, <1>9, <1>10, <1>11, <1>12, <1>13, <1>14 DEF Next

\* The frames a step decodes, if any, are fresh and outside calls and prompts.
LEMMA PlayedStep ==
  ASSUME IInv, [Next]_vars
  PROVE  played' \subseteq Frame /\ NoStaleAudio'
<1>1. ASSUME played' = {} PROVE played' \subseteq Frame /\ NoStaleAudio'
  BY <1>1 DEF NoStaleAudio
<1>2. CASE \E p \in Packet : Send(p)
  BY <1>1, <1>2 DEF Send
<1>3. CASE Media \/ CallSetup \/ Start \/ Suspend
  BY <1>1, <1>3 DEF Media, CallSetup, Start, Suspend, Next_HC_to_Host
<1>4. CASE Open \/ Disconnect \/ ScoConnect \/ ScoDisconnect
  BY <1>1, <1>4 DEF Open, Disconnect, ScoConnect, ScoDisconnect
<1>5. CASE WaveStart \/ WaveStop \/ DropFrames
  BY <1>1, <1>5 DEF WaveStart, WaveStop, DropFrames
<1>6. CASE \E room \in 0 .. Room : Decode(room)
  <2>1. PICK room \in 0 .. Room : Decode(room)
    BY <1>6
  <2> DEFINE m == Least(Least(room, ecout), Len(uselist))
  <2>2. /\ ~wave /\ ~sco /\ UNCHANGED <<wave, sco>>
        /\ played' = KindsIn(SubSeq(uselist, 1, m))
    BY <2>1 DEF Decode, MayDecode, flags
  <2>3. uselist \in Seq(Frame) /\ ecout \in Nat
    BY DEF IInv, TypeOK
  <2>4. m \in Nat /\ m <= Len(uselist)
    <3>1. Least(room, ecout) \in Nat
      <4>1. room \in Nat
        OBVIOUS
      <4> QED BY <4>1, <2>3, LeastFacts
    <3>2. Len(uselist) \in Nat
      BY <2>3
    <3> QED BY <3>1, <3>2, LeastFacts
  <2>5. \A i \in 1 .. Len(uselist) : uselist[i] = "fresh"
    BY <2>2 DEF IInv, StaleUnderPrompt
  <2> HIDE DEF m
  <2>6. /\ DOMAIN SubSeq(uselist, 1, m) = 1 .. m
        /\ \A i \in 1 .. m : SubSeq(uselist, 1, m)[i] = uselist[i]
    BY <2>3, <2>4
  <2>7. played' \subseteq {"fresh"}
    <3>1. \A i \in 1 .. m : uselist[i] = "fresh"
      BY <2>3, <2>4, <2>5
    <3> QED BY <3>1, <2>2, <2>6 DEF KindsIn
  <2> QED BY <2>2, <2>7 DEF NoStaleAudio, Frame
<1>7. CASE UNCHANGED vars
  BY <1>7 DEF IInv, TypeOK, NoStaleAudio, vars, flags
<1> QED BY <1>2, <1>3, <1>4, <1>5, <1>6, <1>7 DEF Next

\* The flags stay truth values.
FlagsOK == {initial, ptr, play, music, setup, sco, wave, dac} \subseteq BOOLEAN

\* Every flag a step sets is set to a truth value.
LEMMA FlagsStep ==
  ASSUME IInv, [Next]_vars
  PROVE  FlagsOK'
<1>1. FlagsOK
  BY DEF IInv, TypeOK, FlagsOK
<1> USE <1>1 DEF FlagsOK
<1>2. CASE \E p \in Packet : Send(p)
  BY <1>2 DEF Send, pool, flags
<1>3. CASE Media
  <2>1. initial' \in BOOLEAN
    BY <1>3 DEF Media, Fill, pool
  <2> QED BY <2>1, <1>3 DEF Media, flags
<1>4. CASE CallSetup
  BY <1>4 DEF CallSetup, pool
<1>5. CASE Open
  BY <1>5 DEF Open, flags
<1>6. CASE Start
  BY <1>6 DEF Start, DiscardAll, pool
<1>7. CASE Suspend
  BY <1>7 DEF Suspend, sbc_mem_pool_deinit
<1>8. CASE Disconnect
  BY <1>8 DEF Disconnect, sbc_mem_free, sbc_mem_pool_deinit
<1>9. CASE ScoConnect
  BY <1>9 DEF ScoConnect, sbc_mem_free, sbc_mem_pool_deinit
<1>10. ASSUME NEW s \in BOOLEAN, app_audio_restore(s)
       PROVE  {initial', play', dac'} \subseteq BOOLEAN
  BY <1>10 DEF app_audio_restore, RenewQueue, DiscardAll, pool
<1>11. CASE ScoDisconnect
  BY <1>10, <1>11 DEF ScoDisconnect, pool
<1>12. CASE WaveStart
  BY <1>12 DEF WaveStart, KeepQueue, RenewQueue, DiscardAll
<1>13. CASE WaveStop
  BY <1>10, <1>13 DEF WaveStop
<1>14. CASE DropFrames \/ (\E room \in 0 .. Room : Decode(room))
  BY <1>14 DEF DropFrames, Decode, Drop, flags
<1>15. CASE UNCHANGED vars
  BY <1>15 DEF vars, pool, flags
<1> QED BY <1>2, <1>3, <1>4, <1>5, <1>6, <1>7, <1>8, <1>9, <1>11, <1>12, <1>13,
           <1>14, <1>15 DEF Next

-----------------------------------------------------------------------------
\* The theorems.

\* The machine starts without a stream, a pool or anything to hear.
LEMMA InitIInv == Init => IInv
<1> SUFFICES ASSUME Init PROVE IInv
  OBVIOUS
<1>1. PoolGood
  BY DEF Init, PoolGood, PoolConserved
<1>2. AclGood /\ MediaAnnounced
  BY DEF Init, AclGood, MediaAnnounced
<1>3. DiscardOK
  BY DEF Init, DiscardOK, DiscardBounded, NoDiscard
<1>4. FlagsOK
  BY DEF Init, FlagsOK
<1>5. StreamFirst /\ QueueBelongs /\ StaleUnderPrompt /\ DacOpenIffUsed
  BY DEF Init, StreamFirst, QueueBelongs, StaleUnderPrompt, DacOpenIffUsed
<1>6. played \subseteq Frame /\ NoStaleAudio
  BY DEF Init, NoStaleAudio
<1> QED BY <1>1, <1>2, <1>3, <1>4, <1>5, <1>6
        DEF IInv, TypeOK, PoolGood, AclGood, DiscardOK, FlagsOK

\* No handler breaks it.
LEMMA NextIInv == IInv /\ [Next]_vars => IInv'
<1> SUFFICES ASSUME IInv, [Next]_vars PROVE IInv'
  OBVIOUS
<1> QED BY PoolStep, AclStep, StreamStep, QueueStep, DacStep, DiscardStep,
           PlayedStep, FlagsStep
        DEF IInv, TypeOK, PoolGood, AclGood, DiscardOK, FlagsOK

\* The inductive invariant holds always.
THEOREM Inductive == Spec => []IInv
BY InitIInv, NextIInv, PTL DEF Spec

\* The counts, the lists and the flags keep their types: in particular no list
\* ever holds more nodes than the pool has, and no count goes below zero.
THEOREM TypeCorrect == Spec => []TypeOK
<1>1. IInv => TypeOK
  BY DEF IInv
<1> QED BY <1>1, Inductive, PTL

\* sbc_fill_encode_buffer and the places that take nodes off the use list never
\* lose a node, and sbc_ecout counts exactly the queued frames.
THEOREM PoolNeverLeaks == Spec => []PoolConserved
<1>1. IInv => PoolConserved
  BY DEF IInv
<1> QED BY <1>1, Inductive, PTL

\* However music, calls and prompts interrupt one another, sbc_do_decode gives
\* the DSP no frame from before an interruption, and none in a call or under a
\* prompt.
THEOREM OldAudioNeverHeard == Spec => []NoStaleAudio
<1>1. IInv => NoStaleAudio
  BY DEF IInv
<1> QED BY <1>1, Inductive, PTL

\* aud_open and aud_close are balanced whatever begins and ends in which order.
THEOREM DacFollowsUsers == Spec => []DacOpenIffUsed
<1>1. IInv => DacOpenIffUsed
  BY DEF IInv
<1> QED BY <1>1, Inductive, PTL

\* The decoder starts to play only on a full cushion, and after the batches that
\* are to be discarded.
THEOREM CushionBeforePlaying == Spec => StartsWithCushion
<1> DEFINE Cushion ==
      ~play /\ play' => /\ Len(uselist) >= FirstTry
                        /\ discard.flag = 1 => discard.count = discard.data
<1>1. ASSUME IInv, [Next]_vars PROVE [Cushion]_vars
  <2> SUFFICES ASSUME ~play, play' PROVE Cushion
    OBVIOUS
  <2>1. ASSUME NEW room \in 0 .. Room, Decode(room) PROVE Cushion
    <3>1. initial /\ ecout >= FirstTry /\ ~Discarding
      BY <2>1 DEF Decode, MayDecode
    <3>2. ecout = Len(uselist)
      BY <1>1, <3>1 DEF IInv, PoolConserved
    <3>3. discard.flag = 1 => discard.count = discard.data
      BY <1>1, <3>1 DEF IInv, TypeOK, DiscardBounded, Discarding
    <3> QED BY <3>1, <3>2, <3>3
  <2>2. ASSUME play' = play \/ play' = FALSE PROVE Cushion
    BY <2>2
  <2>3. CASE (\E p \in Packet : Send(p)) \/ Media \/ CallSetup \/ Open
    BY <2>2, <2>3 DEF Send, Media, CallSetup, Open
  <2>4. CASE Start \/ Suspend \/ Disconnect \/ ScoConnect
    BY <2>2, <2>4 DEF Start, Suspend, Disconnect, ScoConnect, sbc_mem_free,
                      sbc_mem_pool_deinit
  <2>5. CASE ScoDisconnect \/ WaveStart \/ WaveStop \/ DropFrames
    BY <2>2, <2>5 DEF ScoDisconnect, WaveStart, WaveStop, DropFrames,
                      app_audio_restore
  <2>6. CASE UNCHANGED vars
    BY <2>2, <2>6 DEF vars
  <2> QED BY <1>1, <2>1, <2>3, <2>4, <2>5, <2>6 DEF Next
<1> QED BY <1>1, Inductive, PTL DEF Spec, StartsWithCushion
=============================================================================
