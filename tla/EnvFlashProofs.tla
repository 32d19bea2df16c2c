---------------------------- MODULE EnvFlashProofs ----------------------------
(***************************************************************************)
(* Theorems about EnvFlash for every number of blocks, pages and values.   *)
(***************************************************************************)
EXTENDS EnvFlash, TLAPS

USE EnvFlashAssumption DEF EnvFlashAssumption

\* The inductive invariant.  What a free block holds and what the scan has left
\* behind are needed to know that the reader never sees an older image.
FreeIsBlank == \A b \in Block : tag[b] = "free" => page[b] = BlankImage

\* Every block before the one the scan is at is dead.
ScanLeavesDead == pc = "scan" => DeadBefore(tag, i)

AllDead == \A b \in Block : tag[b] = "dead"
EraseOfDead == pc = "erase" => i = Blocks /\ AllDead

\* While an image is written to block i, the pages before n hold the image, the
\* others are erased, the tag is set by the first page, and no block before i
\* can be read.
WriteUnderWay ==
  pc = "write" =>
    /\ i \in Block /\ n \in Page
    /\ DeadBefore(tag, i)
    /\ tag[i] = IF n = 1 THEN "free" ELSE "valid"
    /\ \A p \in Page : page[i][p] = IF p < n THEN ram[p] ELSE Blank

IInv ==
  /\ TypeOK
  /\ OneValidBlock
  /\ FreeIsBlank
  /\ ScanLeavesDead
  /\ EraseOfDead
  /\ WriteUnderWay

\* An erased image is an image.
LEMMA BlankIsImage == BlankImage \in Image
BY DEF BlankImage, Image

\* What the reader of a sector gets, when it is known which block it finds.
LEMMA ReadsFirst ==
  ASSUME NEW t, NEW q, NEW b \in Block, t[b] # "dead", DeadBefore(t, b)
  PROVE  Read(t, q) = q[b]
<1>1. FirstLive(t) = {b}
  BY DEF FirstLive, DeadBefore, Block
<1> QED BY <1>1 DEF Read

\* A sector without a valid block, whose free blocks are erased, reads as erased.
LEMMA ReadsBlank ==
  ASSUME NEW t \in [Block -> Tag], NEW q,
         \A b \in Block : t[b] # "valid",
         \A b \in Block : t[b] = "free" => q[b] = BlankImage
  PROVE  Read(t, q) = BlankImage
<1>1. CASE FirstLive(t) = {}
  BY <1>1 DEF Read
<1>2. CASE FirstLive(t) # {}
  <2>1. PICK b \in FirstLive(t) : b = CHOOSE c \in FirstLive(t) : TRUE
    BY <1>2
  <2>2. b \in Block /\ t[b] = "free"
    BY <2>1 DEF FirstLive, Tag
  <2> QED BY <1>2, <2>1, <2>2 DEF Read
<1> QED BY <1>1, <1>2

\* What is read is an image.
LEMMA ReadsImage ==
  ASSUME NEW t, NEW q \in [Block -> Image]
  PROVE  Read(t, q) \in Image
<1>1. CASE FirstLive(t) = {}
  BY <1>1, BlankIsImage DEF Read
<1>2. CASE FirstLive(t) # {}
  <2>1. PICK b \in FirstLive(t) : b = CHOOSE c \in FirstLive(t) : TRUE
    BY <1>2
  <2> QED BY <1>2, <2>1 DEF Read, FirstLive
<1> QED BY <1>1, <1>2

------------------------------------------------------------------------------
\* An erased sector satisfies the invariant.
LEMMA IInvInit == Init => IInv
<1> SUFFICES ASSUME Init PROVE IInv
  OBVIOUS
<1>1. TypeOK
  <2>1. failed \in BOOLEAN
    BY ZenonT(20) DEF Init
  <2>2. tag \in [Block -> Tag] /\ page \in [Block -> Image] /\ ram \in Image
    BY BlankIsImage DEF Init, Tag
  <2>3. /\ pc \in {"idle", "scan", "erase", "write"}
        /\ i \in 0 .. Blocks /\ n \in 1 .. Pages + 1
    BY EnvFlashAssumption DEF Init, EnvFlashAssumption
  <2> QED BY <2>1, <2>2, <2>3, ZenonT(20) DEF TypeOK
<1>2. OneValidBlock /\ FreeIsBlank
  BY DEF Init, OneValidBlock, ValidBlocks, FreeIsBlank
<1>3. ScanLeavesDead /\ EraseOfDead /\ WriteUnderWay
  BY DEF Init, ScanLeavesDead, EraseOfDead, WriteUnderWay
<1> QED BY <1>1, <1>2, <1>3 DEF IInv

\* Erasing blocks of a sector whose blocks are all dead leaves no valid block.
LEMMA EraseBlocksKeeps ==
  ASSUME IInv, pc = "erase", NEW S \in SUBSET Block, EraseBlocks(S)
  PROVE  /\ tag' \in [Block -> Tag] /\ page' \in [Block -> Image]
         /\ \A b \in Block : tag'[b] = IF b \in S THEN "free" ELSE "dead"
         /\ \A b \in S : page'[b] = BlankImage
         /\ OneValidBlock' /\ FreeIsBlank'
<1>1. \A b \in Block : tag'[b] = IF b \in S THEN "free" ELSE "dead"
  BY DEF IInv, EraseOfDead, AllDead, EraseBlocks
<1>2. tag' \in [Block -> Tag] /\ page' \in [Block -> Image]
  BY BlankIsImage DEF IInv, TypeOK, EraseBlocks, Tag
<1>3. \A b \in S : page'[b] = BlankImage
  BY DEF EraseBlocks
<1>4. OneValidBlock'
  BY <1>1 DEF OneValidBlock, ValidBlocks
<1>5. FreeIsBlank'
  BY <1>1, <1>3 DEF FreeIsBlank
<1> QED BY <1>1, <1>2, <1>3, <1>4, <1>5

\* Every step keeps the invariant.
LEMMA IInvNext == IInv /\ [Next]_vars => IInv'
<1> SUFFICES ASSUME IInv, [Next]_vars PROVE IInv'
  OBVIOUS
<1> USE DEF IInv
<1>1. ASSUME NEW p \in Page, NEW v \in Value, Change(p, v)
      PROVE  IInv'
  <2>1. TypeOK'
    BY <1>1 DEF Change, TypeOK, flash, Image
  <2> QED
    BY <1>1, <2>1 DEF Change, flash, OneValidBlock, ValidBlocks, FreeIsBlank, DeadBefore,
          ScanLeavesDead, EraseOfDead, WriteUnderWay
<1>2. CASE ClearAll
  <2>1. TypeOK'
    BY <1>2, BlankIsImage DEF ClearAll, TypeOK, flash
  <2> QED
    BY <1>2, <2>1 DEF ClearAll, flash, OneValidBlock, ValidBlocks, FreeIsBlank, DeadBefore,
          ScanLeavesDead, EraseOfDead, WriteUnderWay
<1>3. CASE Save
  <2>1. TypeOK'
    <3>1. failed' \in BOOLEAN
      BY <1>3, ZenonT(20) DEF Save
    <3>2. /\ tag' \in [Block -> Tag] /\ page' \in [Block -> Image] /\ ram' \in Image
          /\ pc' \in {"idle", "scan", "erase", "write"}
          /\ i' \in 0 .. Blocks /\ n' \in 1 .. Pages + 1
      BY <1>3, EnvFlashAssumption DEF Save, TypeOK, flash, EnvFlashAssumption
    <3> QED BY <3>1, <3>2, ZenonT(20) DEF TypeOK
  <2>2. ScanLeavesDead'
    BY <1>3 DEF Save, ScanLeavesDead, DeadBefore, Block
  <2> QED
    BY <1>3, <2>1, <2>2 DEF Save, flash, OneValidBlock, ValidBlocks, FreeIsBlank, DeadBefore,
          EraseOfDead, WriteUnderWay
<1>4. CASE Override
  <2>1. TypeOK'
    BY <1>4 DEF Override, Scanning, TypeOK, Tag, Block
  <2>2. \A b \in Block : tag'[b] = IF b = i THEN "dead" ELSE tag[b]
    BY <1>4 DEF Override, TypeOK
  <2>3. OneValidBlock' /\ FreeIsBlank'
    BY <1>4, <2>2 DEF Override, OneValidBlock, ValidBlocks, DeadBefore, FreeIsBlank
  <2>4. ScanLeavesDead'
    BY <1>4, <2>2 DEF Override, Scanning, ScanLeavesDead, DeadBefore, Block
  <2> QED
    BY <1>4, <2>1, <2>3, <2>4 DEF Override, Scanning, EraseOfDead, WriteUnderWay
<1>5. CASE Skip
  <2>1. TypeOK'
    BY <1>5 DEF Skip, Scanning, TypeOK, flash, Block
  <2>2. ScanLeavesDead'
    BY <1>5 DEF Skip, Scanning, flash, ScanLeavesDead, DeadBefore, Block
  <2> QED
    BY <1>5, <2>1, <2>2 DEF Skip, Scanning, flash, OneValidBlock, ValidBlocks, DeadBefore,
          FreeIsBlank, EraseOfDead, WriteUnderWay
<1>6. CASE TakeFree
  <2>1. TypeOK'
    BY <1>6 DEF TakeFree, TypeOK, flash
  <2>2. WriteUnderWay'
    BY <1>6 DEF TakeFree, Scanning, flash, WriteUnderWay, ScanLeavesDead, DeadBefore,
          FreeIsBlank, BlankImage, Page
  <2> QED
    BY <1>6, <2>1, <2>2 DEF TakeFree, Scanning, flash, OneValidBlock, ValidBlocks, DeadBefore,
          FreeIsBlank, ScanLeavesDead, EraseOfDead
<1>7. CASE NoneFree
  <2>1. TypeOK'
    BY <1>7 DEF NoneFree, TypeOK, flash
  <2>2. EraseOfDead'
    BY <1>7 DEF NoneFree, flash, EraseOfDead, AllDead, ScanLeavesDead, DeadBefore, Block
  <2> QED
    BY <1>7, <2>1, <2>2 DEF NoneFree, flash, OneValidBlock, ValidBlocks, DeadBefore,
          FreeIsBlank, ScanLeavesDead, WriteUnderWay
<1>8. CASE Erase
  <2>1. /\ tag' \in [Block -> Tag] /\ page' \in [Block -> Image]
        /\ \A b \in Block : tag'[b] = "free" /\ page'[b] = BlankImage
        /\ OneValidBlock' /\ FreeIsBlank'
    BY <1>8, EraseBlocksKeeps DEF Erase
  <2>2. TypeOK'
    BY <1>8, <2>1 DEF Erase, TypeOK
  <2>3. WriteUnderWay'
    BY <1>8, <2>1 DEF Erase, WriteUnderWay, DeadBefore, Block, Page, BlankImage
  <2> QED
    BY <1>8, <2>1, <2>2, <2>3 DEF Erase, ScanLeavesDead, EraseOfDead
<1>9. CASE WritePage
  <2>1. /\ i \in Block /\ n \in Page /\ DeadBefore(tag, i)
        /\ tag[i] = IF n = 1 THEN "free" ELSE "valid"
        /\ \A p \in Page : page[i][p] = IF p < n THEN ram[p] ELSE Blank
    BY <1>9 DEF WritePage, WriteUnderWay
  <2>2. /\ \A b \in Block : tag'[b] = IF b = i THEN "valid" ELSE tag[b]
        /\ tag' \in [Block -> Tag]
    BY <1>9, <2>1 DEF WritePage, TypeOK, Tag
  <2>3. /\ \A b \in Block : b # i => page'[b] = page[b]
        /\ \A p \in Page : page'[i][p] = IF p = n THEN ram[n] ELSE page[i][p]
        /\ page' \in [Block -> Image]
    <3>1. page[i] \in Image /\ ram[n] \in Value \cup {Blank}
      BY <2>1 DEF TypeOK, Image
    <3>2. [page[i] EXCEPT ![n] = ram[n]] \in Image
      BY <3>1 DEF Image
    <3> QED BY <1>9, <2>1, <3>1, <3>2 DEF WritePage, TypeOK, Image
  <2>4. TypeOK'
    BY <1>9, <2>1, <2>2, <2>3 DEF WritePage, TypeOK, Page
  <2>5. OneValidBlock'
    <3>1. ASSUME NEW b \in Block, tag'[b] = "valid"
          PROVE  b = i
      <4>1. SUFFICES ASSUME b # i PROVE FALSE
        OBVIOUS
      <4>2. tag[b] = "valid" /\ DeadBefore(tag, b)
        BY <2>2, <3>1, <4>1 DEF OneValidBlock, ValidBlocks
      <4>3. b < i \/ i < b
        BY <2>1, <4>1 DEF Block
      <4> QED BY <2>1, <4>2, <4>3 DEF DeadBefore
    <3> QED BY <2>1, <2>2, <3>1 DEF OneValidBlock, ValidBlocks, DeadBefore, Block
  <2>6. FreeIsBlank'
    BY <2>2, <2>3 DEF FreeIsBlank
  <2>7. WriteUnderWay'
    <3>1. SUFFICES ASSUME pc' = "write"
                   PROVE  /\ i' \in Block /\ n' \in Page
                          /\ DeadBefore(tag', i')
                          /\ tag'[i'] = IF n' = 1 THEN "free" ELSE "valid"
                          /\ \A p \in Page : page'[i'][p] = IF p < n' THEN ram'[p] ELSE Blank
      BY DEF WriteUnderWay
    <3>2. i' = i /\ n' = n + 1 /\ n' \in Page /\ n' # 1 /\ ram' = ram
      BY <1>9, <2>1, <3>1 DEF WritePage, Page
    <3>3. DeadBefore(tag', i)
      BY <2>1, <2>2 DEF DeadBefore, Block
    <3>4. ASSUME NEW p \in Page
          PROVE  page'[i][p] = IF p < n + 1 THEN ram[p] ELSE Blank
      BY <2>1, <2>3 DEF Page
    <3> QED BY <2>1, <2>2, <3>2, <3>3, <3>4
  <2> QED
    BY <1>9, <2>4, <2>5, <2>6, <2>7 DEF WritePage, ScanLeavesDead, EraseOfDead
<1>10. CASE PowerFail
  <2>1. TypeOK'
    BY <1>10, ReadsImage DEF PowerFail, TypeOK, flash, Recovered
  <2> QED
    BY <1>10, <2>1 DEF PowerFail, flash, OneValidBlock, ValidBlocks, FreeIsBlank, DeadBefore,
          ScanLeavesDead, EraseOfDead, WriteUnderWay
<1>11. ASSUME NEW S \in SUBSET Block, PowerFailInErase(S)
       PROVE  IInv'
  <2>1. /\ tag' \in [Block -> Tag] /\ page' \in [Block -> Image]
        /\ OneValidBlock' /\ FreeIsBlank'
    BY <1>11, EraseBlocksKeeps DEF PowerFailInErase
  <2>2. TypeOK'
    BY <1>11, <2>1, ReadsImage DEF PowerFailInErase, TypeOK
  <2> QED
    BY <1>11, <2>1, <2>2 DEF PowerFailInErase, ScanLeavesDead, EraseOfDead, WriteUnderWay
<1>12. CASE UNCHANGED vars
  BY <1>12 DEF vars, flash, TypeOK, OneValidBlock, ValidBlocks, FreeIsBlank, DeadBefore,
        ScanLeavesDead, EraseOfDead, AllDead, WriteUnderWay
<1> QED
  BY <1>1, <1>2, <1>3, <1>4, <1>5, <1>6, <1>7, <1>8, <1>9, <1>10, <1>11, <1>12 DEF Next

\* Hence it holds in every reachable state.
LEMMA IInvInvariant == Spec => []IInv
BY IInvInit, IInvNext, PTL DEF Spec

\* Every variable keeps its type: the block index and the page counter stay in
\* range (app_env.c 947-971).
THEOREM TypeCorrect == Spec => []TypeOK
<1>1. IInv => TypeOK
  BY DEF IInv
<1> QED BY <1>1, IInvInvariant, PTL

\* The reader's "first block that is valid or free" is the only valid one
\* (app_env.c 922-939).
THEOREM OneValidCorrect == Spec => []OneValidBlock
<1>1. IInv => OneValidBlock
  BY DEF IInv
<1> QED BY <1>1, IInvInvariant, PTL

\* A page is programmed only while it is erased: programming clears bits, so a
\* second image written over a first would be neither (driver_flash.c 603-667).
THEOREM ProgramsErasedCorrect == Spec => ProgramsErased
<1> DEFINE Once == \A b \in Block, p \in Page :
                     page'[b][p] # page[b][p] => page[b][p] = Blank \/ page'[b] = BlankImage
<1>1. IInv /\ [Next]_vars => [Once]_vars
  <2> SUFFICES ASSUME IInv, Next PROVE Once
    BY DEF vars
  <2>1. CASE page' = page
    BY <2>1
  <2>2. CASE WritePage
    <3>1. i \in Block /\ n \in Page /\ page[i][n] = Blank
      BY <2>2 DEF IInv, WritePage, WriteUnderWay, Page
    <3>2. \A b \in Block, p \in Page :
            page'[b][p] # page[b][p] => b = i /\ p = n
      BY <2>2, <3>1 DEF IInv, WritePage, TypeOK, Image
    <3> QED BY <3>1, <3>2
  <2>3. ASSUME NEW S \in SUBSET Block, EraseBlocks(S)
        PROVE  Once
    BY <2>3 DEF EraseBlocks
  <2>4. CASE Erase
    BY <2>3, <2>4 DEF Erase
  <2>5. ASSUME NEW S \in SUBSET Block, PowerFailInErase(S)
        PROVE  Once
    BY <2>3, <2>5 DEF PowerFailInErase
  <2> HIDE DEF Once
  <2> QED
    BY <2>1, <2>2, <2>4, <2>5
    DEF Next, Change, ClearAll, Save, Override, Skip, TakeFree, NoneFree, PowerFail, flash
<1>2. IInv /\ [Next]_vars => [Once]_vars
  BY <1>1
<1> QED BY <1>2, IInvInvariant, PTL DEF Spec, ProgramsErased

------------------------------------------------------------------------------
\* The sector implements the abstract store: a reader gets the last image saved
\* or the beginning of the one that was being saved, never a mixture and never
\* an older one (app_env.c 922-972).
THEOREM SectorIsEnvStorage == Spec => IsEnvStorage
<1> DEFINE saved == IF Busy THEN ram ELSE BlankImage
<1>b. Storage!BlankImage = BlankImage /\ Storage!Image = Image /\ Storage!Page = Page
  BY DEF Storage!BlankImage, Storage!Image, Storage!Page, BlankImage, Image, Page
<1>1. Init => Storage!Init
  <2> SUFFICES ASSUME Init PROVE Storage!Init
    OBVIOUS
  <2>1. Recovered = BlankImage
    BY ReadsBlank DEF Init, Recovered, Tag
  <2> QED BY <1>b, <2>1 DEF Init, Storage!Init, Busy
<1>2. IInv /\ IInv' /\ [Next]_vars => [Storage!Next]_(Storage!vars)
  <2> SUFFICES ASSUME IInv, IInv', [Next]_vars
               PROVE  [Storage!Next]_(Storage!vars)
    OBVIOUS
  <2> USE DEF IInv
  <2>1. ASSUME UNCHANGED <<tag, page>>
        PROVE  Recovered' = Recovered
    BY <2>1 DEF Recovered
  <2>2. ASSUME UNCHANGED <<Recovered, Busy, saved, failed>>
        PROVE  UNCHANGED Storage!vars
    BY <2>2 DEF Storage!vars
  <2>3. AllDead => Recovered = BlankImage
    BY ReadsBlank DEF AllDead, Recovered, TypeOK
  <2>4. ASSUME NEW p \in Page, NEW v \in Value, Change(p, v)
        PROVE  UNCHANGED Storage!vars
    BY <2>1, <2>2, <2>4 DEF Change, flash, Busy
  <2>5. CASE ClearAll
    <3>1. UNCHANGED Storage!vars
      BY <2>1, <2>2, <2>5 DEF ClearAll, flash, Busy
    <3> QED BY <3>1
  <2>6. CASE Save
    <3>1. ram \in Image
      BY DEF TypeOK
    <3>2. Storage!Begin
      BY <1>b, <2>1, <2>6, <3>1 DEF Save, flash, Busy, Storage!Begin
    <3> QED BY <3>2 DEF Storage!Next
  <2>7. CASE Override
    <3>1. \A b \in Block : tag'[b] # "valid"
      <4>1. ASSUME NEW b \in Block, tag'[b] = "valid"
            PROVE  FALSE
        <5>1. b # i /\ tag[b] = "valid" /\ i \in Block /\ tag[i] = "valid"
          BY <2>7, <4>1 DEF Override, Scanning, TypeOK, Tag
        <5>2. b < i \/ i < b
          BY <5>1 DEF Block
        <5> QED BY <5>1, <5>2 DEF OneValidBlock, ValidBlocks, DeadBefore
      <4> QED BY <4>1
    <3>2. tag' \in [Block -> Tag] /\ \A b \in Block : tag'[b] = "free" => page'[b] = BlankImage
      BY DEF TypeOK, FreeIsBlank
    <3>3. Recovered' = BlankImage
      BY <3>1, <3>2, ReadsBlank DEF Recovered
    <3>4. Storage!GiveUp
      BY <1>b, <2>7, <3>3 DEF Override, Scanning, Busy, Storage!GiveUp
    <3> QED BY <3>4 DEF Storage!Next
  <2>8. CASE Skip
    <3>1. UNCHANGED Storage!vars
      BY <2>1, <2>2, <2>8 DEF Skip, Scanning, flash, Busy
    <3> QED BY <3>1
  <2>9. CASE TakeFree
    <3>1. UNCHANGED Storage!vars
      BY <2>1, <2>2, <2>9 DEF TakeFree, Scanning, flash, Busy
    <3> QED BY <3>1
  <2>10. CASE NoneFree
    <3>1. UNCHANGED Storage!vars
      BY <2>1, <2>2, <2>10 DEF NoneFree, flash, Busy
    <3> QED BY <3>1
  <2>11. ASSUME NEW S \in SUBSET Block, pc = "erase", EraseBlocks(S)
         PROVE  Recovered = BlankImage /\ Recovered' = BlankImage
    <3>1. Recovered = BlankImage
      BY <2>3, <2>11 DEF EraseOfDead
    <3>2. /\ tag' \in [Block -> Tag]
          /\ \A b \in Block : tag'[b] = IF b \in S THEN "free" ELSE "dead"
          /\ \A b \in S : page'[b] = BlankImage
      BY <2>11, EraseBlocksKeeps
    <3>3. /\ \A b \in Block : tag'[b] # "valid"
          /\ \A b \in Block : tag'[b] = "free" => page'[b] = BlankImage
      BY <3>2
    <3> QED BY <3>1, <3>2, <3>3, ReadsBlank DEF Recovered
  <2>12. CASE Erase
    <3>1. Recovered' = Recovered
      BY <2>11, <2>12 DEF Erase
    <3>2. UNCHANGED Storage!vars
      BY <2>2, <2>12, <3>1 DEF Erase, Busy
    <3> QED BY <3>2
  <2>13. CASE WritePage
    <3>1. /\ i \in Block /\ n \in Page /\ DeadBefore(tag, i)
          /\ tag[i] = IF n = 1 THEN "free" ELSE "valid"
          /\ \A p \in Page : page[i][p] = IF p < n THEN ram[p] ELSE Blank
      BY <2>13 DEF WritePage, WriteUnderWay
    <3>2. Recovered = page[i]
      BY <3>1, ReadsFirst DEF Recovered
    <3>3. tag'[i] # "dead" /\ DeadBefore(tag', i)
      BY <2>13, <3>1 DEF WritePage, DeadBefore, TypeOK, Block
    <3>4. Recovered' = page'[i]
      BY <3>1, <3>3, ReadsFirst DEF Recovered
    <3>5. page[i] \in Image /\ page'[i] = [page[i] EXCEPT ![n] = ram[n]]
      BY <2>13, <3>1 DEF WritePage, TypeOK
    <3>6. page[i] = Storage!Prefix(ram, n - 1)
      <4>1. page[i] = [p \in Page |-> page[i][p]]
        BY <3>5 DEF Image
      <4>2. \A p \in Page : page[i][p] = IF p <= n - 1 THEN ram[p] ELSE Blank
        BY <3>1 DEF Page
      <4>3. page[i] = [p \in Page |-> IF p <= n - 1 THEN ram[p] ELSE Blank]
        BY <4>1, <4>2
      <4> QED BY <1>b, <4>3 DEF Storage!Prefix
    <3>7. page'[i] = Storage!Prefix(ram, n)
      <4>1. page'[i] = [p \in Page |-> IF p = n THEN ram[n] ELSE page[i][p]]
        BY <3>5 DEF Image
      <4>2. \A p \in Page : (IF p = n THEN ram[n] ELSE page[i][p])
                             = IF p <= n THEN ram[p] ELSE Blank
        BY <3>1 DEF Page
      <4>3. page'[i] = [p \in Page |-> IF p <= n THEN ram[p] ELSE Blank]
        BY <4>1, <4>2
      <4> QED BY <1>b, <4>3 DEF Storage!Prefix
    <3>8. saved = ram /\ Busy
      BY <2>13 DEF WritePage, Busy
    <3>9. IF n = Pages THEN Storage!End ELSE UNCHANGED <<Busy, saved>>
      BY <1>b, <2>13, <3>8 DEF WritePage, Busy, Storage!End
    <3>10. Storage!Write(n)
      BY <2>13, <3>2, <3>4, <3>6, <3>7, <3>8, <3>9 DEF WritePage, Storage!Write
    <3> QED BY <1>b, <3>1, <3>10 DEF Storage!Next
  <2>14. CASE PowerFail
    <3>1. CASE Busy
      <4>1. Storage!Fail
        BY <1>b, <2>1, <2>14, <3>1 DEF PowerFail, flash, Busy, Storage!Fail, Storage!End
      <4> QED BY <4>1 DEF Storage!Next
    <3>2. CASE ~Busy
      <4>1. UNCHANGED Storage!vars
        BY <2>1, <2>2, <2>14, <3>2 DEF PowerFail, flash, Busy, TypeOK
      <4> QED BY <4>1
    <3> QED BY <3>1, <3>2
  <2>15. ASSUME NEW S \in SUBSET Block, PowerFailInErase(S)
         PROVE  Storage!Next
    <3>1. Recovered' = Recovered
      BY <2>11, <2>15 DEF PowerFailInErase
    <3>2. Storage!Fail
      BY <1>b, <2>15, <3>1 DEF PowerFailInErase, Busy, Storage!Fail, Storage!End
    <3> QED BY <3>2 DEF Storage!Next
  <2>16. CASE UNCHANGED vars
    <3>1. UNCHANGED Storage!vars
      BY <2>1, <2>2, <2>16 DEF vars, flash, Busy
    <3> QED BY <3>1
  <2> QED
    BY <2>4, <2>5, <2>6, <2>7, <2>8, <2>9, <2>10, <2>12, <2>13, <2>14, <2>15, <2>16 DEF Next
<1> QED BY <1>1, <1>2, IInvInvariant, PTL DEF Spec, IsEnvStorage, Storage!Spec
==============================================================================
