------------------------------- MODULE EnvFlash -------------------------------
(***************************************************************************)
(* The flash sector that keeps env_data: app_flash_read_env_data and       *)
(* app_flash_write_env_data of host/port/beken_app/app_env.c, over         *)
(* flash_write_data and flash_erase_sector of driver_flash.c.  A 4 KB      *)
(* sector is used as eight blocks, one image each.  The first byte of a    *)
(* block is its tag: 0xff free, 0x5a valid, 0x00 dead.  A save overrides   *)
(* the tag of the valid block, writes the image to the next free block,    *)
(* and erases the sector when there is none.                               *)
(*                                                                         *)
(* The power may fail between any two programming operations; one          *)
(* operation (a page of 32 bytes, which holds the tag in its first byte,   *)
(* or the tag alone) is done or not.  An erase cut short leaves each block *)
(* erased or untouched.                                                    *)
(***************************************************************************)
EXTENDS Naturals, FiniteSets

CONSTANTS Value,      \* what a page of env_data may hold
          Pages,      \* pages in one image
          Blocks,     \* 8
          Blank       \* an erased page

ASSUME EnvFlashAssumption ==
  /\ Pages \in Nat \ {0}
  /\ Blocks \in Nat \ {0}
  /\ Blank \notin Value

Page == 1 .. Pages
Block == 0 .. Blocks - 1
Image == [Page -> Value \cup {Blank}]
BlankImage == [p \in Page |-> Blank]
Tag == {"free", "valid", "dead"}

VARIABLES tag,        \* the first byte of each block
          page,       \* the pages of each block
          ram,        \* env_h->env_data
          pc,         \* where app_flash_write_env_data is
          i,          \* its block index
          n,          \* the page flash_write_data programs next
          failed      \* history: the save begun last was cut short

vars == <<tag, page, ram, pc, i, n, failed>>
flash == <<tag, page>>

TypeOK ==
  /\ tag \in [Block -> Tag]
  /\ page \in [Block -> Image]
  /\ ram \in Image
  /\ pc \in {"idle", "scan", "erase", "write"}
  /\ i \in 0 .. Blocks
  /\ n \in 1 .. Pages + 1
  /\ failed \in BOOLEAN

------------------------------------------------------------------------------
\* app_flash_read_env_data: the first block that is valid or free is read; a
\* free one reads as erased, and so does a sector whose blocks are all dead.
DeadBefore(t, b) == \A c \in Block : c < b => t[c] = "dead"
FirstLive(t) == {b \in Block : t[b] # "dead" /\ DeadBefore(t, b)}
Read(t, p) == IF FirstLive(t) = {} THEN BlankImage
              ELSE p[CHOOSE b \in FirstLive(t) : TRUE]

Recovered == Read(tag, page)

Init ==
  /\ tag = [b \in Block |-> "free"]
  /\ page = [b \in Block |-> BlankImage]
  /\ ram = BlankImage
  /\ pc = "idle"
  /\ i = 0
  /\ n = 1
  /\ failed = FALSE

\* A device is paired, a volume or a playing position changes.
Change(p, v) ==
  /\ pc = "idle"
  /\ ram' = [ram EXCEPT ![p] = v]
  /\ UNCHANGED <<flash, pc, i, n, failed>>

\* app_env_clear_all_key_info: memset(&env_data, 0xff).
ClearAll ==
  /\ pc = "idle"
  /\ ram' = BlankImage
  /\ UNCHANGED <<flash, pc, i, n, failed>>

\* Entry of app_flash_write_env_data.
Save ==
  /\ pc = "idle"
  /\ pc' = "scan"
  /\ i' = 0
  /\ failed' = FALSE
  /\ UNCHANGED <<flash, ram, n>>

Scanning(t) ==
  /\ pc = "scan"
  /\ i \in Block
  /\ tag[i] = t

\* Mutant: the old block keeps its tag.
OverrideNothing ==
  /\ Scanning("valid")
  /\ i' = i + 1
  /\ UNCHANGED <<flash, ram, pc, n, failed>>

\* The valid block met by the scan: its tag is overridden by 0.
Override ==
  /\ Scanning("valid")
  /\ tag' = [tag EXCEPT ![i] = "dead"]
  /\ i' = i + 1
  /\ UNCHANGED <<page, ram, pc, n, failed>>

Skip ==
  /\ Scanning("dead")
  /\ i' = i + 1
  /\ UNCHANGED <<flash, ram, pc, n, failed>>

\* Mutant: pages are counted from zero.
TakeFreeFromZero ==
  /\ Scanning("free")
  /\ pc' = "write"
  /\ n' = 0
  /\ UNCHANGED <<flash, ram, i, failed>>

TakeFree ==
  /\ Scanning("free")
  /\ pc' = "write"
  /\ n' = 1
  /\ UNCHANGED <<flash, ram, i, failed>>

\* Mutant: the write after an erase goes to the block the scan ended at.
EraseKeepsIndex ==
  /\ pc = "erase"
  /\ tag' = [b \in Block |-> "free"]
  /\ page' = [b \in Block |-> BlankImage]
  /\ pc' = "write"
  /\ n' = 1
  /\ UNCHANGED <<ram, i, failed>>

NoneFree ==
  /\ pc = "scan"
  /\ i = Blocks
  /\ pc' = "erase"
  /\ UNCHANGED <<flash, ram, i, n, failed>>

\* The blocks of S are erased.
EraseBlocks(S) ==
  /\ tag' = [b \in Block |-> IF b \in S THEN "free" ELSE tag[b]]
  /\ page' = [b \in Block |-> IF b \in S THEN BlankImage ELSE page[b]]

\* flash_erase_sector(FLASH_ENVDATA2_DEF_ADDR, FLASH_ERASE_4K)
Erase ==
  /\ pc = "erase"
  /\ EraseBlocks(Block)
  /\ pc' = "write"
  /\ i' = 0
  /\ n' = 1
  /\ UNCHANGED <<ram, failed>>

\* Mutant: the tag is set by the last page instead of the first.
WriteTagLast ==
  /\ pc = "write"
  /\ page' = [page EXCEPT ![i][n] = ram[n]]
  /\ tag' = IF n = Pages THEN [tag EXCEPT ![i] = "valid"] ELSE tag
  /\ n' = n + 1
  /\ pc' = IF n = Pages THEN "idle" ELSE "write"
  /\ UNCHANGED <<ram, i, failed>>

\* One turn of the loop of flash_write_data; the first page carries the tag.
\* Programming only clears bits, so a page is written as intended only when it
\* was erased (ProgramsErased).
WritePage ==
  /\ pc = "write"
  /\ page' = [page EXCEPT ![i][n] = ram[n]]
  /\ tag' = IF n = 1 THEN [tag EXCEPT ![i] = "valid"] ELSE tag
  /\ n' = n + 1
  /\ pc' = IF n = Pages THEN "idle" ELSE "write"
  /\ UNCHANGED <<ram, i, failed>>

\* The power fails and comes back: app_env_init reads the sector again.
PowerFail ==
  /\ pc' = "idle"
  /\ ram' = Recovered
  /\ failed' = (failed \/ pc # "idle")
  /\ UNCHANGED <<flash, i, n>>

PowerFailInErase(S) ==
  /\ pc = "erase"
  /\ EraseBlocks(S)
  /\ pc' = "idle"
  /\ ram' = Read(tag', page')
  /\ failed' = TRUE
  /\ UNCHANGED <<i, n>>

Next ==
  \/ \E p \in Page, v \in Value : Change(p, v)
  \/ ClearAll
  \/ Save
  \/ Override
  \/ Skip
  \/ TakeFree
  \/ NoneFree
  \/ Erase
  \/ WritePage
  \/ PowerFail
  \/ \E S \in SUBSET Block : PowerFailInErase(S)

Spec == Init /\ [][Next]_vars

------------------------------------------------------------------------------
ValidBlocks == {b \in Block : tag[b] = "valid"}

\* Whatever saves and power failures came before, there is at most one valid
\* block and every block before it is dead, so the reader's "first block that
\* is valid or free" (app_env.c 922-939) is that block and none is older.
OneValidBlock == \A b \in ValidBlocks : DeadBefore(tag, b)

\* A page is programmed only while it is erased, or the result would be the
\* bitwise AND of two images: the scan never picks a block that a save cut
\* short has begun (app_env.c 946-971).
ProgramsErased ==
  [][\A b \in Block, p \in Page :
        page'[b][p] # page[b][p] => page[b][p] = Blank \/ page'[b] = BlankImage]_vars

\* "0x5a: this block is valid env data" (app_env.c 918): outside a save, a
\* block with the tag 0x5a has had all its pages programmed.
TaggedBlockIsWhole ==
  pc = "idle" /\ ValidBlocks # {} => n > Pages

\* The sector is the store EnvStorage promises.
Busy == pc # "idle"
Storage == INSTANCE EnvStorage WITH
             stored <- Recovered,
             busy <- Busy,
             saving <- IF Busy THEN ram ELSE BlankImage
IsEnvStorage == Storage!Spec
==============================================================================
