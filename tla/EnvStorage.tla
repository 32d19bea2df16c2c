------------------------------ MODULE EnvStorage ------------------------------
(***************************************************************************)
(* What the settings sector of host/port/beken_app/app_env.c promises: one *)
(* image of env_data (paired devices, volumes, playing positions), written *)
(* page by page, that a power failure may cut short.  What is read back is *)
(* the last image saved, or the beginning of the one being saved when the  *)
(* power failed, followed by erased pages.  It is never a mixture of two   *)
(* images and never an image older than the last one saved, and a save     *)
(* that is not cut short leaves the whole image.                           *)
(*                                                                         *)
(* It is not an atomic store: from the first step of a save on, the image  *)
(* that was there is gone (EnvFlash shows that the code does no better).   *)
(***************************************************************************)
EXTENDS Naturals

CONSTANTS Value,      \* what a page of env_data may hold
          Pages,      \* flash pages in one image
          Blank       \* an erased page

Page == 1 .. Pages
Image == [Page -> Value \cup {Blank}]
BlankImage == [p \in Page |-> Blank]

\* The first n pages of an image, the rest erased.
Prefix(image, n) == [p \in Page |-> IF p <= n THEN image[p] ELSE Blank]

VARIABLES stored,     \* the image a reader of the flash gets
          busy,       \* a save is under way
          saving,     \* the image being saved, blank when none is
          failed      \* the save begun last was cut short

vars == <<stored, busy, saving, failed>>

TypeOK ==
  /\ stored \in Image
  /\ busy \in BOOLEAN
  /\ saving \in Image
  /\ failed \in BOOLEAN

Init ==
  /\ stored = BlankImage
  /\ busy = FALSE
  /\ saving = BlankImage
  /\ failed = FALSE

Begin ==
  /\ ~busy
  /\ busy' = TRUE
  /\ saving' \in Image
  /\ failed' = FALSE
  /\ UNCHANGED stored

End == busy' = FALSE /\ saving' = BlankImage

\* The old image is given up before the first page of the new one is written.
GiveUp ==
  /\ busy
  /\ stored' = BlankImage
  /\ UNCHANGED <<busy, saving, failed>>

Write(n) ==
  /\ busy
  /\ stored = Prefix(saving, n - 1)
  /\ stored' = Prefix(saving, n)
  /\ IF n = Pages THEN End ELSE UNCHANGED <<busy, saving>>
  /\ UNCHANGED failed

\* Nothing but a failure ends a save before its last page.
Fail ==
  /\ busy
  /\ End
  /\ failed' = TRUE
  /\ UNCHANGED stored

Next ==
  \/ Begin
  \/ GiveUp
  \/ \E n \in Page : Write(n)
  \/ Fail

Spec == Init /\ [][Next]_vars
==============================================================================
