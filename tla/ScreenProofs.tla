----------------------------- MODULE ScreenProofs -----------------------------
(***************************************************************************)
(* The slideshow, the drawer and the photographs, for every set of events, *)
(* every number of slides and any number of loads under way.  None of the  *)
(* three properties is inductive: the slideshow needs what its timer knows *)
(* about the reader's decisions, the drawer that words raise the flag, the *)
(* photographs what every load and save under way carries.                 *)
(***************************************************************************)
EXTENDS Screen, TLAPS

\* The timer runs neither after a decision to stop it nor under a hand.
HeroObeys ==
  /\ hero \in [idx : Int, running : BOOLEAN, stopped : BOOLEAN, held : BOOLEAN]
  /\ hero.running => ~hero.stopped /\ ~hero.held

\* A drawer with words in it has raised its flag.
WordsFlagged ==
  /\ drawer \in [open : BOOLEAN, touched : BOOLEAN, stale : BOOLEAN, words : BOOLEAN]
  /\ drawer.words => drawer.touched

Row == {Illustration, Attribution}

\* Every copy of the photographs is attributed: on the slides, in the page, in
\* the store, in what a load has read and in what a save is about to write.
CopiesAttributed ==
  /\ slides \in [Events -> Row] /\ local \in [Events -> Row] /\ db \in [Events -> Row]
  /\ \A rows \in read : rows \in [Events -> Row]
  /\ saving # None => saving \in [id : Events, row : Row]

-----------------------------------------------------------------------------
(* The slideshow *)

\* What the controls do to a slideshow that obeys.
Obeys(h) ==
  /\ h \in [idx : Int, running : BOOLEAN, stopped : BOOLEAN, held : BOOLEAN]
  /\ h.running => ~h.stopped /\ ~h.held

LEMMA ControlsObey ==
  ASSUME NEW h, Obeys(h)
  PROVE  /\ Obeys(Start(h)) /\ Start(h).stopped = h.stopped
         /\ Obeys(Halt(h)) /\ Halt(h).stopped = h.stopped
         /\ Obeys(HaltForGood(h)) /\ HaltForGood(h).stopped
         /\ \A on \in BOOLEAN : Obeys(Hold(h, on)) /\ Hold(h, on).stopped = h.stopped
<1> USE ScreenAssumption DEF Obeys
<1>1. Obeys(Start(h)) /\ Start(h).stopped = h.stopped
  BY DEF Start
<1>2. Obeys(Halt(h)) /\ Halt(h).stopped = h.stopped
  BY DEF Halt
<1>3. Obeys(HaltForGood(h)) /\ HaltForGood(h).stopped
  BY DEF HaltForGood
<1>4. ASSUME NEW on \in BOOLEAN
      PROVE  Obeys(Hold(h, on)) /\ Hold(h, on).stopped = h.stopped
  BY DEF Hold, Start
<1> QED
  BY <1>1, <1>2, <1>3, <1>4

\* A repaint keeps the decision to stop.
LEMMA RenderObeys ==
  ASSUME NEW h, Obeys(h), NEW s, RenderTo(s, h)
  PROVE  Obeys(hero') /\ hero'.stopped = h.stopped
BY ControlsObey DEF RenderTo

LEMMA HeroStep ==
  ASSUME HeroObeys, [Next]_vars
  PROVE  HeroObeys' /\ (hero.stopped /\ ~hero'.stopped => HeroToggle)
<1>0. Obeys(hero) /\ (Obeys(hero') => HeroObeys')
  BY DEF HeroObeys, Obeys
<1> SUFFICES Obeys(hero') /\ (hero.stopped /\ ~hero'.stopped => HeroToggle)
  BY <1>0
<1>1. CASE \/ \E s \in Screens : Navigate(s)
           \/ PullLands \/ FrameLands \/ PipelineTick \/ SubmitDw
  <2>1. UNCHANGED hero \/ \E s : RenderTo(s, hero)
    BY <1>1 DEF Navigate, PullLands, FrameLands, PipelineTick, SubmitDw, SyncRender
  <2> QED
    BY <1>0, <2>1, RenderObeys
<1>2. CASE HeroTick
  <2>1. \A i \in Int : Turned(i) \in Int
    BY ScreenAssumption DEF Turned
  <2> QED
    BY <1>0, <1>2, <2>1 DEF HeroTick, Obeys
<1>3. CASE HeroGo
  <2>1. PICK i \in 0..(HeroSlides - 1) : hero' = HaltForGood([hero EXCEPT !.idx = i])
    BY <1>3 DEF HeroGo, Control
  <2>2. Obeys([hero EXCEPT !.idx = i])
    BY <1>0, ScreenAssumption DEF Obeys
  <2> QED
    BY <2>1, <2>2, ControlsObey
<1>4. CASE HeroToggle
  <2>1. Obeys([hero EXCEPT !.stopped = FALSE, !.held = FALSE]) \/ hero.running
    BY <1>0 DEF Obeys
  <2> QED
    BY <1>0, <1>4, <2>1, ControlsObey DEF HeroToggle, Control
<1>5. CASE HeroHold
  BY <1>0, <1>5, ControlsObey DEF HeroHold, Control
<1>6. CASE HeroOpen
  <2>1. RenderTo("memorial", HaltForGood(hero))
    BY <1>6 DEF HeroOpen
  <2> QED
    BY <1>0, <2>1, ControlsObey, RenderObeys
<1>7. CASE \/ OpenDw \/ CloseDw \/ TypeInDw \/ MoveFocus
           \/ \E e \in Events : \/ OpenPhotoDialog(e) \/ RemovePhoto(e)
                                \/ \E row \in SUBSET Attribution : CommitPhoto(e, row)
           \/ CloseDialog \/ PhotoChosen \/ Shrunk \/ Saved \/ LoadReads \/ LoadLands
           \/ UNCHANGED vars
  <2>1. UNCHANGED hero
    BY <1>7 DEF OpenDw, CloseDw, TypeInDw, MoveFocus, OpenPhotoDialog, RemovePhoto,
                CommitPhoto, CloseDialog, PhotoChosen, Shrunk, Saved, LoadReads, LoadLands, vars
  <2> QED
    BY <1>0, <2>1
<1> QED
  BY <1>1, <1>2, <1>3, <1>4, <1>5, <1>6, <1>7 DEF Next

\* citizen.js: autoplay never runs after a decision to stop it or under a hand,
\* and only pressing play undoes the decision.
THEOREM AutoplayObeys == Spec => StopsForTheReader
<1>1. Init => HeroObeys
  BY ScreenAssumption DEF Init, HeroObeys
<1>2. HeroObeys /\ [Next]_vars => HeroObeys'
  BY HeroStep
<1>3. HeroObeys /\ [Next]_vars =>
        [/\ hero'.running => ~hero'.stopped /\ ~hero'.held
         /\ hero.stopped /\ ~hero'.stopped => HeroToggle]_vars
  BY HeroStep DEF HeroObeys
<1> QED
  BY <1>1, <1>2, <1>3, PTL DEF Spec, StopsForTheReader

-----------------------------------------------------------------------------
(* The drawer *)

LEMMA DrawerStep ==
  ASSUME WordsFlagged, [Next]_vars
  PROVE  WordsFlagged' /\ (drawer.words /\ ~drawer'.words => OpenDw \/ CloseDw \/ SubmitDw)
<1> USE DEF WordsFlagged
<1>1. CASE OpenDw \/ CloseDw \/ SubmitDw
  <2>1. \E o \in BOOLEAN :
          drawer' = [open |-> o, touched |-> FALSE, stale |-> FALSE, words |-> FALSE]
    <3>1. CASE OpenDw
      BY <3>1 DEF OpenDw
    <3>2. CASE CloseDw \/ SubmitDw
      BY <3>2 DEF CloseDw, SubmitDw, Closed
    <3> QED
      BY <1>1, <3>1, <3>2
  <2>2. WordsFlagged'
    BY <2>1
  <2> QED
    BY <1>1, <2>2
<1>2. CASE TypeInDw
  BY <1>2 DEF TypeInDw
<1>3. CASE PipelineTick
  BY <1>3 DEF PipelineTick, SyncDrawer
<1>4. CASE PullLands \/ FrameLands
  BY <1>4 DEF PullLands, FrameLands
<1>5. CASE \/ \E s \in Screens : Navigate(s)
           \/ MoveFocus \/ HeroTick \/ HeroGo \/ HeroToggle \/ HeroHold \/ HeroOpen
           \/ \E e \in Events : \/ OpenPhotoDialog(e) \/ RemovePhoto(e)
                                \/ \E row \in SUBSET Attribution : CommitPhoto(e, row)
           \/ CloseDialog \/ PhotoChosen \/ Shrunk \/ Saved \/ LoadReads \/ LoadLands
           \/ UNCHANGED vars
  <2>1. UNCHANGED drawer
    BY <1>5 DEF Navigate, MoveFocus, HeroTick, HeroGo, HeroToggle, HeroHold, HeroOpen, Control,
                OpenPhotoDialog, RemovePhoto, CommitPhoto, CloseDialog, PhotoChosen, Shrunk,
                Saved, LoadReads, LoadLands, vars
  <2> QED
    BY <2>1
<1> QED
  BY <1>1, <1>2, <1>3, <1>4, <1>5 DEF Next

\* actions.js, syncDrawer: the live loop never takes away what was typed.
THEOREM WordsStay == Spec => WordsKept
<1>1. Init => WordsFlagged
  BY DEF Init, WordsFlagged, Closed
<1>2. WordsFlagged /\ [Next]_vars => WordsFlagged'
  BY DrawerStep
<1>3. WordsFlagged /\ [Next]_vars =>
        [drawer.words /\ ~drawer'.words => OpenDw \/ CloseDw \/ SubmitDw]_vars
  BY DrawerStep
<1> QED
  BY <1>1, <1>2, <1>3, PTL DEF Spec, WordsKept

-----------------------------------------------------------------------------
(* The photographs *)

\* The build's photographs come with an attribution of their own.
LEMMA ShownAttributed ==
  ASSUME NEW photos \in [Events -> Row]
  PROVE  Shown(photos) \in [Events -> Row]
BY DEF Shown, Row

LEMMA NoPhotosAttributed == NoPhotos \in [Events -> Row]
BY DEF NoPhotos, Row

LEMMA PhotoStep ==
  ASSUME CopiesAttributed, [Next]_vars
  PROVE  CopiesAttributed'
<1> USE DEF CopiesAttributed
<1>1. CASE \/ \E s \in Screens : Navigate(s)
           \/ PullLands \/ FrameLands \/ PipelineTick \/ SubmitDw \/ HeroOpen
  <2>1. UNCHANGED <<local, db, read, saving>>
    BY <1>1 DEF Navigate, PullLands, FrameLands, PipelineTick, SubmitDw, HeroOpen,
                photoVars, storeVars
  <2>2. UNCHANGED slides \/ \E s, h : RenderTo(s, h)
    BY <1>1 DEF Navigate, PullLands, FrameLands, PipelineTick, SubmitDw, HeroOpen,
                SyncRender, galleryVars
  <2>3. slides' \in [Events -> Row]
    BY <2>2, ShownAttributed, NoPhotosAttributed DEF RenderTo
  <2> QED
    BY <2>1, <2>3
<1>2. CASE \E e \in Events, row \in SUBSET Attribution : CommitPhoto(e, row)
  <2>1. PICK e \in Events, row \in SUBSET Attribution : CommitPhoto(e, row)
    BY <1>2
  <2>2. /\ row \in Row /\ local' = [local EXCEPT ![e] = row] /\ saving' = [id |-> e, row |-> row]
        /\ UNCHANGED <<slides, db, read>>
    BY <2>1 DEF CommitPhoto, Row, galleryVars
  <2> QED
    BY <2>2
<1>3. CASE \E e \in Events : RemovePhoto(e)
  <2>1. PICK e \in Events : RemovePhoto(e)
    BY <1>3
  <2>2. /\ local' = [local EXCEPT ![e] = Illustration]
        /\ saving' = [id |-> e, row |-> Illustration]
        /\ UNCHANGED <<slides, db, read>> /\ Illustration \in Row
    BY <2>1 DEF RemovePhoto, Row, galleryVars
  <2> QED
    BY <2>2
<1>4. CASE Saved
  <2>1. /\ db' \in {db, [db EXCEPT ![saving.id] = saving.row]}
        /\ saving \in [id : Events, row : Row] /\ saving' = None
        /\ UNCHANGED <<local, read>> /\ PaintGallery(local, TRUE)
    BY <1>4 DEF Saved
  <2>2. db' \in [Events -> Row]
    BY <2>1
  <2>3. slides' \in [Events -> Row]
    BY <2>1, ShownAttributed DEF PaintGallery
  <2> QED
    BY <2>1, <2>2, <2>3
<1>5. CASE LoadReads
  BY <1>5, NoPhotosAttributed DEF LoadReads
<1>6. CASE LoadLands
  <2>1. PICK rows \in read : local' = rows /\ PaintGallery(rows, rows # NoPhotos)
    BY <1>6 DEF LoadLands
  <2>2. slides' \in [Events -> Row] /\ local' \in [Events -> Row]
    BY <2>1, ShownAttributed DEF PaintGallery
  <2> QED
    BY <1>6, <2>2 DEF LoadLands
<1>7. CASE \/ OpenDw \/ CloseDw \/ TypeInDw \/ MoveFocus
           \/ HeroTick \/ HeroGo \/ HeroToggle \/ HeroHold
           \/ \E e \in Events : OpenPhotoDialog(e)
           \/ CloseDialog \/ PhotoChosen \/ Shrunk \/ UNCHANGED vars
  <2>1. UNCHANGED <<slides, local, db, read, saving>>
    BY <1>7 DEF OpenDw, CloseDw, TypeInDw, MoveFocus, HeroTick, HeroGo, HeroToggle, HeroHold,
                Control, OpenPhotoDialog, CloseDialog, PhotoChosen, Shrunk, vars, photoVars,
                storeVars, galleryVars
  <2> QED
    BY <2>1
<1> QED
  BY <1>1, <1>2, <1>3, <1>4, <1>5, <1>6, <1>7 DEF Next

\* memorial.js, photoFor and savePhoto: no photograph without a credit and a
\* licence is on a slide, in the page or in the browser's store.
THEOREM PhotosCredited == Spec => []PhotosAttributed
<1>1. Init => CopiesAttributed
  BY NoPhotosAttributed DEF Init, CopiesAttributed
<1>2. CopiesAttributed /\ [Next]_vars => CopiesAttributed'
  BY PhotoStep
<1>3. CopiesAttributed => PhotosAttributed
  BY DEF CopiesAttributed, PhotosAttributed, Row
<1> QED
  BY <1>1, <1>2, <1>3, PTL DEF Spec
===============================================================================
