--------------------------------- MODULE Screen ---------------------------------
(***************************************************************************)
(* What the reader of the browser build has under the hand while the live  *)
(* loop repaints: the screen (views.js), the drawer and its forms          *)
(* (actions.js), the slideshow of the landing page (citizen.js), the       *)
(* gallery and the photographs added in this browser (memorial.js).        *)
(*                                                                         *)
(* The store, the session and the figures are modules of their own; here   *)
(* a figure is only current or stale.                                      *)
(***************************************************************************)
EXTENDS Integers, FiniteSets

CONSTANTS
  Events,        \* PAST_EVENTS
  BuildPhotos,   \* the events the build ships a photograph of: PHOTOS
  HeroSlides,    \* heroEvents().length
  ReducedMotion, \* prefers-reduced-motion
  MaxLoads       \* bound: loadLocalPhotos calls that have not read yet

ASSUME ScreenAssumption ==
  /\ BuildPhotos \subseteq Events
  /\ HeroSlides \in Nat \ {0} /\ ReducedMotion \in BOOLEAN /\ MaxLoads \in Nat \ {0}

Public == {"home", "memorial", "public"}
Screens == Public \union {"map", "command"}
HasGallery == {"home", "memorial"}

\* A photograph is what was recorded of it; without one a slide is drawn.
Attribution == {"credit", "licence"}
Illustration == {"illustration"}
NoPhotos == [e \in Events |-> Illustration]

VARIABLES
  screen,  \* S.role with S.cz or S.view
  focus,   \* where document.activeElement is
  drawer,  \* S.dw, S.dwTouched; what it shows; what was typed in it
  hero,    \* heroIdx, heroTimer, heroStopped, heroHeld
  modal,   \* the event whose photo dialog is open, or none
  pending, \* pendingPhoto: its event and whether it has an image
  shrinks, \* a chosen file is being scaled down
  local,   \* localPhotos
  db,      \* the photos store of IndexedDB
  loads,   \* loadLocalPhotos calls that have not read yet
  read,    \* what a call has read and not applied
  saving,  \* the change savePhoto or removePhoto waits to write
  slides   \* what the slides of #galstage show

dialogVars == <<modal, pending, shrinks>>
storeVars == <<local, db, read, saving>>
photoVars == <<dialogVars, storeVars>>
galleryVars == <<loads, slides>>
vars == <<screen, focus, drawer, hero, photoVars, galleryVars>>

None == [id |-> "none"]
Closed == [open |-> FALSE, touched |-> FALSE, stale |-> FALSE, words |-> FALSE]

Init ==
  /\ screen = "home"
  /\ focus = "page"
  /\ drawer = Closed
  /\ hero = [idx |-> 0, running |-> ~ReducedMotion, stopped |-> FALSE, held |-> FALSE]
  /\ modal = None /\ pending = None /\ shrinks = FALSE
  /\ local = NoPhotos /\ db = NoPhotos
  /\ loads = 1 /\ read = {} /\ saving = None
  /\ slides = NoPhotos

-----------------------------------------------------------------------------
(* The slideshow *)

\* Mutation: a slideshow that was stopped starts again.
StartAgain(h) == [h EXCEPT !.running = @ \/ (~ReducedMotion /\ ~h.held)]

\* heroStart, where the stage is.
Start(h) == [h EXCEPT !.running = @ \/ (~ReducedMotion /\ ~h.stopped /\ ~h.held)]
Halt(h) == [h EXCEPT !.running = FALSE]
HaltForGood(h) == [h EXCEPT !.running = FALSE, !.stopped = TRUE]

\* heroHold: the same answer twice changes nothing.
Hold(h, on) ==
  IF h.held = on THEN h
  ELSE IF on THEN [h EXCEPT !.held = TRUE, !.running = FALSE]
  ELSE Start([h EXCEPT !.held = FALSE])

OnHome == screen = "home"

-----------------------------------------------------------------------------
(* Painting *)

\* photoFor: the build's photograph wins.
Shown(photos) ==
  [e \in Events |->
    IF e \in BuildPhotos THEN Attribution ELSE photos[e]]

\* paintGallery rebuilds the slides only when photoRev has moved on since they
\* were built; without a stage it does nothing.
PaintGallery(photos, moved) ==
  slides' = IF screen \in HasGallery /\ moved THEN Shown(photos) ELSE slides

\* render(): a new screen, its gallery, a load of the photographs kept in this
\* browser.  Entering the command screens leaves the slideshow's timer alone.
RenderTo(s, h) ==
  /\ screen' = s
  /\ hero' = IF s = "home" THEN Start(h) ELSE IF s \in Public THEN Halt(h) ELSE h
  /\ loads' = IF s \in HasGallery /\ loads < MaxLoads THEN loads + 1 ELSE loads
  /\ slides' = IF s \in HasGallery THEN Shown(local) ELSE NoPhotos

\* What is focused in main goes with it.
FocusOutsideMain == IF focus = "hero" THEN "page" ELSE focus

\* uiBusy but for the pointer and the wheel, which may be busy at any moment.
uiBusy == focus = "field" \/ modal # None

\* syncRender: the landing page and the command map are updated in place, and
\* so is a screen somebody is using; the others are rebuilt around the reader.
SyncRender ==
  \/ UNCHANGED <<screen, hero, galleryVars>>
  \/ screen \notin {"home", "map"} /\ ~uiBusy /\ RenderTo(screen, hero)

\* czGo, go, requestRole, enterCommand, the guide's switch.
Navigate(s) ==
  /\ RenderTo(s, hero)
  /\ focus' = FocusOutsideMain
  /\ UNCHANGED <<drawer, photoVars>>

\* pullAll paints with render() itself when a reading changed a figure.
PullLands ==
  /\ RenderTo(screen, hero)
  /\ focus' = FocusOutsideMain
  /\ drawer' = [drawer EXCEPT !.stale = drawer.open]
  /\ UNCHANGED photoVars

\* A frame of the feed: liveRepaint knows the command map only.
FrameLands ==
  /\ IF screen = "map" THEN UNCHANGED <<screen, hero, galleryVars, focus>>
     ELSE RenderTo(screen, hero) /\ focus' = FocusOutsideMain
  /\ drawer' = [drawer EXCEPT !.stale = drawer.open]
  /\ UNCHANGED photoVars

-----------------------------------------------------------------------------
(* The drawer *)

\* Mutation: the flag of the form before is kept.
OpenDwTouched ==
  /\ modal = None
  /\ drawer' = [open |-> TRUE, touched |-> drawer.touched, stale |-> FALSE, words |-> FALSE]
  /\ focus' = "page"
  /\ UNCHANGED <<screen, hero, photoVars, galleryVars>>

OpenDw ==
  /\ modal = None
  /\ drawer' = [open |-> TRUE, touched |-> FALSE, stale |-> FALSE, words |-> FALSE]
  /\ focus' = "page"
  /\ UNCHANGED <<screen, hero, photoVars, galleryVars>>

CloseDw ==
  /\ modal = None /\ drawer.open
  /\ drawer' = Closed /\ focus' = "page"
  /\ UNCHANGED <<screen, hero, photoVars, galleryVars>>

\* The input and change listeners raise the flag.
TypeInDw ==
  /\ modal = None /\ drawer.open
  /\ drawer' = [drawer EXCEPT !.touched = TRUE, !.words = TRUE]
  /\ focus' = "field"
  /\ UNCHANGED <<screen, hero, photoVars, galleryVars>>

\* submitReport: the drawer closes, the screen is repainted as by the loop;
\* doSaveShelter repaints it as for a new screen.
SubmitDw ==
  /\ modal = None /\ drawer.open
  /\ drawer' = Closed /\ focus' = "page"
  /\ \/ SyncRender
     \/ RenderTo(screen, hero)
  /\ UNCHANGED photoVars

\* dw.contains(document.activeElement)
InDrawer == focus \in {"field", "drawer"}

\* Mutation: only the focus protects a form.
SyncDrawerFocus ==
  drawer' = IF drawer.open /\ ~InDrawer
            THEN [drawer EXCEPT !.stale = FALSE, !.words = FALSE]
            ELSE [drawer EXCEPT !.stale = drawer.open]

\* syncDrawer rebuilds what nobody is using.
SyncDrawer ==
  drawer' = IF drawer.open /\ ~drawer.touched /\ ~InDrawer
            THEN [drawer EXCEPT !.stale = FALSE, !.words = FALSE]
            ELSE [drawer EXCEPT !.stale = drawer.open]

\* pipelineTick, with new figures in the store.
PipelineTick ==
  /\ SyncRender /\ SyncDrawer
  /\ UNCHANGED <<focus, photoVars>>

MoveFocus ==
  /\ modal = None /\ focus' \in {"page"} \union (IF drawer.open THEN {"field", "drawer"} ELSE {})
  /\ focus # "hero" /\ focus' # focus
  /\ UNCHANGED <<screen, drawer, hero, photoVars, galleryVars>>

-----------------------------------------------------------------------------
(* The slideshow's controls *)

\* A control of the landing page, or the mouse and the focus over it.
Control(h) ==
  /\ OnHome /\ modal = None
  /\ hero' = h
  /\ UNCHANGED <<screen, drawer, photoVars, galleryVars>>

Turned(i) == i % HeroSlides

\* The interval: it outlives the screen it was started on in the command
\* screens, where it finds no stage.
HeroTick ==
  /\ hero.running
  /\ hero' = [hero EXCEPT !.idx = Turned(@ + 1)]
  /\ UNCHANGED <<screen, focus, drawer, photoVars, galleryVars>>

\* heroTo, heroGo, a swipe, an arrow key.
HeroGo ==
  /\ \E i \in 0..(HeroSlides - 1) : Control(HaltForGood([hero EXCEPT !.idx = i]))
  /\ UNCHANGED focus

HeroToggle ==
  /\ Control(IF hero.running THEN HaltForGood(hero)
             ELSE Start([hero EXCEPT !.stopped = FALSE, !.held = FALSE]))
  /\ UNCHANGED focus

\* heroHold: the mouse comes and goes, the keyboard focus enters and leaves.
HeroHold ==
  \/ \E on \in BOOLEAN : Control(Hold(hero, on)) /\ UNCHANGED focus
  \/ focus # "hero" /\ focus' = "hero" /\ Control(Hold(hero, TRUE))
  \/ focus = "hero" /\ focus' = "page" /\ Control(Hold(hero, FALSE))

\* heroOpen stops the slideshow, opens the full account and turns the gallery.
HeroOpen ==
  /\ OnHome /\ modal = None
  /\ RenderTo("memorial", HaltForGood(hero))
  /\ focus' = FocusOutsideMain
  /\ UNCHANGED <<drawer, photoVars>>

-----------------------------------------------------------------------------
(* The gallery and the photographs *)

\* openPhotoDialog replaces whatever photograph was pending.
OpenPhotoDialog(e) ==
  /\ screen \in HasGallery /\ modal = None
  /\ modal' = [id |-> e] /\ pending' = [id |-> e, src |-> FALSE]
  /\ UNCHANGED <<screen, focus, drawer, hero, shrinks, storeVars, galleryVars>>

\* Cancel leaves pendingPhoto and the work under way as they are.
CloseDialog ==
  /\ modal # None /\ modal' = None
  /\ UNCHANGED <<screen, focus, drawer, hero, pending, shrinks, storeVars, galleryVars>>

\* One file at a time is scaled down, and one change written (bounds).
PhotoChosen ==
  /\ modal # None /\ ~shrinks /\ shrinks' = TRUE
  /\ UNCHANGED <<screen, focus, drawer, hero, modal, pending, storeVars, galleryVars>>

\* shrink: the image goes to whatever photograph is pending by now, or the
\* file could not be read.
Shrunk ==
  /\ shrinks /\ shrinks' = FALSE
  /\ pending' \in {pending} \union (IF pending = None THEN {} ELSE {[pending EXCEPT !.src = TRUE]})
  /\ UNCHANGED <<screen, focus, drawer, hero, modal, storeVars, galleryVars>>

\* Mutation: a credit is enough.
CommitPhotoCredited(e, row) ==
  /\ modal = [id |-> e] /\ saving = None
  /\ (pending # None /\ pending.src) \/ local[e] # Illustration
  /\ "credit" \in row
  /\ local' = [local EXCEPT ![e] = row]
  /\ saving' = [id |-> e, row |-> row]
  /\ UNCHANGED <<screen, focus, drawer, hero, dialogVars, db, read, galleryVars>>

\* commitPhoto: an image, pending or there before, with its credit and its
\* licence, is put in the page and on its way to the store.
CommitPhoto(e, row) ==
  /\ modal = [id |-> e] /\ saving = None
  /\ (pending # None /\ pending.src) \/ local[e] # Illustration
  /\ row = Attribution
  /\ local' = [local EXCEPT ![e] = row]
  /\ saving' = [id |-> e, row |-> row]
  /\ UNCHANGED <<screen, focus, drawer, hero, dialogVars, db, read, galleryVars>>

\* removePhoto, offered for a photograph added here; closeM goes before it.
RemovePhoto(e) ==
  /\ modal = [id |-> e] /\ local[e] # Illustration /\ saving = None
  /\ modal' = None
  /\ local' = [local EXCEPT ![e] = Illustration]
  /\ saving' = [id |-> e, row |-> Illustration]
  /\ UNCHANGED <<screen, focus, drawer, hero, pending, shrinks, db, read, galleryVars>>

\* The change is written, or the browser refuses to store it, and the slides
\* are built again either way.  A save also ends the dialog, whichever is open.
Saved ==
  /\ saving # None /\ saving' = None
  /\ db' \in {db, [db EXCEPT ![saving.id] = saving.row]}
  /\ IF saving.row = Illustration THEN UNCHANGED <<modal, pending>>
     ELSE modal' = None /\ pending' = None
  /\ PaintGallery(local, TRUE)
  /\ UNCHANGED <<screen, focus, drawer, hero, shrinks, local, read, loads>>

\* loadLocalPhotos reads the store, or is refused ...
LoadReads ==
  /\ loads > 0 /\ read = {} /\ loads' = loads - 1
  /\ read' \in {{db}, {NoPhotos}}
  /\ UNCHANGED <<screen, focus, drawer, hero, dialogVars, local, db, saving, slides>>

\* ... and what it read replaces what the page has.
LoadLands ==
  /\ read # {} /\ read' = {}
  /\ \E rows \in read :
       /\ local' = rows
       /\ PaintGallery(rows, rows # NoPhotos)
  /\ UNCHANGED <<screen, focus, drawer, hero, dialogVars, db, saving, loads>>

-----------------------------------------------------------------------------
Next ==
  \/ \E s \in Screens : Navigate(s)
  \/ PullLands \/ FrameLands \/ PipelineTick
  \/ OpenDw \/ CloseDw \/ TypeInDw \/ SubmitDw  \/ MoveFocus
  \/ HeroTick \/ HeroGo \/ HeroToggle \/ HeroHold \/ HeroOpen
  \/ \E e \in Events : \/ OpenPhotoDialog(e) \/ RemovePhoto(e)
                        \/ \E row \in SUBSET Attribution : CommitPhoto(e, row)
  \/ CloseDialog \/ PhotoChosen \/ Shrunk \/ Saved \/ LoadReads \/ LoadLands

Spec == Init /\ [][Next]_vars

\* The pipeline runs on an interval.
FairSpec == Spec /\ WF_vars(PipelineTick)

-----------------------------------------------------------------------------
(* Properties *)

TypeOK ==
  /\ screen \in Screens
  /\ focus \in {"page", "field", "drawer", "hero"}
  /\ drawer \in [{"open", "touched", "stale", "words"} -> BOOLEAN]
  /\ hero.idx \in 0..(HeroSlides - 1)
  /\ \A f \in {"running", "stopped", "held"} : hero[f] \in BOOLEAN
  /\ loads \in 0..MaxLoads

\* Autoplay stops the moment anybody touches it and does not restart itself
\* behind their back (citizen.js): whatever screens come and go, the
\* slideshow runs neither after a decision to stop it, which only pressing
\* play undoes, nor under a hand that rests over it.
StopsForTheReader ==
  [][/\ hero'.running => ~hero'.stopped /\ ~hero'.held
     /\ hero.stopped /\ ~hero'.stopped => HeroToggle]_vars

\* What somebody has typed in the drawer stays there until they send it, close
\* the drawer or open another: the live loop never takes it away, whether or
\* not they are typing at that moment (actions.js).
WordsKept ==
  [][drawer.words /\ ~drawer'.words => OpenDw \/ CloseDw \/ SubmitDw]_vars

\* A drawer nobody has typed in and nobody is in catches up with the store,
\* whatever became of the forms before it.
DrawerCatchesUp ==
  (drawer.open /\ drawer.stale /\ ~drawer.words)
    ~> (~drawer.stale \/ drawer.words \/ InDrawer \/ ~drawer.open)

\* No photograph without a credit and a licence is ever on a slide, in the
\* page or in the browser's store, however saves, removals and loads overlap.
PhotosAttributed ==
  \A e \in Events :
    {slides[e], local[e], db[e]} \subseteq {Illustration, Attribution}
=============================================================================
