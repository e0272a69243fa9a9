------------------------------- MODULE Display -------------------------------
(***************************************************************************)
(* The picture's way to the canvas.  The emulation thread draws scanlines  *)
(* into buffer32 and posts a blit at vsync (core/src/video: vid_svga.c,    *)
(* video.c); the blit thread copies the changed rows into the shadow       *)
(* framebuffer (src/wasm/platform/wasm-video.c); the browser's frame       *)
(* callback copies that into the canvas when the generation counter moved  *)
(* (src/web/js/emulator.js, _drawFrame).  Three threads, no mutex: two     *)
(* flags and an event (core/src/thread-pthread.c) keep them apart.         *)
(*                                                                         *)
(* Every access to a shared field or a row is a step, steps are            *)
(* sequentially consistent.  blit_complete and buffer_not_in_use are left  *)
(* out: their waits end after 1 ms anyway, so they only save time.  The    *)
(* generation counter is fresh, "it differs from lastGen" (it does not     *)
(* come round within one browser frame).                                   *)
(***************************************************************************)
EXTENDS Integers, FiniteSets

CONSTANTS
    Height,   \* rows 0 .. Height - 1 of the picture
    Pixels,   \* contents of a row
    Black     \* the content before anything is drawn

ASSUME PictureAssumption == Height \in Nat \ {0} /\ Black \in Pixels

Lines == 0 .. Height - 1

VARIABLES
    buffer32,       \* the device renderer's bitmap
    shadow,         \* shadow_fb
    image,          \* the canvas
    busy, buffer_in_use,
    rows,           \* blit_data.y1, y2 as the set of rows they bound
    wake,           \* state of the event wake_blit_thread
    epc,            \* where the emulation thread is
    changed,        \* rows drawn in this frame: firstline_draw .. lastline_draw
    bpc, todo,      \* where the blit thread is, rows it has yet to copy
    fresh,          \* fb_generation # lastGen
    jpc, unread,    \* where _drawFrame is, rows it has yet to copy
    picture         \* history: buffer32 as it was last posted

emu == <<epc, changed>>
blit == <<bpc, todo>>
js == <<jpc, unread>>
flags == <<busy, buffer_in_use, rows, wake>>
vars == <<buffer32, shadow, image, flags, emu, blit, fresh, js, picture>>

\* frame: between vsync and the first displayed line.  drawing: after it.
\* post: in video_wait_for_blit.  mark, fill, signal: busy, buffer_in_use and
\* the coordinates, wake_blit_thread remain to be set.
EmuPlaces == {"frame", "drawing", "post", "mark", "fill", "signal"}

\* wait: for wake_blit_thread.  woken: the event is still set.  start: about to
\* call video_blit_memtoscreen_func.  copy: in it.  release, idle: about to
\* clear buffer_in_use, busy.  finish: busy is clear, not yet waiting again.
BlitPlaces == {"wait", "woken", "start", "copy", "release", "idle", "finish"}

TypeOK ==
    /\ buffer32 \in [Lines -> Pixels]
    /\ shadow \in [Lines -> Pixels]
    /\ image \in [Lines -> Pixels]
    /\ picture \in [Lines -> Pixels]
    /\ busy \in BOOLEAN /\ buffer_in_use \in BOOLEAN /\ wake \in BOOLEAN /\ fresh \in BOOLEAN
    /\ rows \subseteq Lines /\ changed \subseteq Lines
    /\ todo \subseteq Lines /\ unread \subseteq Lines
    /\ epc \in EmuPlaces
    /\ bpc \in BlitPlaces
    /\ jpc \in {"idle", "copy"}

Blank == [l \in Lines |-> Black]

Init ==
    /\ buffer32 = Blank /\ shadow = Blank /\ image = Blank /\ picture = Blank
    /\ busy = FALSE /\ buffer_in_use = FALSE /\ wake = FALSE /\ rows = {}
    /\ epc = "frame" /\ changed = {}
    /\ bpc = "wait" /\ todo = {}
    /\ fresh = FALSE
    /\ jpc = "idle" /\ unread = {}

----------------------------------------------------------------------------
(* The emulation thread: a video card's poll, video_blit_memtoscreen *)

\* Mutant: the first line is drawn without video_wait_for_buffer.
FirstLineNoWait ==
    /\ epc = "frame"
    /\ epc' = "drawing"
    /\ UNCHANGED <<buffer32, shadow, image, flags, changed, blit, fresh, js, picture>>

\* The first displayed line of a frame waits until buffer32 has been copied.
FirstLine ==
    /\ epc = "frame"
    /\ ~buffer_in_use
    /\ epc' = "drawing"
    /\ UNCHANGED <<buffer32, shadow, image, flags, changed, blit, fresh, js, picture>>

\* A line is rendered; lines whose memory did not change are skipped.
DrawLine(l, p) ==
    /\ epc = "drawing"
    /\ buffer32' = [buffer32 EXCEPT ![l] = p]
    /\ changed' = changed \cup {l}
    /\ UNCHANGED <<shadow, image, flags, epc, blit, fresh, js, picture>>

\* svga_doblit at vsync, also of a frame that displayed nothing.
Vsync ==
    /\ epc \in {"frame", "drawing"}
    /\ epc' = "post"
    /\ UNCHANGED <<buffer32, shadow, image, flags, changed, blit, fresh, js, picture>>

\* Mutant: a blit is posted on top of the previous one.
PostBusyNoWait ==
    /\ epc = "post"
    /\ busy' = TRUE
    /\ picture' = buffer32
    /\ epc' = "mark"
    /\ UNCHANGED <<buffer32, shadow, image, buffer_in_use, rows, wake, changed, blit, fresh, js>>

\* video_wait_for_blit, then busy = 1.
PostBusy ==
    /\ epc = "post"
    /\ ~busy
    /\ busy' = TRUE
    /\ picture' = buffer32
    /\ epc' = "mark"
    /\ UNCHANGED <<buffer32, shadow, image, buffer_in_use, rows, wake, changed, blit, fresh, js>>

PostInUse ==
    /\ epc = "mark"
    /\ buffer_in_use' = TRUE
    /\ epc' = "fill"
    /\ UNCHANGED <<buffer32, shadow, image, busy, rows, wake, changed, blit, fresh, js, picture>>

\* Mutant: y2 taken as the last row instead of the one after it.
RowsInclusive(drawn) == {l \in Lines \cup {Height} :
    /\ \E first \in drawn : first <= l
    /\ \E last \in drawn : l <= last + 1}

\* All rows from the first to the last that was drawn; none when none was.
RowsOf(drawn) == {l \in Lines : (\E first \in drawn : first <= l) /\ (\E last \in drawn : l <= last)}

PostRows ==
    /\ epc = "fill"
    /\ rows' = RowsOf(changed)
    /\ changed' = {}
    /\ epc' = "signal"
    /\ UNCHANGED <<buffer32, shadow, image, busy, buffer_in_use, wake, blit, fresh, js, picture>>

\* Mutant: an event without memory only wakes a thread that is waiting.
SetWakeStateless == wake' = (bpc = "wait")

\* thread_set_event keeps its state until it is reset.
SetWake == wake' = TRUE

PostWake ==
    /\ epc = "signal"
    /\ SetWake
    /\ epc' = "frame"
    /\ UNCHANGED <<buffer32, shadow, image, busy, buffer_in_use, rows, changed, blit, fresh, js, picture>>

----------------------------------------------------------------------------
(* The blit thread: blit_thread, wasm_blit_memtoscreen *)

BlitWakes ==
    /\ bpc = "wait"
    /\ wake
    /\ bpc' = "woken"
    /\ UNCHANGED <<buffer32, shadow, image, flags, emu, todo, fresh, js, picture>>

BlitResets ==
    /\ bpc = "woken"
    /\ wake' = FALSE
    /\ bpc' = "start"
    /\ UNCHANGED <<buffer32, shadow, image, busy, buffer_in_use, rows, emu, todo, fresh, js, picture>>

\* The arguments are read; y1 == y2 has nothing to copy.
BlitStarts ==
    /\ bpc = "start"
    /\ todo' = rows
    /\ bpc' = IF rows = {} THEN "release" ELSE "copy"
    /\ UNCHANGED <<buffer32, shadow, image, flags, emu, fresh, js, picture>>

BlitCopies(l) ==
    /\ bpc = "copy"
    /\ l \in todo
    /\ \A k \in todo : l <= k
    /\ shadow' = [shadow EXCEPT ![l] = buffer32[l]]
    /\ todo' = todo \ {l}
    /\ UNCHANGED <<buffer32, image, flags, emu, bpc, fresh, js, picture>>

\* fb_generation++
BlitEnds ==
    /\ bpc = "copy"
    /\ todo = {}
    /\ fresh' = TRUE
    /\ bpc' = "release"
    /\ UNCHANGED <<buffer32, shadow, image, flags, emu, todo, js, picture>>

\* video_blit_complete
BlitReleases ==
    /\ bpc = "release"
    /\ buffer_in_use' = FALSE
    /\ bpc' = "idle"
    /\ UNCHANGED <<buffer32, shadow, image, busy, rows, wake, emu, todo, fresh, js, picture>>

BlitIdles ==
    /\ bpc = "idle"
    /\ busy' = FALSE
    /\ bpc' = "finish"
    /\ UNCHANGED <<buffer32, shadow, image, buffer_in_use, rows, wake, emu, todo, fresh, js, picture>>

\* blit_complete is set and the loop comes round.
BlitWaits ==
    /\ bpc = "finish"
    /\ bpc' = "wait"
    /\ UNCHANGED <<buffer32, shadow, image, flags, emu, todo, fresh, js, picture>>

----------------------------------------------------------------------------
(* The browser's frame callback: _drawFrame *)

\* A new generation: remember it first, then copy every row.
SeeGeneration ==
    /\ jpc = "idle"
    /\ fresh
    /\ fresh' = FALSE
    /\ jpc' = "copy"
    /\ unread' = Lines
    /\ UNCHANGED <<buffer32, shadow, image, flags, emu, blit, picture>>

ReadLine(l) ==
    /\ jpc = "copy"
    /\ l \in unread
    /\ \A k \in unread : l <= k
    /\ image' = [image EXCEPT ![l] = shadow[l]]
    /\ unread' = unread \ {l}
    /\ UNCHANGED <<buffer32, shadow, flags, emu, blit, fresh, jpc, picture>>

\* Mutant: lastGen is taken from the counter after the rows have been copied.
PutImageRemembers ==
    /\ jpc = "copy"
    /\ unread = {}
    /\ jpc' = "idle"
    /\ fresh' = FALSE
    /\ UNCHANGED <<buffer32, shadow, image, flags, emu, blit, unread, picture>>

PutImage ==
    /\ jpc = "copy"
    /\ unread = {}
    /\ jpc' = "idle"
    /\ UNCHANGED <<buffer32, shadow, image, flags, emu, blit, fresh, unread, picture>>

----------------------------------------------------------------------------

Posting == FirstLine \/ PostBusy \/ PostInUse \/ PostRows \/ PostWake
Blitting ==
    \/ BlitWakes \/ BlitResets \/ BlitStarts \/ BlitEnds \/ BlitReleases \/ BlitIdles \/ BlitWaits
    \/ \E l \in Lines : BlitCopies(l)
DrawFrame == SeeGeneration \/ PutImage \/ \E l \in Lines : ReadLine(l)

Next ==
    \/ Posting \/ Vsync
    \/ \E l \in Lines, p \in Pixels : DrawLine(l, p)
    \/ Blitting
    \/ DrawFrame

\* The threads run and frames come; a card need not draw or reach vsync.
Fairness == WF_vars(Posting) /\ WF_vars(Blitting) /\ WF_vars(DrawFrame)

Spec == Init /\ [][Next]_vars /\ Fairness

----------------------------------------------------------------------------
(* Properties *)

\* The card never draws into buffer32 while the blit thread copies out of it:
\* buffer_in_use is set before the copy can start and the card waits for it.
DrawingExcludesCopying == epc = "drawing" => bpc \notin {"woken", "start", "copy"}

\* When no blit is outstanding the shadow framebuffer holds the last posted
\* picture, every row of it: no frame is lost, torn or overwritten by the next
\* although only changed rows are copied.
ShadowIsPicture == ~busy => shadow = picture

\* The emulation thread is never stuck in video_wait_for_buffer or
\* video_wait_for_blit: a wake-up cannot be lost (thread-pthread.c: "events must
\* be STATEFUL").
EmulationGoesOn == (epc = "post" ~> epc = "frame") /\ (buffer_in_use ~> ~buffer_in_use)

\* Whatever is posted reaches the canvas unless something newer is posted: an
\* image torn by a concurrent blit is painted again.
CanvasCatchesUp ==
    \A p \in [Lines -> Pixels] : picture = p ~> image = p \/ picture # p
=============================================================================
