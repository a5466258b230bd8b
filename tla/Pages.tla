------------------------------- MODULE Pages -------------------------------
(***************************************************************************)
(* The pages of the video memory: advance/lib/update.c, its use by the     *)
(* video thread for each frame (video_frame_start(), video_frame_stop())   *)
(* and by advance_video_invalidate_screen(), and the blit pipeline, that   *)
(* video_command() may drop at any frame.  With Smp the emulation thread   *)
(* clears the screen or drops the pipeline while the video thread may be   *)
(* drawing: only a mode change waits for it.                               *)
(*                                                                         *)
(* A page holds the number of the frame drawn in it, 0 when it is blank.   *)
(* The driver, not modelled, shows a new page at once or, where it scrolls *)
(* asynchronously, at the next retrace.                                    *)
(***************************************************************************)
EXTENDS Naturals

CONSTANTS
    Smp,        \* config.smp_flag
    MaxFrame    \* bound on the frames

ASSUME SmpAssumption == Smp \in BOOLEAN
ASSUME BoundAssumption == MaxFrame \in Nat

VARIABLES
    pages,      \* update_page_max
    async,      \* the pages change at the retrace
    page,       \* update_page
    allowed,    \* is_update_draw_allowed
    start, scan,\* the page asked for and the page on the screen
    asked,      \* the pages asked for since the last retrace, 2 for more
    pic,        \* the content of the pages
    last,       \* the last frame drawn, 0 after a clear
    frame,      \* the frames so far
    pipeline,   \* blit_pipeline_flag
    mpc, left,  \* the emulation thread: place and pages left to clear
    vpc, vskip  \* the video thread: place and skip flag

show == <<start, scan, asked>>
memory == <<page, allowed, show, pic, last>>
mode == <<pages, async>>
main == <<mpc, left>>
video == <<vpc, vskip>>
vars == <<mode, memory, frame, pipeline, main, video>>

Page == 0..2

TypeOK ==
    /\ pages \in 1..3 /\ async \in BOOLEAN
    /\ page \in 0..pages - 1 /\ start \in 0..pages - 1 /\ scan \in 0..pages - 1
    /\ asked \in 0..2
    /\ allowed \in BOOLEAN
    /\ pic \in [Page -> 0..MaxFrame] /\ last \in 0..MaxFrame /\ frame \in 0..MaxFrame
    /\ pipeline \in BOOLEAN
    /\ mpc \in {"run", "start", "clear", "assert"} /\ left \in 0..3
    /\ vpc \in {"idle", "start", "pipeline", "blit", "stop", "assert"} /\ vskip \in BOOLEAN

\* update_init(): as many pages as were asked for, fit in the memory and can be
\* changed as needed.
UpdateInit(max_buffer, fit, flags) ==
    LET n == IF fit > max_buffer THEN max_buffer ELSE fit
    IN  IF n >= 3 /\ "async" \in flags THEN 3
        ELSE IF n >= 2 /\ "sync" \in flags THEN 2 ELSE 1

\* Deliberate bug: two clears, whatever the pages.
ClearsTwo(n) == 2

\* The clears of advance_video_invalidate_screen().
Clears(n) == IF n < 2 THEN 2 ELSE n

NewMode(max_buffer, fit, flags) ==
    /\ pages' = UpdateInit(max_buffer, fit, flags)
    /\ async' = (pages' = 3)
    /\ page' = 0 /\ allowed' = FALSE /\ start' = 0 /\ scan' = 0 /\ asked' = 0
    /\ pipeline' = FALSE

Init ==
    /\ \E max_buffer \in {1, 3}, fit \in 1..3, flags \in SUBSET {"sync", "async"} :
           pages = UpdateInit(max_buffer, fit, flags)
    /\ async = (pages = 3)
    /\ page = 0 /\ allowed = FALSE /\ start = 0 /\ scan = 0 /\ asked = 0
    /\ pic = [p \in Page |-> 0] /\ last = 0 /\ frame = 0
    /\ pipeline = FALSE
    /\ mpc = "start" /\ left = Clears(pages)
    /\ vpc = "idle" /\ vskip = FALSE

---------------------------------------------------------------------------
(* update_start() and update_stop(), by either thread. *)

After(p) == IF p + 1 = pages THEN 0 ELSE p + 1

\* video_display_set(): the page is asked for, and shown unless it is asynchronous.
Display(p) ==
    /\ start' = p
    /\ scan' = IF async THEN scan ELSE p
    /\ asked' = IF async /\ asked < 2 THEN asked + 1 ELSE asked

UpdateStart == allowed' = TRUE

\* Deliberate bug: the page to draw next is shown.
UpdateStopNext ==
    /\ page' = After(page) /\ Display(page')
    /\ allowed' = FALSE

UpdateStop ==
    /\ Display(page) /\ page' = After(page)
    /\ allowed' = FALSE

\* The page asked for is shown.
Retrace ==
    /\ scan # start /\ scan' = start /\ asked' = 0
    /\ UNCHANGED <<mode, page, allowed, start, pic, last, frame, pipeline, main, video>>

---------------------------------------------------------------------------
(* The video thread. *)

\* The emulation gives it a frame when the previous one is over.
Frame ==
    /\ mpc = "run" /\ vpc = "idle" /\ frame < MaxFrame
    /\ vpc' = "start" /\ vskip' \in BOOLEAN /\ frame' = frame + 1
    /\ UNCHANGED <<mode, memory, pipeline, main>>

\* video_frame_start(), with the assert of update_start().
FrameStart ==
    /\ vpc = "start"
    /\ IF allowed THEN vpc' = "assert" /\ UNCHANGED allowed
       ELSE UpdateStart /\ vpc' = IF vskip THEN "stop" ELSE "pipeline"
    /\ UNCHANGED <<mode, page, show, pic, last, frame, pipeline, main, vskip>>

\* video_frame_screen(): the pipeline is made if there is none ...
MakePipeline ==
    /\ vpc = "pipeline"
    /\ pipeline' = TRUE /\ vpc' = "blit"
    /\ UNCHANGED <<mode, memory, frame, main, vskip>>

\* ... and runs.
Blit ==
    /\ vpc = "blit"
    /\ pic' = [pic EXCEPT ![page] = frame] /\ last' = frame
    /\ vpc' = "stop"
    /\ UNCHANGED <<mode, page, allowed, show, frame, pipeline, main, vskip>>

\* video_frame_stop(), with the assert of update_stop().
FrameStop ==
    /\ vpc = "stop"
    /\ IF allowed THEN UpdateStop /\ vpc' = "idle"
       ELSE vpc' = "assert" /\ UNCHANGED <<page, show, allowed>>
    /\ UNCHANGED <<mode, pic, last, frame, pipeline, main, vskip>>

---------------------------------------------------------------------------
(* The emulation thread, at the start of a frame; without Smp the previous *)
(* one is over.                                                            *)

MainMayRun == mpc = "run" /\ (Smp \/ vpc = "idle")

\* osd2_debugger_focus(), or the debugger key: the screen is cleared.
Debugger ==
    /\ MainMayRun
    /\ mpc' = "start" /\ left' = Clears(pages)
    /\ UNCHANGED <<mode, memory, frame, pipeline, video>>

\* Each page is started, cleared and shown.
ClearStart ==
    /\ mpc = "start"
    /\ IF allowed THEN mpc' = "assert" /\ UNCHANGED allowed
       ELSE UpdateStart /\ mpc' = "clear"
    /\ UNCHANGED <<mode, page, show, pic, last, frame, pipeline, left, video>>

ClearStop ==
    /\ mpc = "clear"
    /\ pic' = [pic EXCEPT ![page] = 0] /\ last' = 0
    /\ IF allowed
       THEN UpdateStop /\ left' = left - 1 /\ mpc' = IF left = 1 THEN "run" ELSE "start"
       ELSE mpc' = "assert" /\ UNCHANGED <<page, show, allowed, left>>
    /\ UNCHANGED <<mode, frame, pipeline, video>>

\* The cocktail key: the pipeline is dropped.
Cocktail ==
    /\ MainMayRun
    /\ pipeline' = FALSE
    /\ UNCHANGED <<mode, memory, frame, main, video>>

\* vidmode_update(), after the wait for the video thread: the memory is not
\* cleared by a new mode, and the same mode is not set again.
ModeChange ==
    /\ mpc = "run" /\ vpc = "idle"
    /\ \/ \E max_buffer \in {1, 3}, fit \in 1..3, flags \in SUBSET {"sync", "async"} :
              NewMode(max_buffer, fit, flags)
       \/ pipeline' = FALSE /\ UNCHANGED <<mode, page, allowed, show>>
    /\ mpc' = "start" /\ left' = Clears(pages')
    /\ UNCHANGED <<pic, last, frame, video>>

Next ==
    \/ Retrace
    \/ Frame \/ FrameStart \/ MakePipeline \/ Blit \/ FrameStop
    \/ Debugger \/ ClearStart \/ ClearStop \/ Cocktail \/ ModeChange

Spec == Init /\ [][Next]_vars

---------------------------------------------------------------------------
(* Two or three pages are there to hide the drawing: a frame is drawn in a *)
(* page that is not on the screen, unless two pages were asked for since   *)
(* the last retrace.                                                       *)
PageNotScanned == vpc = "blit" /\ pages > 1 /\ asked < 2 => page # scan

(* Once a frame that is not skipped is over and the retrace has come, it   *)
(* is on the screen, or the screen was cleared, whatever the pages.        *)
LastIsShown ==
    vpc = "idle" /\ mpc = "run" /\ ~vskip /\ scan = start => pic[scan] = last

(* After advance_video_invalidate_screen() nothing of the previous picture *)
(* is left in any page, the ones not shown included.                       *)
AllCleared == mpc = "run" /\ last = 0 => \A p \in 0..pages - 1 : pic[p] = 0

=============================================================================
