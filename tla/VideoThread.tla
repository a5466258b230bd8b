---------------------------- MODULE VideoThread ----------------------------
(***************************************************************************)
(* The hand-off between the emulation thread and the video thread          *)
(* (advance/osd/video.c, USE_SMP on Linux).                                *)
(*                                                                         *)
(* The emulation thread posts one request at a time in                     *)
(* thread_state_ready_flag: a frame to draw and play, a video mode to set, *)
(* or the mode to close.  The video thread performs it outside the mutex   *)
(* and then clears the flag.  ONE condition variable carries both the      *)
(* "request posted" and the "request performed" notifications.             *)
(*                                                                         *)
(* A critical section that only touches the flags is one action, enabled   *)
(* while the mutex is free; video_frame_prepare() holds the mutex across   *)
(* several steps because it copies data the video thread reads unlocked.   *)
(* Contents are abstracted to the number of the frame they belong to.      *)
(***************************************************************************)
EXTENDS Naturals

CONSTANTS
    MaxFrame,   \* bound on the frames the emulation produces
    MaxUpdate,  \* bound on the video mode updates that reach the video thread
    MayFail     \* whether the creation of the video thread may fail

ASSUME BoundAssumption == MaxFrame \in Nat /\ MaxUpdate \in Nat
ASSUME FailAssumption == MayFail \in BOOLEAN

VARIABLES
    ready,      \* thread_state_ready_flag: the posted request, or "none"
    exit,       \* thread_exit_flag
    waiting,    \* the threads asleep in pthread_cond_wait()
    game,       \* thread_state_game: the frame the bitmap copy holds
    state,      \* thread_state_led, _input, _skip_flag and the sample buffer
    arg,        \* thread_arg_mode: the number of the update it belongs to
    result,     \* thread_arg_result
    mode_flag,  \* state.mode_flag: a video mode is set
    mpc,        \* where the emulation thread is
    call,       \* the request it is about to post
    ret,        \* where it continues after advance_video_thread_wait()
    attempt,    \* the mode it is setting: "init", "new" or the "old" one
    skip,       \* skip_flag of the frame it is sending
    posted,     \* the frames posted so far
    vpc,        \* where the video thread is
    vcall,      \* its local copy of the request
    vstate,     \* the by-value arguments of video_frame_update_now()
    drawn,      \* the frame on the screen
    heard       \* the last frame whose samples were played

copies == <<game, state>>
mode == <<arg, result, mode_flag>>
shared == <<ready, exit, waiting, copies, mode>>
mainVars == <<mpc, call, ret, attempt, skip, posted>>
videoVars == <<vpc, vcall, vstate, drawn, heard>>
vars == <<shared, mainVars, videoVars>>

Request == {"none", "frame", "done", "update"}
FrameState == [frame : 0..MaxFrame, skip : BOOLEAN]

TypeOK ==
    /\ ready \in Request /\ exit \in BOOLEAN
    /\ waiting \subseteq {"main", "video"}
    /\ game \in 0..MaxFrame /\ state \in FrameState
    /\ arg \in 0..MaxUpdate
    /\ result \in [update : 0..MaxUpdate, ok : BOOLEAN]
    /\ mode_flag \in BOOLEAN
    /\ mpc \in {"off", "idle", "prepare", "copy_game", "copy_state", "signal",
                "wait", "update", "updated", "opened", "close", "closed",
                "exit", "join", "end", "aborted"}
    /\ call \in Request
    /\ ret \in {"idle", "update", "updated", "close", "closed", "exit"}
    /\ attempt \in {"init", "new", "old"}
    /\ skip \in BOOLEAN /\ posted \in 0..MaxFrame
    /\ vpc \in {"off", "check", "act", "draw", "sound", "finish", "end"}
    /\ vcall \in Request /\ vstate \in FrameState
    /\ drawn \in 0..MaxFrame /\ heard \in 0..MaxFrame

Init ==
    /\ ready = "none" /\ exit = FALSE /\ waiting = {}
    /\ game = 0 /\ state = [frame |-> 0, skip |-> FALSE]
    /\ arg = 0 /\ result = [update |-> 0, ok |-> FALSE]
    /\ mode_flag = FALSE
    /\ mpc = "off" /\ call = "none" /\ ret = "idle" /\ attempt = "init"
    /\ skip = FALSE /\ posted = 0
    /\ vpc = "off" /\ vcall = "none" /\ vstate = state
    /\ drawn = 0 /\ heard = 0

---------------------------------------------------------------------------
(* The mutex and the condition variable. *)

\* Only video_frame_prepare() keeps thread_video_mutex across steps.
Unlocked == mpc \notin {"copy_game", "copy_state"}

\* pthread_cond_signal(): one of the sleeping threads, if any, is awakened.
Notify ==
    IF waiting = {} THEN UNCHANGED waiting
    ELSE \E t \in waiting : waiting' = waiting \ {t}

\* Thread t may take the mutex and go on: it is not asleep.
Running(t) == t \notin waiting /\ Unlocked

\* pthread_cond_wait() may return without a signal.
SpuriousWakeup ==
    \E t \in waiting :
        /\ waiting' = waiting \ {t}
        /\ UNCHANGED <<ready, exit, copies, mode, mainVars, videoVars>>

---------------------------------------------------------------------------
(* The emulation thread. *)

\* osd2_thread_init(): called by sound_init(), before the video is opened.  Its
\* error reaches sound_init() as -1, which only takes 0 for a failure.
ThreadInit ==
    /\ mpc = "off"
    /\ exit' = FALSE /\ ready' = "none" /\ game' = 0
    /\ state' = [frame |-> 0, skip |-> FALSE]
    /\ vpc' \in IF MayFail THEN {"check", "off"} ELSE {"check"}
    /\ mpc' = "update" /\ attempt' = "init"
    /\ UNCHANGED <<waiting, mode, call, ret, skip, posted, vcall, vstate,
                   drawn, heard>>

\* osd2_frame() reaches video_frame_prepare() with the skip decision in force.
Frame ==
    /\ mpc = "idle" /\ posted < MaxFrame
    /\ skip' \in BOOLEAN
    /\ mpc' = "prepare"
    /\ UNCHANGED <<shared, call, ret, attempt, posted, videoVars>>

\* Deliberate bug: the copies are refreshed without waiting.
PrepareWithoutWait ==
    /\ mpc = "prepare" /\ Unlocked
    /\ mpc' = "copy_game"
    /\ UNCHANGED <<shared, call, ret, attempt, skip, posted, videoVars>>

\* video_frame_prepare() locks and waits for the previous request to end.
PrepareWait ==
    /\ mpc = "prepare" /\ Running("main")
    /\ IF ready # "none"
       THEN waiting' = waiting \cup {"main"} /\ UNCHANGED mpc
       ELSE mpc' = "copy_game" /\ UNCHANGED waiting
    /\ UNCHANGED <<ready, exit, copies, mode, call, ret, attempt, skip,
                   posted, videoVars>>

\* Deliberate bug: the test on skip_flag is reversed.
CopySkippedGame ==
    /\ mpc = "copy_game"
    /\ game' = IF skip THEN posted + 1 ELSE game
    /\ mpc' = "copy_state"
    /\ UNCHANGED <<ready, exit, waiting, state, mode, call, ret, attempt,
                   skip, posted, videoVars>>

\* The bitmap is duplicated only when the frame is not skipped.
CopyGame ==
    /\ mpc = "copy_game"
    /\ game' = IF skip THEN game ELSE posted + 1
    /\ mpc' = "copy_state"
    /\ UNCHANGED <<ready, exit, waiting, state, mode, call, ret, attempt,
                   skip, posted, videoVars>>

\* Deliberate bug: the samples of a skipped frame are not copied.
CopyStateUnlessSkipped ==
    /\ mpc = "copy_state"
    /\ state' = IF skip THEN [state EXCEPT !.skip = TRUE]
                ELSE [frame |-> posted + 1, skip |-> FALSE]
    /\ call' = "frame" /\ mpc' = "signal"
    /\ UNCHANGED <<ready, exit, waiting, game, mode, ret, attempt, skip,
                   posted, videoVars>>

\* The leds, the input, the skip flag and the samples always are; then unlock.
CopyState ==
    /\ mpc = "copy_state"
    /\ state' = [frame |-> posted + 1, skip |-> skip]
    /\ call' = "frame" /\ mpc' = "signal"
    /\ UNCHANGED <<ready, exit, waiting, game, mode, ret, attempt, skip,
                   posted, videoVars>>

\* Deliberate bug: a frame that is waited for is posted twice.
SignalFrameTwice ==
    /\ mpc = "signal" /\ call = "frame" /\ Unlocked
    /\ ready' = call /\ Notify
    /\ mpc' \in {"idle", "wait"} /\ ret' = "idle"
    /\ posted' = IF mpc' = "wait" THEN posted + 2 ELSE posted + 1
    /\ UNCHANGED <<exit, copies, mode, call, attempt, skip, videoVars>>

\* advance_video_thread_signal() for a frame.  video_frame_update() returns at
\* once, or waits if smp_flag is off, the debugger or the interface is active.
SignalFrame ==
    /\ mpc = "signal" /\ call = "frame" /\ Unlocked
    /\ ready' = call /\ Notify
    /\ posted' = posted + 1
    /\ mpc' \in {"idle", "wait"} /\ ret' = "idle"
    /\ UNCHANGED <<exit, copies, mode, call, attempt, skip, videoVars>>

\* The same for a mode request, which is always waited for.
SignalMode ==
    /\ mpc = "signal" /\ call # "frame" /\ Unlocked
    /\ ready' = call /\ Notify
    /\ mpc' = "wait"
    /\ ret' = IF call = "update" THEN "updated" ELSE "closed"
    /\ UNCHANGED <<exit, copies, mode, call, attempt, skip, posted, videoVars>>

\* advance_video_thread_wait().
Wait ==
    /\ mpc = "wait" /\ Running("main")
    /\ IF ready # "none"
       THEN waiting' = waiting \cup {"main"} /\ UNCHANGED mpc
       ELSE mpc' = ret /\ UNCHANGED waiting
    /\ UNCHANGED <<ready, exit, copies, mode, call, ret, attempt, skip,
                   posted, videoVars>>

\* The menus wait for the thread before they touch the settings it uses.
MenuWait ==
    /\ mpc = "idle"
    /\ mpc' = "wait" /\ ret' = "idle"
    /\ UNCHANGED <<shared, call, attempt, skip, posted, videoVars>>

\* advance_video_reconfigure() first waits.
Reconfigure ==
    /\ mpc = "idle"
    /\ mpc' = "wait" /\ ret' = "update" /\ attempt' = "new"
    /\ UNCHANGED <<shared, call, skip, posted, videoVars>>

\* advance_thread_vidmode_update(): the arguments are written with no lock.
RequestUpdate ==
    /\ mpc = "update" /\ arg < MaxUpdate
    /\ arg' = arg + 1
    /\ call' = "update" /\ mpc' = "signal"
    /\ UNCHANGED <<ready, exit, waiting, game, state, result, mode_flag, ret,
                   attempt, skip, posted, videoVars>>

\* Deliberate bug: the emulation goes on after a failed change of mode.
AfterFailureGoOn ==
    /\ mpc' = IF attempt = "init" THEN "closed" ELSE "idle"
    /\ UNCHANGED attempt

\* What follows a mode that could not be set: the previous configuration is
\* tried again, then the program aborts; at start the game is given up.
AfterFailure ==
    /\ mpc' = CASE attempt = "init" -> "closed"
                [] attempt = "new"  -> "update"
                [] attempt = "old"  -> "aborted"
    /\ attempt' = IF attempt = "new" THEN "old" ELSE attempt

\* The mode is refused before the video thread is involved.
RefuseUpdate ==
    /\ mpc = "update"
    /\ AfterFailure
    /\ UNCHANGED <<shared, call, ret, skip, posted, videoVars>>

\* advance_thread_vidmode_update() returns thread_arg_result.
Updated ==
    /\ mpc = "updated"
    /\ IF result.ok
       THEN /\ mpc' = IF attempt = "init" THEN "opened" ELSE "idle"
            /\ UNCHANGED attempt
       ELSE AfterFailure
    /\ UNCHANGED <<shared, call, ret, skip, posted, videoVars>>

\* osd2_video_init() enables the input devices, or closes the mode again.
Opened ==
    /\ mpc = "opened"
    /\ mpc' \in {"idle", "close"}
    /\ UNCHANGED <<shared, call, ret, attempt, skip, posted, videoVars>>

\* Deliberate bug: the mode is closed without waiting for the last frame.
VideoDoneNoWait ==
    /\ mpc = "idle"
    /\ mpc' = "close" /\ ret' = "close"
    /\ UNCHANGED <<shared, call, attempt, skip, posted, videoVars>>

\* osd2_video_done() waits for the last frame before closing the mode.
VideoDone ==
    /\ mpc = "idle"
    /\ mpc' = "wait" /\ ret' = "close"
    /\ UNCHANGED <<shared, call, attempt, skip, posted, videoVars>>

\* advance_thread_vidmode_done().
RequestDone ==
    /\ mpc = "close"
    /\ call' = "done" /\ mpc' = "signal"
    /\ UNCHANGED <<shared, ret, attempt, skip, posted, videoVars>>

\* Deliberate bug: the exit flag is set but the condition is not signalled.
RequestExitSilently ==
    /\ mpc = "exit" /\ Unlocked
    /\ exit' = TRUE
    /\ mpc' = "join"
    /\ UNCHANGED <<ready, waiting, copies, mode, call, ret, attempt, skip,
                   posted, videoVars>>

\* osd2_thread_done(): wait, ask the thread to exit, join it.
ThreadDone ==
    /\ mpc = "closed"
    /\ mpc' = "wait" /\ ret' = "exit"
    /\ UNCHANGED <<shared, call, attempt, skip, posted, videoVars>>

RequestExit ==
    /\ mpc = "exit" /\ Unlocked
    /\ exit' = TRUE /\ Notify
    /\ mpc' = "join"
    /\ UNCHANGED <<ready, copies, mode, call, ret, attempt, skip, posted,
                   videoVars>>

\* pthread_join(), then the copies are freed.  What a join does with a thread
\* that was never created is not defined: it returns, or the program crashes.
Join ==
    /\ mpc = "join" /\ vpc \in {"end", "off"}
    /\ game' = 0
    /\ mpc' \in IF vpc = "end" THEN {"end"} ELSE {"end", "aborted"}
    /\ UNCHANGED <<ready, exit, waiting, state, mode, call, ret, attempt,
                   skip, posted, videoVars>>

---------------------------------------------------------------------------
(* The video thread. *)

\* video_thread(): wait for a request or for the exit, copy both flags, unlock.
VideoCheck ==
    /\ vpc = "check" /\ Running("video")
    /\ IF ready = "none" /\ ~exit
       THEN waiting' = waiting \cup {"video"} /\ UNCHANGED <<vpc, vcall>>
       ELSE /\ vpc' = IF exit THEN "end" ELSE "act"
            /\ vcall' = ready
            /\ UNCHANGED waiting
    /\ UNCHANGED <<ready, exit, copies, mode, mainVars, vstate, drawn, heard>>

\* The arguments of video_frame_update_now() are read with no lock.
ActFrame ==
    /\ vpc = "act" /\ vcall = "frame"
    /\ vstate' = state
    /\ vpc' = "draw"
    /\ UNCHANGED <<shared, mainVars, vcall, drawn, heard>>

\* advance_video_frame(): the bitmap is read while it is drawn.
DrawFrame ==
    /\ vpc = "draw"
    /\ drawn' = IF vstate.skip THEN drawn ELSE game
    /\ vpc' = "sound"
    /\ UNCHANGED <<shared, mainVars, vcall, vstate, heard>>

\* advance_sound_frame(): the samples are read, of skipped frames too.
SoundFrame ==
    /\ vpc = "sound"
    /\ heard' = state.frame
    /\ vpc' = "finish"
    /\ UNCHANGED <<shared, mainVars, vcall, vstate, drawn>>

\* vidmode_done().
ActDone ==
    /\ vpc = "act" /\ vcall = "done"
    /\ mode_flag' = FALSE
    /\ vpc' = "finish"
    /\ UNCHANGED <<ready, exit, waiting, game, state, arg, result, mainVars,
                   vcall, vstate, drawn, heard>>

\* vidmode_update(): on failure the mode may be lost or still set.
ActUpdate ==
    /\ vpc = "act" /\ vcall = "update"
    /\ \E ok \in BOOLEAN :
        /\ result' = [update |-> arg, ok |-> ok]
        /\ mode_flag' \in IF ok THEN {TRUE} ELSE BOOLEAN
    /\ vpc' = "finish"
    /\ UNCHANGED <<ready, exit, waiting, game, state, arg, mainVars, vcall,
                   vstate, drawn, heard>>

\* Deliberate bug: the end of the request is not signalled.
FinishSilently ==
    /\ vpc = "finish" /\ Unlocked
    /\ ready' = "none"
    /\ vpc' = "check"
    /\ UNCHANGED <<exit, waiting, copies, mode, mainVars, vcall, vstate, drawn,
                   heard>>

\* Deliberate bug: the request is left in place and performed again.
FinishNoClear ==
    /\ vpc = "finish" /\ Unlocked
    /\ Notify
    /\ vpc' = "check"
    /\ UNCHANGED <<ready, exit, copies, mode, mainVars, vcall, vstate, drawn,
                   heard>>

\* Lock, clear the request, signal, and go back to wait.
Finish ==
    /\ vpc = "finish" /\ Unlocked
    /\ ready' = "none" /\ Notify
    /\ vpc' = "check"
    /\ UNCHANGED <<exit, copies, mode, mainVars, vcall, vstate, drawn, heard>>

---------------------------------------------------------------------------

\* The calls the emulation makes of its own accord, at any time.
Choose == Frame \/ MenuWait \/ Reconfigure \/ VideoDone

\* The steps of a call in progress.
MainStep ==
    \/ ThreadInit \/ PrepareWait \/ CopyGame \/ CopyState
    \/ SignalFrame \/ SignalMode \/ Wait
    \/ RequestUpdate \/ RefuseUpdate \/ Updated \/ Opened
    \/ RequestDone \/ ThreadDone \/ RequestExit \/ Join

VideoStep ==
    \/ VideoCheck \/ ActFrame \/ DrawFrame \/ SoundFrame
    \/ ActDone \/ ActUpdate \/ Finish

\* The program has ended.
Ended == mpc \in {"end", "aborted"} /\ UNCHANGED vars

Next == Choose \/ MainStep \/ VideoStep \/ SpuriousWakeup \/ Ended

\* The scheduler runs both threads; nothing forces the emulation to make a call.
Fairness == WF_vars(MainStep) /\ WF_vars(VideoStep)

Spec == Init /\ [][Next]_vars /\ Fairness

---------------------------------------------------------------------------
(* Properties. *)

\* The emulation thread never writes the frame copies, the arguments of a mode
\* request or the video mode state while the video thread uses them: the loop
\* on thread_state_ready_flag is the only thing that keeps them apart.
SharedDataExclusive ==
    /\ mpc \in {"copy_game", "copy_state", "update", "opened", "close", "end"}
           => vpc \notin {"act", "draw", "sound"}
    /\ vpc = "act" /\ vcall # "frame" => mpc = "wait"

\* Both threads sleep on the same condition variable; a thread is never left
\* asleep after what it waits for has happened.
NoLostWakeup ==
    /\ "main" \in waiting => ready # "none"
    /\ "video" \in waiting => ready = "none" /\ ~exit

\* The picture, the flags and the samples of a performed frame all belong to
\* that frame, although the three are read at different times and unlocked.
FrameWhole ==
    vcall = "frame" =>
        /\ vpc \in {"sound", "finish"} /\ ~vstate.skip => drawn = vstate.frame
        /\ vpc = "finish" => heard = vstate.frame

\* The video thread draws a frame or closes the mode (assert in vidmode_done())
\* only while a mode is set, whatever the failures of the mode updates were.
ModeIsSet ==
    /\ vpc \in {"draw", "sound"} => mode_flag
    /\ vpc = "act" /\ vcall = "done" => mode_flag

\* No frame handed over is dropped when the thread is told to exit.
AllHeardAtExit == mpc \in {"exit", "join", "end"} => heard = posted /\ ready = "none"

\* The samples of every frame are played, once each and in order: a skipped
\* or lost frame would be a gap in the sound.
SoundHasNoGap == [][heard' # heard => heard' = heard + 1]_vars

\* The hand-off implements the one-request server: the mutex, the flag and the
\* condition variable of video.c lose, repeat and overwrite no request.
Service == INSTANCE VideoService WITH
    request <- ready, performed <- (vpc = "finish")

ImplementsService == Service!Spec

\* The waits of osd2_thread_done() and the join end.
ThreadEnds == (mpc = "closed" /\ vpc # "off") ~> mpc = "end"
=============================================================================
