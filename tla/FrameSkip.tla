----------------------------- MODULE FrameSkip -----------------------------
(***************************************************************************)
(* Which frames are drawn and how long each one waits: the frame skipping  *)
(* and the synchronisation of advance/osd/sync.c, with the commands of     *)
(* video_command() and osd_reset() (advance/osd/video.c) that drive them.  *)
(*                                                                         *)
(* osd2_frame() performs the commands, decides whether the next frame is   *)
(* skipped and gives the current one to advance_video_sync(), that runs in *)
(* the video thread, or at once without smp.  Nothing of this is under a   *)
(* lock: both threads run advance_video_update_skip() and                  *)
(* advance_video_update_sync(), one store at a time.  Measured times are   *)
(* chosen freely; of the real time only the number of frame times a wait   *)
(* covers is kept.                                                         *)
(***************************************************************************)
EXTENDS SkipLevels, FiniteSets

CONSTANTS
    Factor,         \* the values of display_frameskip, in percent
    Times,          \* the frame time and the measures of a full and a skipped frame
    FastestLimit,   \* frames of the startup at full speed
    MeasureLimits   \* frames of the speed measure, 0 if there is none

ASSUME FactorAssumption == Factor \subseteq 0..100
ASSUME TimesAssumption ==
    Times \subseteq {t \in [step : Nat, full : Nat, skip : Nat] : t.step > 0 /\ t.skip <= t.full}
ASSUME LimitAssumption == FastestLimit \in Nat /\ MeasureLimits \subseteq Nat

VARIABLES
    smp, limit, factor, \* the configuration: smp_flag, measure_time in frames, frameskip_factor
    level, counter, \* skip_level_full, skip_level_skip and skip_level_counter
    skip_flag,      \* skip the next frame
    skip_warm,      \* skip_warming_up_flag
    auto,           \* frameskip_auto_flag
    throttle, turbo, fastest, measure, \* the speed of the game
    frames, mcount, \* frame_counter up to FastestLimit + 1, measure_counter
    vsync_ok, vsync,\* the mode allows the vsync, vsync_flag
    sync_warm,      \* sync_warming_up_flag
    skipped,        \* sync_skip_counter
    gap,            \* the frames skipped since the last one drawn
    play,           \* the play script is running
    exit,           \* input_forced_exit_flag
    restart,        \* the place of each thread in a restart of both computations
    fresh,          \* the levels that the emulation is storing
    mpc, cur,       \* the emulation thread: place and skip flag of its frame
    vpc, vskip      \* the video thread: the same

config == <<smp, limit, factor>>
levels == <<level, counter, skip_flag, skip_warm, auto>>
speed == <<throttle, turbo, fastest, measure>>
limits == <<frames, mcount, play, exit>>
sync == <<vsync, sync_warm, skipped, gap>>
video == <<vpc, vskip>>
vars == <<config, levels, speed, limits, vsync_ok, sync, restart, fresh, mpc, cur, video>>

Threads == {"main", "video"}

TypeOK ==
    /\ smp \in BOOLEAN /\ limit \in MeasureLimits
    /\ {level, fresh} \subseteq [full : 1..SYNC_MAX, skip : 0..SYNC_MAX]
    /\ counter \in 0..2 * SYNC_MAX
    /\ {skip_flag, skip_warm, auto} \subseteq BOOLEAN
    /\ factor \in Factor \cup {100}
    /\ {throttle, turbo, fastest, measure} \subseteq BOOLEAN
    /\ frames \in 0..FastestLimit + 1 /\ mcount \in 0..limit
    /\ {vsync_ok, vsync, sync_warm, play, exit} \subseteq BOOLEAN
    /\ skipped \in Nat /\ gap \in Nat
    /\ restart \in [Threads -> {"no", "warm", "full", "skip", "sync", "test", "clear"}]
    /\ mpc \in {"game", "skip", "start", "count", "next", "full", "rest", "warm", "post"}
    /\ vpc \in {"idle", "sync", "start", "wait"} /\ {cur, vskip} \subseteq BOOLEAN

---------------------------------------------------------------------------
(* advance_video_update_skip() and advance_video_update_sync(), that follow *)
(* every change of the speed, in thread t.                                 *)

At(t, place) == restart[t] = place
Go(t, place) == restart' = [restart EXCEPT ![t] = place]
Quiet(t) == At(t, "no")

\* The speed at which the vsync may be used.
Normal == vsync_ok /\ throttle /\ ~turbo /\ ~fastest /\ ~measure

UpdateSkip == skip_warm' = TRUE /\ level' = FactorLevel(factor)

\* The emulation stores the start of the skipping and the levels at once: of them the
\* video thread reads skip_level_full only, or stores the same values.
RestartSkip ==
    /\ At("main", "warm") /\ Go("main", "sync")
    /\ UpdateSkip
    /\ UNCHANGED <<counter, skip_flag, auto, config, speed, limits, vsync_ok, sync, fresh, mpc,
                   cur, video>>

\* The video thread, one by one.
RestartSkipVideo ==
    /\ \/ At("video", "warm") /\ Go("video", "full")
          /\ skip_warm' = TRUE /\ UNCHANGED level
       \/ At("video", "full") /\ Go("video", "skip")
          /\ level' = [level EXCEPT !.full = FactorLevel(factor).full] /\ UNCHANGED skip_warm
       \/ At("video", "skip") /\ Go("video", "sync")
          /\ level' = [level EXCEPT !.skip = FactorLevel(factor).skip] /\ UNCHANGED skip_warm
    /\ UNCHANGED <<counter, skip_flag, auto, config, speed, limits, vsync_ok, sync, fresh, mpc,
                   cur, video>>

\* Deliberate bug: the time of the last frame is kept.
RestartSyncLate(t) ==
    /\ At(t, "sync") /\ Go(t, "test")
    /\ vsync' \in {vsync_ok, TRUE}
    /\ UNCHANGED <<levels, config, speed, limits, vsync_ok, sync_warm, skipped, gap, fresh,
                   mpc, cur, video>>

\* vsync_flag is set first, also with a rate that is then found too different, ...
RestartSync(t) ==
    /\ At(t, "sync") /\ Go(t, "test")
    /\ sync_warm' = TRUE
    /\ vsync' \in {vsync_ok, TRUE}
    /\ UNCHANGED <<levels, config, speed, limits, vsync_ok, skipped, gap, fresh, mpc, cur, video>>

\* Deliberate bug: the vsync is left as it is in the turbo.
TestVsyncNotTurbo(t) ==
    /\ At(t, "test")
    /\ Go(t, IF vsync_ok /\ throttle /\ ~fastest /\ ~measure THEN "no" ELSE "clear")
    /\ UNCHANGED <<levels, config, speed, limits, vsync_ok, sync, fresh, mpc, cur, video>>

\* ... then the speed is tested ...
TestVsync(t) ==
    /\ At(t, "test")
    /\ Go(t, IF Normal THEN "no" ELSE "clear")
    /\ UNCHANGED <<levels, config, speed, limits, vsync_ok, sync, fresh, mpc, cur, video>>

\* ... and vsync_flag is cleared, maybe on what the other thread has changed since.
ClearVsync(t) ==
    /\ At(t, "clear") /\ Go(t, "no")
    /\ vsync' = FALSE
    /\ UNCHANGED <<levels, config, speed, limits, vsync_ok, sync_warm, skipped, gap, fresh,
                   mpc, cur, video>>

Vsync(t) == RestartSync(t) \/ TestVsync(t) \/ ClearVsync(t)

Init ==
    /\ smp \in BOOLEAN /\ limit \in MeasureLimits
    /\ \/ auto = TRUE /\ factor = 100
       \/ auto = FALSE /\ factor \in Factor
    /\ level = FactorLevel(factor) /\ counter = 0
    /\ skip_flag = FALSE /\ skip_warm = TRUE
    /\ throttle = TRUE /\ turbo = FALSE /\ fastest = FALSE /\ measure = FALSE
    /\ frames = 0 /\ mcount = 0 /\ play = FALSE /\ exit = FALSE
    /\ vsync_ok \in BOOLEAN /\ vsync = vsync_ok
    /\ sync_warm = TRUE /\ skipped = 0 /\ gap = 0
    /\ restart = [t \in Threads |-> "no"] /\ fresh = Level(1, 0)
    /\ mpc = "game" /\ cur = FALSE /\ vpc = "idle" /\ vskip = FALSE

VideoIdle == vpc = "idle" /\ Quiet("video")

\* The emulation computes a frame; without smp the previous one is over.
AtFrame == mpc = "game" /\ Quiet("main") /\ (smp \/ VideoIdle) /\ ~exit

---------------------------------------------------------------------------
(* osd_reset() and the changes of the video mode, between two frames. *)

Reset ==
    /\ AtFrame
    /\ frames' = 0
    /\ fastest' = (FastestLimit # 0)
    /\ mcount' = limit /\ measure' = (limit # 0)
    /\ Go("main", "warm")
    /\ play' = (~fastest' \/ measure')
    /\ UNCHANGED <<levels, config, throttle, turbo, exit, vsync_ok, sync, fresh, mpc, cur, video>>

\* advance_video_mode_update(): it waits for the video thread; the new mode may
\* have another refresh rate.
ModeUpdate ==
    /\ AtFrame /\ VideoIdle
    /\ vsync_ok' \in BOOLEAN
    /\ Go("main", "warm")
    /\ UNCHANGED <<levels, config, speed, limits, sync, fresh, mpc, cur, video>>

---------------------------------------------------------------------------
(* video_command(): one command at most in a frame, and the counters. *)

Next1(n, max) == IF n = max THEN n ELSE n + 1

\* The speed measure counts down to the exit and ignores every command.
CountMeasure ==
    /\ AtFrame /\ measure
    /\ frames' = Next1(frames, FastestLimit + 1)
    /\ mcount' = (IF mcount > 0 THEN mcount - 1 ELSE 0)
    /\ exit' = (exit \/ mcount = 1)
    /\ cur' = skip_flag /\ mpc' = "skip"
    /\ UNCHANGED <<levels, config, speed, play, vsync_ok, sync, restart, fresh, video>>

\* Deliberate bug: the play script is not started after the startup.
CountStartupSilently ==
    /\ frames' = Next1(frames, FastestLimit + 1)
    /\ fastest' = (fastest /\ frames' <= FastestLimit)
    /\ UNCHANGED play

\* The startup at full speed ends after its frames, and the game is played.
CountStartup ==
    /\ frames' = Next1(frames, FastestLimit + 1)
    /\ fastest' = (fastest /\ frames' <= FastestLimit)
    /\ play' = (play \/ fastest # fastest')

Frame ==
    /\ AtFrame /\ ~measure
    /\ cur' = skip_flag /\ mpc' = "skip"

\* A change of the speed is followed by a restart; until its steps are over the
\* video thread may perform its frame.
GoOn == restart' = IF speed' = speed THEN restart ELSE [restart EXCEPT !["main"] = "warm"]

\* The throttle key, the turbo key down or up, the end of the startup.
CommandSpeed ==
    /\ Frame /\ CountStartup
    /\ throttle' \in BOOLEAN /\ turbo' \in BOOLEAN /\ UNCHANGED measure
    /\ GoOn
    /\ UNCHANGED <<levels, config, mcount, exit, vsync_ok, sync, fresh, video>>

\* The keys of the frame skip: the first press leaves the automatic skip, a
\* press at the end of the ladder goes back to it.
CommandSkip(next) ==
    /\ Frame /\ CountStartup
    /\ CASE auto -> auto' = FALSE /\ UNCHANGED counter
                    /\ UpdateSkip
         [] ~auto /\ next = level ->
                auto' = TRUE /\ UNCHANGED <<counter, level, skip_warm>>
         [] ~auto /\ next # level ->
                counter' = 0 /\ level' = next /\ UNCHANGED <<auto, skip_warm>>
    /\ UNCHANGED <<throttle, turbo, measure>>
    /\ GoOn
    /\ UNCHANGED <<skip_flag, config, mcount, exit, vsync_ok, sync, fresh, video>>

CommandInc == CommandSkip(Inc(level))
CommandDec == CommandSkip(Dec(level))

---------------------------------------------------------------------------
(* advance_video_skip(): is the next frame skipped?  The video thread may  *)
(* restart the skipping between the steps.                                 *)

Deciding == mpc = "skip" /\ Quiet("main")

\* Throttle off, a recording or a snapshot: none is.
SkipNone ==
    /\ Deciding
    /\ skip_flag' = FALSE /\ counter' = 0 /\ skip_warm' = TRUE
    /\ mpc' = "post"
    /\ UNCHANGED <<level, auto, config, speed, limits, vsync_ok, sync, restart, fresh,
                   cur, video>>

SkipSome ==
    /\ Deciding /\ throttle
    /\ mpc' = (IF skip_warm THEN "start" ELSE "count")
    /\ UNCHANGED <<levels, config, speed, limits, vsync_ok, sync, restart, fresh, cur, video>>

\* The start of the skipping; the measure and the startup have their own levels.
SkipStart ==
    /\ mpc = "start"
    /\ skip_flag' = FALSE /\ counter' = 0
    /\ IF measure \/ fastest
       THEN mpc' = "full" /\ fresh' = Level(1, IF measure THEN 0 ELSE SYNC_MAX)
       ELSE mpc' = "warm" /\ UNCHANGED fresh
    /\ UNCHANGED <<level, skip_warm, auto, config, speed, limits, vsync_ok, sync, restart,
                   cur, video>>

\* The position in the cycle decides ...
SkipCount ==
    /\ mpc = "count" /\ mpc' = "next"
    /\ skip_flag' = (counter >= level.full)
    /\ UNCHANGED <<level, counter, skip_warm, auto, config, speed, limits, vsync_ok, sync,
                   restart, fresh, cur, video>>

\* New levels, from the measures.
Measured ==
    \E t \in Times :
        /\ fresh' = Recompute(t.step, t.full, t.skip, turbo)
        /\ mpc' = "full"

\* Deliberate bug: the position in the cycle isn't restarted with new levels.
SkipNextRuns ==
    /\ mpc = "next"
    /\ counter' = counter + 1
    /\ IF counter + 1 >= level.full + level.skip /\ ~fastest /\ ~measure /\ (turbo \/ auto)
       THEN Measured
       ELSE mpc' = "post" /\ UNCHANGED fresh
    /\ UNCHANGED <<level, skip_flag, skip_warm, auto, config, speed, limits, vsync_ok, sync,
                   restart, cur, video>>

\* ... and goes on; at the end of the cycle there are new levels.
SkipNext ==
    /\ mpc = "next"
    /\ IF counter + 1 >= level.full + level.skip
       THEN /\ counter' = 0
            /\ IF ~fastest /\ ~measure /\ (turbo \/ auto)
               THEN Measured
               ELSE mpc' = "post" /\ UNCHANGED fresh
       ELSE counter' = counter + 1 /\ mpc' = "post" /\ UNCHANGED fresh
    /\ UNCHANGED <<level, skip_flag, skip_warm, auto, config, speed, limits, vsync_ok, sync,
                   restart, cur, video>>

\* The stores of the levels; after those of a start it is over.
StoreLevel ==
    /\ \/ mpc = "full" /\ mpc' = "rest"
          /\ level' = [level EXCEPT !.full = fresh.full] /\ UNCHANGED fresh
       \/ mpc = "rest" /\ mpc' = (IF measure \/ fastest THEN "warm" ELSE "post")
          /\ level' = [level EXCEPT !.skip = fresh.skip] /\ fresh' = Level(1, 0)
    /\ UNCHANGED <<counter, skip_flag, skip_warm, auto, config, speed, limits, vsync_ok, sync,
                   restart, cur, video>>

SkipStarted ==
    /\ mpc = "warm" /\ mpc' = "post"
    /\ skip_warm' = FALSE
    /\ UNCHANGED <<level, counter, skip_flag, auto, config, speed, limits, vsync_ok, sync,
                   restart, fresh, cur, video>>

\* video_frame_update(): the frame is given to the video thread when it is free.
Post ==
    /\ mpc = "post" /\ VideoIdle
    /\ vpc' = "sync" /\ vskip' = cur
    /\ mpc' = "game"
    /\ UNCHANGED <<levels, config, speed, limits, vsync_ok, sync, restart, fresh, cur>>

---------------------------------------------------------------------------
(* advance_video_sync(), in the video thread. *)

VideoAt(skip) == vpc = "sync" /\ vskip = skip /\ UNCHANGED vskip

\* A skipped frame is only counted.
SyncSkipped ==
    /\ VideoAt(TRUE) /\ vpc' = "idle"
    /\ skipped' = skipped + 1 /\ gap' = gap + 1
    /\ UNCHANGED <<levels, config, speed, limits, vsync_ok, vsync, sync_warm, restart, fresh, mpc,
                   cur>>

Throttled == throttle /\ ~fastest /\ ~measure

\* The first frame, or a frame at free speed, maybe after the next vsync ...
SyncStart ==
    /\ VideoAt(FALSE) /\ vpc' = "start"
    /\ sync_warm
    /\ UNCHANGED <<levels, config, speed, limits, vsync_ok, sync, restart, fresh, mpc, cur>>

\* ... takes the time, without a wait.
SyncStarted ==
    /\ vpc = "start" /\ vpc' = "idle"
    /\ sync_warm' = FALSE /\ skipped' = 0 /\ gap' = 0
    /\ UNCHANGED <<levels, config, speed, limits, vsync_ok, vsync, restart, fresh, mpc, cur, vskip>>

SyncFree ==
    /\ VideoAt(FALSE) /\ vpc' = "idle"
    /\ ~sync_warm /\ ~Throttled
    /\ gap' = 0
    /\ UNCHANGED <<levels, config, speed, limits, vsync_ok, vsync, sync_warm, skipped, restart,
                   fresh, mpc, cur>>

\* A frame is synchronised with the vsync if none is skipped ...
SyncVertical ==
    /\ VideoAt(FALSE) /\ vpc' = "idle"
    /\ ~sync_warm /\ Throttled /\ vsync /\ level.full = SYNC_MAX
    /\ skipped' = 0 /\ gap' = 0
    /\ UNCHANGED <<levels, config, speed, limits, vsync_ok, vsync, sync_warm, restart, fresh, mpc,
                   cur>>

\* ... or waits for as many frame times as frames have passed.  A driver without
\* a synchronous operation waits here even with the vsync.
SyncWait ==
    /\ VideoAt(FALSE) /\ vpc' = "wait"
    /\ ~sync_warm /\ Throttled
    /\ skipped' = 0 /\ gap' = 0
    /\ UNCHANGED <<levels, config, speed, limits, vsync_ok, vsync, sync_warm, restart, fresh, mpc,
                   cur>>

\* If it is too late for that both computations restart, in the video thread.
SyncWaited ==
    /\ vpc = "wait" /\ vpc' = "idle"
    /\ \/ UNCHANGED restart
       \/ auto /\ level.full = SYNC_MAX /\ Go("video", "warm")
    /\ UNCHANGED <<levels, config, speed, limits, vsync_ok, sync, fresh, mpc, cur, vskip>>

---------------------------------------------------------------------------

Command == CountMeasure \/ CommandSpeed \/ CommandInc \/ CommandDec
Skip == SkipNone \/ SkipSome \/ SkipStart \/ SkipCount \/ SkipNext \/ StoreLevel \/ SkipStarted
Restart == RestartSkip \/ Vsync("main")
Main == Reset \/ ModeUpdate \/ Command \/ Restart \/ Skip \/ Post

Sync == SyncSkipped \/ SyncStart \/ SyncStarted \/ SyncFree \/ SyncVertical \/ SyncWait \/ SyncWaited
Video == Sync \/ RestartSkipVideo \/ Vsync("video")

\* The exit is requested and the last frame is over.
Exited == exit /\ mpc = "game" /\ Quiet("main") /\ VideoIdle /\ UNCHANGED vars

Next == Main \/ Video \/ Exited

Spec == Init /\ [][Next]_vars

\* The emulation goes on computing frames, and the video thread performing them.  A
\* change of the mode comes from a frame or a menu, so there is a frame after it.
Fairness ==
    /\ SF_vars(Command)
    /\ WF_vars(Restart \/ Skip \/ Post)
    /\ WF_vars(Video)

FairSpec == Spec /\ Fairness

---------------------------------------------------------------------------
(* No more frames than the maximum are skipped in a row, whatever is       *)
(* pressed, measured or restarted between them (video_frame_skip()).       *)
GapBounded == gap <= SYNC_MAX

(* Without a video thread a wait of video_frame_sync() covers exactly the  *)
(* frames since the last one drawn: sync_skip_counter, that nobody resets  *)
(* while the game runs at free speed, is never used before a new start.    *)
WaitCoversGap ==
    ~smp /\ vpc = "sync" /\ ~vskip /\ ~sync_warm /\ Throttled => skipped = gap

(* With no restart going on, the vsync is in use only when the mode allows *)
(* it and the game runs at its normal speed, whichever thread has computed *)
(* it last; without a video thread it is in use exactly then.              *)
VsyncIsCurrent ==
    Quiet("main") /\ Quiet("video") =>
        /\ vsync => Normal
        /\ ~smp => vsync = Normal

(* The counts of video_command() end, if the machine isn't reset for ever: *)
(* the play script runs after the startup at full speed, and the speed     *)
(* measure ends the program.                                               *)
CountsEnd ==
    <>[][~Reset]_vars => (fastest /\ ~measure ~> play) /\ (measure ~> exit)
=============================================================================
