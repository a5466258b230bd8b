----------------------------- MODULE VideoMode -----------------------------
(***************************************************************************)
(* The video mode and what follows it: osd2_video_init(),                  *)
(* advance_video_reconfigure() and osd2_video_done() (advance/osd/video.c, *)
(* advance/osd/frame.c).  Every call that may fail is a step of its own:   *)
(* the choice of a mode for the configuration, the driver's mode set, the  *)
(* enable of the keyboard, of the mouse and of the joystick.  The asserts  *)
(* of vidmode_init(), vidmode_done() and of the input drivers              *)
(* (advance/lib/keydrv.c, mousedrv.c, joydrv.c) lead to the place "assert".*)
(* The video thread of VideoThread is reduced to one frame being drawn.    *)
(***************************************************************************)
EXTENDS Naturals

CONSTANTS
    Config,     \* the video configurations the user can choose
    Mode,       \* the video modes
    NoMode,     \* no mode exists for a configuration
    ModeOf      \* the mode computed for a configuration

ASSUME ModeAssumption == NoMode \notin Mode /\ ModeOf \in [Config -> Mode \cup {NoMode}]

VARIABLES
    config,     \* context->config
    old_config, \* the configuration saved by advance_video_reconfigure()
    mode_flag,  \* context->state.mode_flag
    mode,       \* context->state.mode
    active,     \* video_mode_is_active() of the video library
    pipeline,   \* the configuration the blit pipeline was made for, or none
    enabled,    \* the input drivers that are enabled
    colors,     \* the palette maps of the game are allocated
    caller,     \* who asked for the mode: "init", "update" or its "retry"
    at,         \* place of the emulation thread
    drawing     \* the mode of the frame the video thread is drawing, or none

vars == <<config, old_config, mode_flag, mode, active, pipeline, enabled,
          colors, caller, at, drawing>>

Input == {"keyb", "mouse", "joystick"}
NoConfig == "no_config"

TypeOK ==
    /\ config \in Config /\ old_config \in Config
    /\ mode_flag \in BOOLEAN /\ mode \in Mode \cup {NoMode}
    /\ mode_flag => mode \in Mode
    /\ active \in BOOLEAN
    /\ pipeline \in Config \cup {NoConfig}
    /\ enabled \subseteq Input
    /\ colors \in BOOLEAN
    /\ caller \in {"init", "update", "retry"}
    /\ at \in {"select", "update", "set", "keyb", "mouse", "joystick", "fail",
                "undo", "run", "wait", "quit", "closed", "failed", "undone", "abort",
                "assert"}
    /\ drawing \in Mode \cup {NoMode}

Init ==
    /\ config \in Config /\ old_config = config
    /\ mode_flag = FALSE /\ mode = NoMode /\ active = FALSE
    /\ pipeline = NoConfig /\ enabled = {} /\ colors = FALSE
    /\ caller = "init" /\ at = "select"
    /\ drawing = NoMode

---------------------------------------------------------------------------
(* The computation of the mode, shared by advance_video_mode_init() and    *)
(* advance_video_mode_update().                                            *)

Goto(place) == at' = place

\* When no mode exists for this configuration nothing was changed yet.  The
\* startup allocates the palette maps once it has a mode, before it sets it.
SelectMode ==
    /\ at = "select"
    /\ Goto(IF ModeOf[config] = NoMode THEN "fail" ELSE "update")
    /\ colors' = (colors \/ (caller = "init" /\ ModeOf[config] # NoMode))
    /\ UNCHANGED <<config, old_config, mode_flag, mode, active, pipeline,
                   enabled,
                   caller, drawing>>

\* vidmode_update(): the pipeline is forgotten, and a mode equal to the
\* current one is kept.
Invalidate == pipeline' = NoConfig

\* Deliberate bug: the pipeline made for the previous configuration is kept.
SameModeKept ==
    /\ at = "update" /\ mode_flag /\ mode = ModeOf[config]
    /\ Goto("run")
    /\ UNCHANGED <<config, old_config, mode_flag, mode, active, pipeline,
                   enabled, colors, caller, drawing>>

SameMode ==
    /\ at = "update" /\ mode_flag /\ mode = ModeOf[config]
    /\ Invalidate /\ Goto("run")
    /\ UNCHANGED <<config, old_config, mode_flag, mode, active, enabled,
                   colors, caller, drawing>>

\* Otherwise the mode is closed and, but at startup, the inputs are disabled:
\* each disable asserts that its driver is enabled, the joystick first.
OtherMode ==
    /\ at = "update" /\ ~(mode_flag /\ mode = ModeOf[config])
    /\ mode_flag' = FALSE
    /\ Invalidate
    /\ IF caller = "init"
       THEN Goto("set") /\ UNCHANGED enabled
       ELSE IF enabled = Input
            THEN Goto("set") /\ enabled' = {}
            ELSE Goto("assert") /\ UNCHANGED enabled
    /\ UNCHANGED <<config, old_config, mode, active, colors, caller, drawing>>

\* vidmode_init() with a video_mode_set() that succeeds ...
SetMode ==
    /\ at = "set"
    /\ active' = TRUE /\ mode_flag' = TRUE /\ mode' = ModeOf[config]
    /\ Goto("keyb")
    /\ UNCHANGED <<config, old_config, pipeline, enabled, colors, caller,
                   drawing>>

\* ... or is refused by the driver, which leaves no mode.
SetModeFails ==
    /\ at = "set"
    /\ active' = FALSE
    /\ Goto("fail")
    /\ UNCHANGED <<config, old_config, mode_flag, mode, pipeline, enabled,
                   colors, caller, drawing>>

After(input) == CASE input = "keyb" -> "mouse" [] input = "mouse" -> "joystick"
                  [] input = "joystick" -> "run"

\* keyb_enable(), mouseb_enable(), joystickb_enable(), in this order, in
\* osd2_video_init() as in vidmode_update().
Enable(input) ==
    /\ at = input
    /\ IF input \in enabled THEN Goto("assert") /\ UNCHANGED enabled
       ELSE enabled' = enabled \cup {input} /\ Goto(After(input))
    /\ UNCHANGED <<config, old_config, mode_flag, mode, active, pipeline,
                   colors, caller, drawing>>

\* Only osd2_video_init() undoes the mode when an input can't be enabled.
AfterFailure == IF caller = "init" THEN "undo" ELSE "fail"

\* Deliberate bug: the drivers enabled before the one that failed stay enabled.
EnableFailsNoUndo(input) ==
    /\ at = input
    /\ Goto(AfterFailure)
    /\ UNCHANGED <<config, old_config, mode_flag, mode, active, pipeline,
                   enabled, colors, caller, drawing>>

\* An enable that fails: the drivers enabled before it are disabled.
EnableFails(input) ==
    /\ at = input
    /\ enabled' = {} /\ Goto(AfterFailure)
    /\ UNCHANGED <<config, old_config, mode_flag, mode, active, pipeline,
                   colors, caller, drawing>>

---------------------------------------------------------------------------
(* The failures. *)

\* osd2_video_init() when advance_video_mode_init() failed, for want of a mode
\* or because the driver refused it: it returns at once.
InitFails ==
    /\ at = "fail" /\ caller = "init"
    /\ Goto("failed")
    /\ UNCHANGED <<config, old_config, mode_flag, mode, active, pipeline,
                   enabled, colors, caller, drawing>>

\* advance_video_mode_done(): the mode is closed, the palette maps are freed.
CloseMode ==
    /\ mode_flag' = FALSE /\ active' = FALSE /\ colors' = FALSE
    /\ Invalidate

\* osd2_video_init() when an input failed: the mode is closed.
InitUndo ==
    /\ at = "undo"
    /\ IF mode_flag THEN CloseMode /\ Goto("undone")
       ELSE Goto("assert") /\ UNCHANGED <<mode_flag, active, colors, pipeline>>
    /\ UNCHANGED <<config, old_config, mode, enabled, caller, drawing>>

\* Deliberate bug: the failure is ignored and the run goes on.
RetryIgnored ==
    /\ at = "fail" /\ caller # "init"
    /\ Goto("run")
    /\ UNCHANGED <<config, old_config, mode_flag, mode, active, pipeline,
                   enabled, colors, caller, drawing>>

\* advance_video_reconfigure(): a second try with the previous configuration,
\* then abort().
Retry ==
    /\ at = "fail" /\ caller # "init"
    /\ IF caller = "update"
       THEN config' = old_config /\ caller' = "retry" /\ Goto("select")
       ELSE Goto("abort") /\ UNCHANGED <<config, caller>>
    /\ UNCHANGED <<old_config, mode_flag, mode, active, pipeline, enabled,
                   colors, drawing>>

---------------------------------------------------------------------------
(* The run. *)

\* A frame is given to the video thread, which ended the previous one.
Frame ==
    /\ at = "run" /\ drawing = NoMode
    /\ drawing' = mode
    /\ UNCHANGED <<config, old_config, mode_flag, mode, active, pipeline,
                   enabled, colors, caller, at>>

\* The video thread makes the pipeline when there is none ...
MakePipeline ==
    /\ drawing # NoMode /\ pipeline = NoConfig
    /\ pipeline' = config
    /\ UNCHANGED <<config, old_config, mode_flag, mode, active, enabled,
                   colors, caller, at, drawing>>

\* ... and ends its frame.
FrameEnds ==
    /\ drawing # NoMode /\ pipeline # NoConfig
    /\ drawing' = NoMode
    /\ UNCHANGED <<config, old_config, mode_flag, mode, active, pipeline,
                   enabled, colors, caller, at>>

\* advance_video_reconfigure(): the configuration is saved and replaced
\* before the wait for the frame being drawn ...
Reconfigure ==
    /\ at = "run"
    /\ old_config' = config /\ config' \in Config
    /\ Goto("wait")
    /\ UNCHANGED <<mode_flag, mode, active, pipeline, enabled, colors,
                   caller, drawing>>

\* Deliberate bug: the mode is changed while a frame may be being drawn.
NotWaited ==
    /\ at = "wait"
    /\ caller' = "update" /\ Goto("select")
    /\ UNCHANGED <<config, old_config, mode_flag, mode, active, pipeline,
                   enabled, colors, drawing>>

\* ... and the mode is updated after it.
Waited ==
    /\ at = "wait" /\ drawing = NoMode
    /\ caller' = "update" /\ Goto("select")
    /\ UNCHANGED <<config, old_config, mode_flag, mode, active, pipeline,
                   enabled, colors, drawing>>

\* osd2_video_done(): the inputs first ...
Quit ==
    /\ at = "run"
    /\ IF enabled = Input THEN enabled' = {} /\ Goto("quit")
       ELSE Goto("assert") /\ UNCHANGED enabled
    /\ UNCHANGED <<config, old_config, mode_flag, mode, active, pipeline,
                   colors, caller, drawing>>

\* ... the mode after the end of the frame.
ModeDone ==
    /\ at = "quit" /\ drawing = NoMode
    /\ IF mode_flag THEN CloseMode /\ Goto("closed")
       ELSE Goto("assert") /\ UNCHANGED <<mode_flag, active, colors, pipeline>>
    /\ UNCHANGED <<config, old_config, mode, enabled, caller, drawing>>

Ended ==
    /\ at \in {"closed", "failed", "undone", "abort", "assert"}
    /\ UNCHANGED vars

Next ==
    \/ SelectMode \/ SameMode \/ OtherMode \/ SetMode \/ SetModeFails
    \/ \E input \in Input : Enable(input) \/ EnableFails(input)
    \/ InitFails \/ InitUndo \/ Retry
    \/ Frame \/ MakePipeline \/ FrameEnds \/ Reconfigure \/ Waited
    \/ Quit \/ ModeDone \/ Ended

Spec == Init /\ [][Next]_vars

---------------------------------------------------------------------------
(* Whenever the emulation runs, after any sequence of successful, failed   *)
(* and retried reconfigurations, the mode of the configuration in force is *)
(* set in the program and in the driver, and all the inputs are enabled.   *)
ModeInForce ==
    at = "run" =>
        /\ mode_flag /\ active
        /\ mode = ModeOf[config]
        /\ enabled = Input

(* The video thread never draws a frame without a mode or in another mode  *)
(* than the one the frame was started in.                                  *)
DrawnInItsMode ==
    drawing # NoMode => mode_flag /\ active /\ mode = drawing

(* The pipeline the next frame is drawn with was made for the configuration*)
(* in force, even if the video thread made it while it was being changed.  *)
PipelineIsCurrent ==
    at = "run" => pipeline \in {NoConfig, config}

(* After the end, and after a startup that failed at any of its steps,     *)
(* nothing is left set, enabled or allocated: with the exception of the    *)
(* palette maps, which a startup leaves behind when it had chosen a mode   *)
(* and the driver refused it (advance/osd/frame.c:2361-2368).              *)
AllReleased ==
    at \in {"closed", "undone", "failed"} =>
        /\ ~mode_flag /\ ~active
        /\ enabled = {} /\ pipeline = NoConfig
        /\ colors => at = "failed" /\ ModeOf[config] # NoMode

(* "If the configuration is invalid the previous one is restored"          *)
(* (advance/osd/video.c:1036): the retry is not stopped by an assert.      *)
PreviousIsRestored == at # "assert"
=============================================================================
