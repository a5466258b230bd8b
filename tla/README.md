# A TLA+ model of AdvanceMAME

AdvanceMAME runs a game of the MAME core and shows it with exact video modes.
This directory models the part of it that is its own and that is hard to test:
the OSD layer in `advance/osd`, where an emulation thread, a video thread and a
pool of drawing threads share state, and where frames are skipped, timed,
drawn and recorded. Paths below are relative to `src/`.

## 1. The system

`mame.c` of the core calls the OSD functions: `osd_start_audio_stream()`,
`osd_create_display()`, then for each frame `osd_update_video_and_audio()`, and
the two ends. `advance/osd/glue.c` turns them into `osd2_*()` calls, most of them
in `advance/osd/video.c`.

| part | state | operations | hard because |
|---|---|---|---|
| video thread hand-off (`video.c`, USE_SMP) | `thread_state_ready_flag`, `thread_exit_flag`, one mutex, one condition, copies of the frame | prepare, update, wait, mode update and done, thread init and done | two threads, one condition for both directions, copies read without the lock |
| video mode (`video.c`, `frame.c`) | `mode_flag`, the mode, the configuration, inputs enabled, `blit_pipeline_flag`, the palette maps allocated | init, reconfigure with its retry, done | every call can fail, frames are drawn meanwhile |
| game palette (`video.c`, `frame.c`) | `palette_map`, `palette_dirty_map`, `palette_dirty_flag` | `osd2_palette()`, `video_frame_palette()` | shared by two threads without a lock; frames are skipped |
| frame skip and synchronisation (`sync.c`, `estimate.c`, `video.c`) | skip levels and counter, warm-up flags, speed flags, `sync_skip_counter` | `advance_video_skip()`, `advance_video_sync()`, commands, `osd_reset()` | a dozen flags rewritten by keys, measures and the reset, in any order; two threads restart the computations without a lock |
| video pages (`lib/update.c`, `frame.c`) | `update_page`, the page shown, `is_update_draw_allowed` | `update_start()`, `update_stop()`, screen clear | what is drawn and what is shown are different pages |
| parallel drawing, one companion (`thdouble.c`) | `thread_func`, `thread_arg`, `thread_inuse`, `thread_exit` | `osd_parallelize()`, init, done | nested calls, fields read without the lock |
| parallel drawing, any number (`thfifo.c`) | `work_fifo`, `work_running`, `work_ready`, the group of each call | `osd_parallelize()`, workers, init, done | waiting threads take no work; groups live in the stack of the caller |
| recording (`record.c`) | sound and video in progress, their times and files, the name of the snapshot asked for, the debug capture | start over a recording, update, stop, terminate, snapshot, done | started by one thread, fed by the other; each file operation can fail half way |
| scripts (`script.c`, `hscript.c`) | for each script a stack of cursors, its time to play, its condition; the values kept by delays and repeats; the leds | start, stop, idle, terminate, and a step for each of the seven statements | a delay ends within a frame and the rest goes to the next; blocks are not counted; stopped scripts have one second |
| safe quit (`safequit.c`) | the events that are on, a count for each entry of `event.dat` | update, can exit | entries of one event are combined, each with its own second |
| sound and mixer (`sound.c`, `lib/mixer.c`) | rings of the channels, latency | frame, poll | rings at their limits |
| start and end (`emu.c`, `glue.c`) | what has been initialised | `os_main()` | undo of a failure at any step |
| input, menus, files, configuration, drivers, AdvanceMENU, tools | | | sequential, or input and output |

How they interact: `osd2_frame()` runs `video_command()` (keys, speed), decides
whether the next frame is skipped, copies the current one and posts it; the video
thread draws it (`advance_video_sync()`, palette, pipeline, pages), plays its
samples and records it. Without SMP the same functions are called one after the
other in the emulation thread. `osd_parallelize()` divides the drawing of the core
into shares, run by the pool; the blit doesn't use it.

What makes each part correct is stated next to its runs, in section 3. What can go
wrong in it is listed, line by line, under "hazards" in `PROJECT.json`.

## 2. The modules

| module | models | on |
|---|---|---|
| `VideoThread` | the hand-off of frames and mode requests, from `osd2_thread_init()` to the join; implements `VideoService` | `VideoService` |
| `VideoService` | abstract: a server of one request at a time | - |
| `VideoThreadProofs` | proofs, with the safety of the refinement | `VideoThread` |
| `VideoMode`, `MCVideoMode` | the mode, its reconfiguration with retry, inputs, pipeline; constants | - |
| `Palette`, `MCPalette` | changed colors, from `osd2_palette()` to the board; constants | - |
| `DisplayProofs` | proofs about both | `VideoMode`, `Palette` |
| `SkipLevels` | the pure functions of `sync.c` that compute skip levels | - |
| `SkipMeasures` | their results compared with a search of the best level | `SkipLevels` |
| `FrameSkip`, `MCFrameSkip` | commands, skip decision and synchronisation, with the two threads; constants | `SkipLevels` |
| `FrameSkipProofs` | proofs about both | `FrameSkip`, `SkipMeasures` |
| `Pages`, `PagesProofs` | pages of the video memory, clears, and the life of the pipeline; proofs | - |
| `ForkJoin` | abstract: what `osd_parallelize()` promises | - |
| `ThreadDouble`, `ThreadDoubleProofs` | `thdouble.c`, implements `ForkJoin`; proofs | `ForkJoin` |
| `ThreadFifo`, `ThreadFifoProofs` | `thfifo.c`, implements `ForkJoin`; proofs | `ForkJoin` |
| `Record`, `RecordProofs` | recordings, snapshots and the debug capture, with the two threads; proofs | - |
| `SafeQuit` | the events of a game and the permission to leave it | - |
| `Scripts`, `MCScripts`, `ScriptsProofs` | the interpreter of scripts, what starts and stops them, their end; programs; proofs | `SafeQuit` |

Conventions. `mpc` is the place of the emulation thread, `vpc` of the video thread; `VideoMode`
has one thread, whose place is `at`. Where two modules are proved about together, the second has its
specification under a name of its own (`SpecPalette`, `SpecMeasures`).
Variables keep the names of the fields of the code, or are commented with them.
A step is a critical section, or the code between two points where another thread
can see a difference. A definition that begins with "Deliberate bug" is not part of
any specification: it is what a module is checked against, to see that a property
would notice that bug.

- **VideoThread.** One action per critical section; `video_frame_prepare()` keeps the
  mutex over three (`PrepareWait`, `CopyGame`, `CopyState`). `waiting` is the set of
  threads in `pthread_cond_wait()`, `Notify` wakes one of them, `SpuriousWakeup` any.
  The data of a frame is its number. The thread may fail to start (`MayFail`), a mode
  may be refused before the thread is asked (`RefuseUpdate`) or by the thread.
- **VideoMode.** The path of one call through `advance_video_mode_update()`,
  `vidmode_update()` and `osd2_video_init()`, one step for each call that can fail;
  asserts lead to the place `"assert"`. The frame in progress is one variable. The startup has two ways
  out: at once when there is no mode (`InitFails`), and through `advance_video_mode_done()` when an input
  can't be enabled (`InitUndo`). `colors` says that the palette maps are allocated.
- **Palette.** `osd2_palette()` and `video_frame_palette()` word by word of the dirty
  map: load, store, read, clear and send are steps, since no lock protects them.
- **SkipLevels, SkipMeasures, FrameSkip.** Levels are pairs (full, skip). Times are
  integers; the measures of `estimate.c` are any numbers that it could return, and the
  choice in `FrameSkip` is one triple for each outcome of `video_skip_recompute()`.
  Real time is left out: a wait counts the frame times it covers. `smp` and `limit`
  are options of the configuration, chosen at the start and then constant. Both threads may be in
  `advance_video_update_skip()` and `advance_video_update_sync()`, the emulation after a change of the
  speed and the video thread when it is too late; `restart` is the place of each, and a store that
  the other thread can tell apart is a step: the levels, `vsync_flag` set, the speed tested,
  `vsync_flag` cleared. `fresh` are the levels that the emulation has computed and is storing.
  A command changes all its flags in a step and restarts once, where the code does so after each flag.
- **Pages.** `scan` is the page on the screen, `start` the page asked for; with three
  pages the driver changes at a `Retrace`. A page holds the number of its frame.
- **ThreadDouble, ThreadFifo.** Calls are named by their place: `<<outer call, path>>`,
  so that nested calls are distinct. The variables `size`, `begun`, `ended` and `back`
  are those of `ForkJoin`; they record what has happened and no guard of the code reads
  them except to number the calls. A frame of `stack` is one activation of
  `osd_parallelize()`. `MaxCalls` bounds the calls of the emulation; every share may make a
  call down to depth `MaxWide`, and only the last share of the last share below that, down to
  `MaxDepth`.
- **Record.** Times are counted in frames. A file is absent, partial or saved, and any file
  operation may fail, before or after it touched the file. Each operation on a recording is the
  set of its outcomes. `press` is a history variable: the press of the key that began a clip.
- **SafeQuit, Scripts.** An entry of `event.dat` matches the memory of the game or not. A script
  is the linked list of statements that the parser makes; an expression is a condition (the event
  of the script, its negation or anything), a count, or a function of the leds. A step is a call of
  `script_run_step()`. `calm`, `debt`, `level` and `owner` are history: the updates in a row in which
  all delayed entries matched, the time given to a script and not used by a delay, the depth of
  a statement in its script, and the script of a statement. A script that isn't set is not there
  (`hardware_script_set()`, `hscript.c:72`): every operation skips it. `FrugalScripts` and
  `DefaultVideo` say nothing of the code but of the scripts, that the user writes.

## 3. The runs

Deadlock is checked in all of them; the end of the program is a stuttering step.

| run | bounds | question |
|---|---|---|
| `video_thread` | 3 frames, 3 mode updates, thread creation and modes may fail | Is the shared data apart, is no wake-up, frame, sample or result lost, does the end terminate? Is a mode set wherever one is used? Is the hand-off a one-request server (`ImplementsService`)? |
| `video_mode` | 4 configurations (two on one mode, one without a mode), 2 modes | Is the mode of the configuration in force set, with all inputs, whenever the game runs? Does an end, or a failed startup, leave anything behind? |
| `palette` | 3 colors in 2 words, 3 changes, no SMP | Is every changed color sent, over skipped frames and changes of mode, before the frame that uses it? |
| `skip_levels` | frame times to 8, measures to 30, factors 0..100 | Does `video_skip_recompute()` find the best level, and is the level of a factor its nearest (`LevelsAreRight`)? |
| `frame_skip` | startup of 2 frames, measure of 0 or 2, one fixed factor, four triples of times, with and without the video thread | Are skips bounded, waits as long as the skips, the vsync used only at normal speed, in any interleaving of the restarts of the two threads; do startup and measure end (`CountsEnd`)? |
| `pages` | 1 to 3 pages, 4 frames, no SMP | Is drawing hidden, the last frame shown, every page cleared? |
| `thread_double` | 2 outer calls, one nested level, 2 shares | Is each share run once before the call returns (`Implements`), does every call return and the companion end (`NobodyHangs`)? |
| `thread_fifo` | 1 processor (4 workers), 1 outer call, a nested call in each share or a chain of 5 calls, 2 shares | The same; is a worker always left to run the works, is a group no longer used after its call, do the workers end? |
| `record` | a second of 1 frame, limits of 2 frames, WAV files of 3, two names, 2 starts, one change of the pause | Is a saved file kept, a partial file always owned, a clip from the last press; do sound and video of a clip stay in step; is a snapshot taken? |
| `scripts` | 5 scripts with all the statements, frames of 3 and delays in units of 2, a second of 16, 2 frames in the second of `safequit.c`, three sets of entries | Does the stack follow the nesting, is no time lost or used twice, do stopped scripts end and leave no led, does the emulation get its frames, may the game be left exactly after a second of demo mode? |
| `reconfigure_fails` | as `video_mode` | violated: see section 5 |
| `palette_smp_lost` | 2 changes, SMP | violated: see section 5 |

Why the bounds are enough. Three frames let one be drawn, one be posted and one be
prepared; a third mode update follows a failed one and its retry. Two words, one with
two colors, are enough for a word to be read, cleared and written in any order. Startup
and measure need two frames to show an off-by-one. With three pages the one drawn, the
one asked for and the one shown differ. Four workers are what `thfifo.c` creates for one
processor (`work_max`), and a chain of five calls is deeper than the workers, so the limit
on ready threads is met. A clip longer than a second, one at its limit and one at the limit of WAV
all occur in three frames; two names let one be taken. A frame of 3 and units of 2 leave a remainder
in each frame, and a script of four levels has the deepest stack that its blocks allow.

Fairness. `VideoThread`: weak fairness for the steps of a call in progress and for the
steps of the video thread, as the scheduler gives to threads that do not block; none for
the choices of the emulation, which may stop calling; `VideoService` promises the same: a frame
given is performed, and a caller is released. `FrameSkip`: the steps of a frame
and of a restart go on (weak fairness), the video thread performs its frames, and, by strong fairness for
`Command`, the emulation computes frames: a change of the mode comes from a frame or a menu, so a frame
follows it; `CountsEnd` supposes that the machine is not reset
for ever, since each reset restarts both counts. `ThreadDouble`, `ThreadFifo`: each thread
is scheduled and the functions given to `osd_parallelize()` return, which is what the code
requires of them; no thread is obliged to make a call, or the program to end. `Record`: the emulation
goes on computing frames and the video thread performs them; `SnapshotIsTaken` supposes that the game
does not stay in pause. `Scripts`: the only thread is scheduled, and, by strong fairness for `Frame`,
the machine computes frames however often it is reset. These are the only strong fairness: elsewhere a
thread woken up keeps its turn until it runs, and a lock is a step.

A type invariant is checked by `video_thread` alone, where the proof of the others begins with it. The
other modules with proofs have theirs proved there, as a part of the inductive invariant.

## 4. The proofs

Everything is proved for all values of the constants, from the assumptions named in the
modules (`BoundAssumption`, `ModeAssumption`, `WorkersAssumption`, `OwnerAssumption`...), which say what
the code or its parser makes sure of: each script is parsed in its own tree, there are as many workers
as `work_max`, a frame is longer than a millisecond. TLC evaluates them in the runs. The hypotheses that
the code does not make sure of are in the statements: `Smp = FALSE`, and those of `EndsAreClean`. Every
safety property of the runs is proved, and so is the safety of the three refinements.

- **VideoThreadProofs**: `TypeCorrect`, `NoDataRace`, `WakeupsAreNotLost`, `FramesAreWhole`,
  `ModeStaysSet`, `ExitLosesNothing`, `SoundIsContinuous`, `ServesOneRequest`. The types and the
  absence of a lost wake-up are not inductive: `HandOff` adds what `ready` says of the place of each
  thread. While a request is there the emulation is idle or waits (`MainByReady`), the video thread
  works only on the request that is there (`VideoByReady`); so at most one of them sleeps and a
  signal cannot reach the wrong one, though a single condition carries both. `Frames` adds which
  frame each copy holds, `Modes` which request the emulation waits for and where a mode is set.
  `ServesOneRequest` is the safety of the refinement: each step of the hand-off is a step of
  `VideoService`, or none.
- **DisplayProofs**, of the mode: `ModeIsInForce`, `FramesKeepTheirMode`, `PipelinesAreCurrent`,
  `NothingIsLeft`. Between the choice of a configuration and the test of its mode the old one
  is entirely in force (`Switching`); after it the inputs are disabled and the two modes differ,
  so the only way back to the run sets the mode and enables the inputs (`Setting`). A startup that fails
  for want of a mode has set nothing (`Failing`); it may have allocated the palette maps, which
  `NothingIsLeft` excepts. Of the palette: `StaleAreDirty`, with the flag, and `FramesHaveTheirColors`, under the hypothesis `Smp = FALSE`,
  without which they are false (section 5). A color that is stale on the screen is in its word of the
  dirty map, or ahead of the one that goes through the words: in those that `osd2_palette()` has not
  reached (`Marking`) or that `video_frame_palette()` has not sent (`Sending`).
- **ThreadDoubleProofs**: `DoubleImplements`: each step of `thdouble.c` is a step of `ForkJoin`, or none,
  for any calls within calls. `osd_parallelize()` reads `thread_inuse` without the lock, and a call
  that finds it set runs both shares itself; so at most one call is divided, and it is in the stack of the
  emulation (`OneDivided`), since the companion can not find it clear. The place of that call and the
  place of the companion then tell what `thread_func` is and where both shares are (`Halves`).
- **ThreadFifoProofs**: `SomebodyAlwaysWorks`, `GroupsOutliveWorks`, `FifoImplements`, for any number
  of processors, shares and levels. A worker divides a call only if `work_free_get()` saw a ready thread; the count
  has to be exact (`ReadyIsExact`) and a ready thread to be in no call (`IdleIsFree`), so a worker
  that is in no divided call always remains (`SomebodyWhole`). The count of a group is the number of
  its works that are about to be pushed, in the fifo or with a thread (`Counted`); each is counted
  once, because a call is at one place of one stack (`OneFrame`) and its works are numbered below the
  next one to be put (`Behind`); so a call leaves its stack only when none is left (`Open`).
  `FifoImplements` is the refinement of `ForkJoin`: a share is in the fifo before it begins and with a
  thread until it ends, and a call lies on the share that made it (`History`); so a group whose count is
  zero has had each of its shares run, once.
- **PagesProofs**: `DrawingIsHidden`, `LastFrameIsShown`, `ClearsAllPages` and `AssertsHold`, under
  the hypothesis `Smp = FALSE`. The page to draw comes after the page asked for, that is at most one
  after the page on the screen (`Placed`); each clear leaves one more blank page behind it (`Wiped`);
  and the two brackets of `update.c` alternate because the threads do (`Bracketed`, `Alternate`).
  `DrawingIsHidden` excepts two pages asked for since the last retrace, when the next page to draw is the one
  on the screen. `AssertsHold` is about the asserts of `update_start()` and `update_stop()`.
- **FrameSkipProofs**: `GapIsBounded`, `VsyncFollowsSpeed`, `WaitsAreExact`, for any times, factors
  and limits. Between the decision and the synchronisation of a frame there are two more frames, the
  one in emulation and the one in hand; `Gaps` says what the gap will be once these are over, and
  bounds it by the place in the cycle of the skip. A restart of the video thread falls in one
  decision at most (`Overwritten`). `VsyncFollowsSpeed` needs what a thread in the middle of a
  restart is about to do: the vsync is on outside the normal speed only while one of the two is
  still going to clear it (`Cleared`). The levels that `video_skip_recompute()` returns are shown
  first to draw a frame at least in each cycle (`FactorIsGood`, `StepIsGood`, `RecomputeIsGood`).
  `LevelsFollowMeasures` says that they are the best ones, for measures of any size, where the run
  compares those to 30: on each side of the ladder the speed that a level keeps and the share that
  it draws are linear in its number (`Pace`, `Order`), so the last one that fits the times is a
  quotient, the one that the divisions of `sync.c` round to (`Floors`).
- **RecordProofs**: `PartialFilesAreOwned`, `RecordsFromLastPress`, `SavedFilesAreKept`,
  `SoundAndVideoInStep`, for any limits. The file of a recording in progress is partial and no other
  is (`Own`); a name is taken only if nothing has it, so each operation touches a file that is
  absent or its own, and what is saved stays (`Kept`), but under the debug capture, which doesn't
  look for a free name. While a clip is recorded no frame is skipped, but the frames decided before
  it are. `Together` bounds how much longer the sound will be when the frame of the video thread is
  over (`Ahead`: with the sound that it has still to record, `Owed`) and the frames skipped by
  earlier decisions are too (`Skips`): by one frame, or by two with the video thread, where each
  change of the pause in the middle of a frame (`toggles`) may tear one more.
- **ScriptsProofs**: `QuitIsSafe`, for any entries; `StackFollowsNesting`, `StackIsBounded`,
  `DelaysAreExact` and `EndsAreClean`, for any scripts. The count of an entry is at least the calm
  (`CountsKeepUp`) and the entry that broke the calm last has no more (`SomeIsYoung`), so the last count
  reaches its second with the calm. The stack has at each place a statement of that level, and each of the
  four ways to change a stack keeps that; it can not overflow in a script of no more than `MaxLevel` levels,
  though nothing counts them. A delay that keeps a count is at the top of its script, and what is off that
  count is what the script was given and has not got left (`Accounts`).
  `EndsAreClean` has two hypotheses on the scripts, without which `EndIsClean` is false: that the three scripts
  that are stopped need no more than a second (`FrugalScripts`: they wait for nothing but the end of
  their condition, their loops end with it, and the delays that remain are short enough), and that
  `script_video` is the default one (`DefaultVideo`), since another may leave a led on. `Frugal` says, statement by
  statement, what it and those after it need and what the blocks around it do, so a script is
  judged as it is written; `MCScripts` checks both hypotheses of the scripts of the run. The
  proof follows what the statements of a stack still need, with the counts in progress: the sum over the
  stack is a function that grows with the height (`Books`, `Needs`), since it can not be a recursive
  operator. A step takes from the sum at least the time that it uses (`StepNeeds`); so a script that was given a
  second keeps more than it needs (`Reserve`) and returns only when it has ended (`Turns`).

Only model-checked: liveness under fairness, which the prover does not do (`ThreadEnds` and the like of
`video_thread`, the fair part of `ImplementsService`, `CountsEnd`, `NobodyHangs`, `CallsReturn`, `WorkersEnd`,
`SnapshotIsTaken`, `ScriptsLetGo`); and what is false in the two runs of section 5.

## 5. Disagreements between the code and what is said of it

With a run and a finding in `PROJECT.json`:

- `reconfigure_fails`: when the driver refuses a new mode, or an input fails to enable, the
  retry of the previous configuration, promised at `video.c:1036`, disables inputs that are
  disabled, and the assert at `advance/lib/joydrv.c:174` ends the program.
- `palette_smp_lost`: with SMP a color marked between the read and the clear of its word is
  lost (`frame.c:1973`).

Seen while modelling, without a run of their own:

- A skipped frame still flips the page (`video.c:589`), and with it an older frame is shown, where
  `sync.c:214` says that nothing is displayed.
- `event.dat` says that an event has to last for a second; only `zerocoin` and `demomode` do
  (`safequit.c:298`). A game that has only other events may be left at once.
- `osd_start_audio_stream()` returns -1 when the video thread cannot be created
  (`glue.c:2870`); `sound_init()` takes only 0 as a failure, and the first mode request waits
  for a thread that does not exist. `VideoThread` shows it when `MayFail` is true.
- `glue.c:2843` says that this function is called after `osd_create_display()`; `mame.c:1117`
  calls it before, and the display needs the thread that it starts.
- With SMP, `video_frame_palette()` can clear `palette_dirty_flag` between its setting by
  `osd2_palette()` (`video.c:1386`) and the marking of the colors.
- With SMP, `video_command()` leaves the free speed (`video.c:409`) before it restarts the
  synchronisation: a frame synchronised between the two waits for all the frames skipped in the
  startup. `WaitCoversGap` is stated without the video thread for this reason.
- With SMP, the vsync can stay off at the normal speed until the next change of it. The video thread
  restarts the synchronisation when it is too late (`sync.c:417`): it tests the turbo (`sync.c:151`) and clears
  `vsync_flag` after that; if `video_command()` releases the turbo and computes the flag in between
  (`video.c:394`), the flag is cleared on a turbo that is over. `sync.c:122` says that it follows the current
  speed. `FrameSkip` has these steps, and `VsyncIsCurrent` states the equality without the video thread only.
- With SMP, the levels of the two threads can mix: the video thread stores those of the configured
  factor one at a time (`sync.c:416`), the emulation those of a new cycle, and the result may be no step of
  the manual control. The skips are bounded even so.
- `osd2_video_init()` releases nothing when `advance_video_mode_init()` fails (`video.c:1244`). If the driver
  refused the mode, the palette maps are already allocated (`frame.c:2361`), and `osd2_video_done()` is not called
  after a startup that failed (`glue.c:2637`). `AllReleased` excepts them. When an input fails
  the mode is closed but the script of the video, just started (`video.c:1249`), is not stopped.
- A system that is too slow skips every second frame (`sync.c:243`), where
  `doc/advmame.d:293` says that skipping is disabled.
- `skip_level_disable_flag` stays set after a key has left the automatic skip (`video.c:357`).
- A full frame of exactly the frame time fails the assert at `sync.c:253`.
- F9, "Increase frame skip" (`doc/advmame.d:58`), makes more frames drawn (`video.c:360`).
- With SMP the debugger focus clears the screen (`video.c:1456`), and the cocktail key drops
  the pipeline (`video.c:427`), while the video thread may be drawing. `Pages` has both steps;
  its run is without SMP.
- `lib/update.c:61` exchanges the flags that two and three pages need.
- The second that `hardware_script_terminate()` gives is not one of the script: the statements after
  a delay of 1000 ms are not played. A loop without a delay keeps the emulation for ever
  (`doc/script.d` warns of it), and `value * unit` of a delay passes 32 bits over 71 minutes.
- `simulate_input()` of the scripts counts down in the frame in which it was asked, so a press shorter
  than a frame is never seen; what a script presses doesn't start the script of that key.

## 6. Not modelled

The MAME and MESS core; the pixel kernels of `advance/blit`; the computation of timings
(`generate.c`, `crtc.c`); the platform drivers and video boards; AdvanceMENU and the tools; the
imported libraries; the configuration files. They are sequential, numeric, or input and output,
and the models take what they need of them as choices: a call may fail, a mode exists or not, a
measure is any number. They are also nearly all of the lines of the repository. The mixer and the chain
of the start are not modelled yet, nor the frames of the debugger (`debugger_flag`), which are drawn at once and have a
picture of their own. Inside the modelled parts, the drawing, the wording of messages, real
time and the error recovery of the vsync are abstracted; so are the values of the expressions of a
script, its parser and the end by a signal (`hardware_script_abort()`). `thmono.c`, the version without threads,
is a call that is not divided.

## 7. Plan

Order of the modules: the hand-off first, since everything else runs on it; then the mode, the
palette, the frame skip and the pages, which it carries; then the pool, the recordings, the safe quit
and the scripts. These are done. Next:

1. `Mixer`: the rings never overrun and a channel is never starved by a silent one.
2. `Startup`: what is initialised is undone once, whatever step fails.
3. A composition of `VideoThread` with `Palette` and `Pages`, with the three as one system.
4. The simulated keys and inputs of the scripts, and the snapshots of the debug options.

Theorems to come: the lemmas and the invariant of that composition (a frame that is drawn with its colors, on
a hidden page, while the emulation prepares the next one), from those of the three modules; and, for
liveness, the measures that decrease (the statements before a script gives up its time, the works before a
group is empty), as action properties.
