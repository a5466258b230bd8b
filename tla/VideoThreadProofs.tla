------------------------- MODULE VideoThreadProofs -------------------------
(***************************************************************************)
(* Proofs about VideoThread, for any number of frames and of mode updates. *)
(*                                                                         *)
(* The argument: a request stays in ready from its post until the video    *)
(* thread clears it, so ready says what each thread may be doing.  The     *)
(* emulation thread can only be idle or waiting while a request is there   *)
(* (MainByReady), the video thread only works on the request that is there *)
(* (VideoByReady), hence at most one of the two sleeps, and the only       *)
(* sleeper is always the one a notification is meant for (NoLostWakeup).   *)
(***************************************************************************)
EXTENDS VideoThread, TLAPS

\* While a request is in hand the emulation thread runs the emulation or waits;
\* if it is a request about the mode it waits.
MainByReady ==
    /\ ready # "none" => mpc \in {"idle", "prepare", "wait"}
    /\ ready \notin {"none", "frame"} => mpc = "wait"

\* The video thread works on the request in hand.
VideoByReady ==
    /\ vpc \in {"act", "draw", "sound", "finish"} =>
           ready = vcall /\ ready # "none"
    /\ vpc \in {"draw", "sound"} => vcall = "frame"

\* A frame is being sent only below the bound of the model.
BelowBound ==
    mpc \in {"prepare", "copy_game", "copy_state"} \/ (mpc = "signal" /\ call = "frame")
        => posted < MaxFrame

\* The inductive invariant of the hand-off.
HandOff == TypeOK /\ MainByReady /\ VideoByReady /\ BelowBound /\ NoLostWakeup

\* The copies hold the frame being sent, or the one in hand.
CopiesByReady ==
    /\ mpc = "copy_state" /\ ~skip => game = posted + 1
    /\ mpc = "signal" /\ call = "frame" =>
           state.frame = posted + 1 /\ (~state.skip => game = posted + 1)
    /\ ready = "frame" => state.frame = posted /\ (~state.skip => game = posted)

\* The arguments of video_frame_update_now() are still those of the copies.
ArgumentsAreCopies ==
    vcall = "frame" /\ vpc \in {"draw", "sound", "finish"} => vstate = state

\* Every frame posted has been heard, except the one in hand.
HeardByReady ==
    IF ready = "frame" /\ vpc # "finish" THEN heard + 1 = posted ELSE heard = posted

Frames == CopiesByReady /\ ArgumentsAreCopies /\ HeardByReady /\ FrameWhole

\* A mode request in hand is the one the emulation waits for.
ReturnByReady ==
    /\ mpc = "wait" /\ ready = "update" => ret = "updated"
    /\ mpc = "wait" /\ ready = "done" => ret = "closed"
    /\ mpc = "wait" /\ ret = "updated" => ready \in {"none", "update"}
    /\ mpc = "signal" => call \in {"frame", "done", "update"}

\* Where the emulation relies on a mode, one is set.
ModeByPlace ==
    /\ mpc \in {"idle", "prepare", "copy_game", "copy_state", "opened", "close"} => mode_flag
    /\ mpc = "signal" /\ call \in {"frame", "done"} => mode_flag
    /\ mpc = "wait" /\ ret \in {"idle", "close"} => mode_flag
    /\ ready = "frame" \/ (ready = "done" /\ vpc # "finish") => mode_flag
    /\ mpc = "updated" \/ (mpc = "wait" /\ ret = "updated" /\ (ready = "none" \/ vpc = "finish"))
           => (result.ok => mode_flag)

Modes == ReturnByReady /\ ModeByPlace

---------------------------------------------------------------------------

LEMMA TypeInit == Init => TypeOK /\ BelowBound
  <1> SUFFICES ASSUME Init PROVE TypeOK /\ BelowBound
    OBVIOUS
  <1>1. state \in FrameState /\ vstate \in FrameState
    BY BoundAssumption DEF Init, FrameState
  <1>2. result \in [update : 0..MaxUpdate, ok : BOOLEAN]
    BY BoundAssumption DEF Init
  <1>3. exit \in BOOLEAN /\ mode_flag \in BOOLEAN /\ skip \in BOOLEAN
    BY DEF Init
  <1>4. QED
    BY <1>1, <1>2, <1>3, BoundAssumption DEF Init, TypeOK, BelowBound, Request

\* Types, and the bound of the model, are kept by every step.
LEMMA TypeStep == TypeOK /\ BelowBound /\ [Next]_vars => TypeOK' /\ BelowBound'
  <1> SUFFICES ASSUME TypeOK, BelowBound, [Next]_vars PROVE TypeOK' /\ BelowBound'
    OBVIOUS
  <1> USE BoundAssumption, FailAssumption
      DEF TypeOK, BelowBound, Request, shared, copies, mode, mainVars, videoVars
  <1>1. CASE Frame
    BY <1>1 DEF Frame
  <1>2. CASE MenuWait
    BY <1>2 DEF MenuWait
  <1>3. CASE Reconfigure
    BY <1>3 DEF Reconfigure
  <1>4. CASE VideoDone
    BY <1>4 DEF VideoDone
  <1>5. CASE ThreadInit
    <2>1. state' \in FrameState
      BY <1>5 DEF ThreadInit, FrameState
    <2>2. vpc' \in {"check", "off"}
      BY <1>5 DEF ThreadInit
    <2>3. exit' \in BOOLEAN
      BY <1>5 DEF ThreadInit
    <2>4. QED
      BY <1>5, <2>1, <2>2, <2>3 DEF ThreadInit
  <1>6. CASE PrepareWait
    <2>1. waiting' \subseteq {"main", "video"}
      BY <1>6 DEF PrepareWait, Running
    <2>2. mpc' \in {"prepare", "copy_game"}
      BY <1>6 DEF PrepareWait, Running
    <2>3. QED
      BY <1>6, <2>1, <2>2 DEF PrepareWait, Running
  <1>7. CASE CopyGame
    BY <1>7 DEF CopyGame
  <1>8. CASE CopyState
    <2>1. posted + 1 \in 0..MaxFrame
      BY <1>8 DEF CopyState
    <2>2. state' \in FrameState
      BY <1>8, <2>1 DEF CopyState, FrameState
    <2>3. QED
      BY <1>8, <2>2 DEF CopyState
  <1>9. CASE SignalFrame
    <2>1. waiting' \subseteq {"main", "video"}
      BY <1>9 DEF SignalFrame, Notify, Unlocked
    <2>2. mpc' \in {"idle", "wait"}
      BY <1>9 DEF SignalFrame, Notify, Unlocked
    <2>3. QED
      BY <1>9, <2>1, <2>2 DEF SignalFrame, Notify, Unlocked
  <1>10. CASE SignalMode
    <2>1. waiting' \subseteq {"main", "video"}
      BY <1>10 DEF SignalMode, Notify, Unlocked
    <2>2. mpc' \in {"wait"}
      BY <1>10 DEF SignalMode, Notify, Unlocked
    <2>3. QED
      BY <1>10, <2>1, <2>2 DEF SignalMode, Notify, Unlocked
  <1>11. CASE Wait
    <2>1. waiting' \subseteq {"main", "video"}
      BY <1>11 DEF Wait, Running
    <2>2. mpc' \in {"wait", "idle", "update", "updated", "close", "closed", "exit"}
      BY <1>11 DEF Wait, Running
    <2>3. QED
      BY <1>11, <2>1, <2>2 DEF Wait, Running
  <1>12. CASE RequestUpdate
    BY <1>12 DEF RequestUpdate
  <1>13. CASE RefuseUpdate
    BY <1>13 DEF RefuseUpdate, AfterFailure
  <1>14. CASE Updated
    BY <1>14 DEF Updated, AfterFailure
  <1>15. CASE Opened
    BY <1>15 DEF Opened
  <1>16. CASE RequestDone
    BY <1>16 DEF RequestDone
  <1>17. CASE ThreadDone
    BY <1>17 DEF ThreadDone
  <1>18. CASE RequestExit
    <2>1. waiting' \subseteq {"main", "video"} /\ exit' \in BOOLEAN
      BY <1>18 DEF RequestExit, Notify
    <2>2. QED
      BY <1>18, <2>1 DEF RequestExit
  <1>19. CASE Join
    BY <1>19 DEF Join
  <1>20. CASE VideoCheck
    <2>1. waiting' \subseteq {"main", "video"}
      BY <1>20 DEF VideoCheck
    <2>2. vpc' \in {"check", "act", "end"} /\ vcall' \in Request
      BY <1>20 DEF VideoCheck
    <2>3. QED
      BY <1>20, <2>1, <2>2 DEF VideoCheck
  <1>21. CASE ActFrame
    BY <1>21 DEF ActFrame
  <1>22. CASE DrawFrame
    BY <1>22 DEF DrawFrame
  <1>23. CASE SoundFrame
    <2>1. heard' \in 0..MaxFrame
      BY <1>23 DEF SoundFrame, FrameState
    <2>2. QED
      BY <1>23, <2>1 DEF SoundFrame
  <1>24. CASE ActDone
    <2>1. mode_flag' \in BOOLEAN
      BY <1>24 DEF ActDone
    <2>2. QED
      BY <1>24, <2>1 DEF ActDone
  <1>25. CASE ActUpdate
    <2>1. PICK ok \in BOOLEAN :
              /\ result' = [update |-> arg, ok |-> ok]
              /\ mode_flag' \in IF ok THEN {TRUE} ELSE BOOLEAN
      BY <1>25 DEF ActUpdate
    <2>2. mode_flag' \in BOOLEAN
      BY <2>1
    <2>3. result' \in [update : 0..MaxUpdate, ok : BOOLEAN]
      BY <2>1
    <2>4. QED
      BY <1>25, <2>2, <2>3 DEF ActUpdate
  <1>26. CASE Finish
    <2>1. waiting' \subseteq {"main", "video"}
      BY <1>26 DEF Finish, Notify
    <2>2. QED
      BY <1>26, <2>1 DEF Finish
  <1>27. CASE SpuriousWakeup
    <2>1. PICK t \in waiting : SpuriousWakeup!(t)
      BY <1>27 DEF SpuriousWakeup
    <2>2. QED
      BY <2>1
  <1>28. CASE UNCHANGED vars
    BY <1>28 DEF vars
  <1>29. QED
    BY <1>1, <1>2, <1>3, <1>4, <1>5, <1>6, <1>7, <1>8, <1>9, <1>10, <1>11,
       <1>12, <1>13, <1>14, <1>15, <1>16, <1>17, <1>18, <1>19, <1>20,
       <1>21, <1>22, <1>23, <1>24, <1>25, <1>26, <1>27, <1>28
       DEF Next, Choose, MainStep, VideoStep, Ended

LEMMA HandOffInit == Init => HandOff
  BY TypeInit DEF Init, HandOff, MainByReady, VideoByReady, NoLostWakeup

\* Every step keeps the hand-off: a notification can only reach the thread that
\* waits for what has just happened, as the other one is not asleep.
LEMMA HandOffStep == HandOff /\ [Next]_vars => HandOff'
  <1> SUFFICES ASSUME HandOff, [Next]_vars
               PROVE  MainByReady' /\ VideoByReady' /\ NoLostWakeup'
    BY TypeStep DEF HandOff
  <1>a. TypeOK /\ MainByReady /\ VideoByReady /\ NoLostWakeup
    BY DEF HandOff
  <1>b. waiting \subseteq {"main", "video"}
    BY <1>a DEF TypeOK
  <1> USE <1>a DEF MainByReady, VideoByReady, NoLostWakeup, shared, copies, mode,
      mainVars, videoVars
  <1>1. CASE Frame
    BY <1>1 DEF Frame
  <1>2. CASE MenuWait
    BY <1>2 DEF MenuWait
  <1>3. CASE Reconfigure
    BY <1>3 DEF Reconfigure
  <1>4. CASE VideoDone
    BY <1>4 DEF VideoDone
  <1>5. CASE ThreadInit
    BY <1>5 DEF ThreadInit
  <1>6. CASE PrepareWait
    BY <1>6 DEF PrepareWait, Running
  <1>7. CASE CopyGame
    BY <1>7 DEF CopyGame
  <1>8. CASE CopyState
    BY <1>8 DEF CopyState
  <1>9. CASE SignalFrame
    <2>1. "main" \notin waiting
      BY <1>9 DEF SignalFrame
    <2>2. waiting' = {}
      BY <1>9, <1>b, <2>1 DEF SignalFrame, Notify
    <2>3. QED
      BY <1>9, <2>1, <2>2 DEF SignalFrame
  <1>10. CASE SignalMode
    <2>1. "main" \notin waiting
      BY <1>10 DEF SignalMode
    <2>2. waiting' = {}
      BY <1>10, <1>b, <2>1 DEF SignalMode, Notify
    <2>3. QED
      BY <1>10, <2>1, <2>2 DEF SignalMode
  <1>11. CASE Wait
    BY <1>11 DEF Wait, Running, TypeOK
  <1>12. CASE RequestUpdate
    BY <1>12 DEF RequestUpdate
  <1>13. CASE RefuseUpdate
    BY <1>13 DEF RefuseUpdate, AfterFailure
  <1>14. CASE Updated
    BY <1>14 DEF Updated, AfterFailure
  <1>15. CASE Opened
    BY <1>15 DEF Opened
  <1>16. CASE RequestDone
    BY <1>16 DEF RequestDone
  <1>17. CASE ThreadDone
    BY <1>17 DEF ThreadDone
  <1>18. CASE RequestExit
    <2>1. "main" \notin waiting
      BY <1>18 DEF RequestExit
    <2>2. waiting' = {}
      BY <1>18, <1>b, <2>1 DEF RequestExit, Notify
    <2>3. QED
      BY <1>18, <2>1, <2>2 DEF RequestExit
  <1>19. CASE Join
    BY <1>19 DEF Join
  <1>20. CASE VideoCheck
    BY <1>20 DEF VideoCheck, Running
  <1>21. CASE ActFrame
    BY <1>21 DEF ActFrame
  <1>22. CASE DrawFrame
    BY <1>22 DEF DrawFrame
  <1>23. CASE SoundFrame
    BY <1>23 DEF SoundFrame
  <1>24. CASE ActDone
    BY <1>24 DEF ActDone
  <1>25. CASE ActUpdate
    BY <1>25 DEF ActUpdate
  <1>26. CASE Finish
    <2>1. "video" \notin waiting
      BY <1>26 DEF Finish
    <2>2. waiting' = {}
      BY <1>26, <1>b, <2>1 DEF Finish, Notify
    <2>3. QED
      BY <1>26, <2>1, <2>2 DEF Finish
  <1>27. CASE SpuriousWakeup
    BY <1>27 DEF SpuriousWakeup
  <1>28. CASE UNCHANGED vars
    BY <1>28 DEF vars
  <1>29. QED
    BY <1>1, <1>2, <1>3, <1>4, <1>5, <1>6, <1>7, <1>8, <1>9, <1>10, <1>11,
       <1>12, <1>13, <1>14, <1>15, <1>16, <1>17, <1>18, <1>19, <1>20,
       <1>21, <1>22, <1>23, <1>24, <1>25, <1>26, <1>27, <1>28
       DEF Next, Choose, MainStep, VideoStep, Ended

---------------------------------------------------------------------------

LEMMA FramesInit == Init => Frames
  BY DEF Init, Frames, CopiesByReady, ArgumentsAreCopies, HeardByReady, FrameWhole

\* Every step keeps picture, flags and samples of a frame together, and the
\* count of the frames heard with that of the frames posted.
LEMMA FramesStep == HandOff /\ Frames /\ [Next]_vars => Frames'
  <1> SUFFICES ASSUME HandOff, Frames, [Next]_vars PROVE Frames'
    OBVIOUS
  <1>a. TypeOK /\ MainByReady /\ VideoByReady
    BY DEF HandOff
  <1>b. /\ posted \in Nat /\ heard \in Nat /\ drawn \in Nat /\ game \in Nat
        /\ state.frame \in Nat /\ vstate.frame \in Nat
    BY <1>a, BoundAssumption DEF TypeOK, FrameState
  <1> USE <1>a, <1>b DEF Frames, CopiesByReady, ArgumentsAreCopies, HeardByReady,
      FrameWhole, MainByReady, VideoByReady, shared, copies, mode, mainVars, videoVars
  <1>1. CASE Frame
    BY <1>1 DEF Frame
  <1>2. CASE MenuWait
    BY <1>2 DEF MenuWait
  <1>3. CASE Reconfigure
    BY <1>3 DEF Reconfigure
  <1>4. CASE VideoDone
    BY <1>4 DEF VideoDone
  <1>5. CASE ThreadInit
    BY <1>5 DEF ThreadInit
  <1>6. CASE PrepareWait
    BY <1>6 DEF PrepareWait, Running
  <1>7. CASE CopyGame
    BY <1>7 DEF CopyGame
  <1>8. CASE CopyState
    BY <1>8 DEF CopyState
  <1>9. CASE SignalFrame
    BY <1>9 DEF SignalFrame, Notify, Unlocked
  <1>10. CASE SignalMode
    BY <1>10 DEF SignalMode, Notify, Unlocked
  <1>11. CASE Wait
    <2>1. ret \in {"idle", "update", "updated", "close", "closed", "exit"}
      BY DEF TypeOK
    <2>2. mpc' \notin {"copy_state", "signal"}
      BY <1>11, <2>1 DEF Wait
    <2>3. QED
      BY <1>11, <2>2 DEF Wait
  <1>12. CASE RequestUpdate
    BY <1>12 DEF RequestUpdate
  <1>13. CASE RefuseUpdate
    <2>1. attempt \in {"init", "new", "old"}
      BY DEF TypeOK
    <2>2. mpc' \notin {"copy_state", "signal"}
      BY <1>13, <2>1 DEF RefuseUpdate, AfterFailure
    <2>3. QED
      BY <1>13, <2>2 DEF RefuseUpdate
  <1>14. CASE Updated
    <2>1. attempt \in {"init", "new", "old"}
      BY DEF TypeOK
    <2>2. mpc' \notin {"copy_state", "signal"}
      BY <1>14, <2>1 DEF Updated, AfterFailure
    <2>3. QED
      BY <1>14, <2>2 DEF Updated
  <1>15. CASE Opened
    BY <1>15 DEF Opened
  <1>16. CASE RequestDone
    BY <1>16 DEF RequestDone
  <1>17. CASE ThreadDone
    BY <1>17 DEF ThreadDone
  <1>18. CASE RequestExit
    BY <1>18 DEF RequestExit, Notify, Unlocked
  <1>19. CASE Join
    BY <1>19 DEF Join
  <1>20. CASE VideoCheck
    BY <1>20 DEF VideoCheck, Running
  <1>21. CASE ActFrame
    BY <1>21 DEF ActFrame
  <1>22. CASE DrawFrame
    BY <1>22 DEF DrawFrame
  <1>23. CASE SoundFrame
    BY <1>23 DEF SoundFrame
  <1>24. CASE ActDone
    BY <1>24 DEF ActDone
  <1>25. CASE ActUpdate
    BY <1>25 DEF ActUpdate
  <1>26. CASE Finish
    BY <1>26 DEF Finish, Notify, Unlocked
  <1>27. CASE SpuriousWakeup
    BY <1>27 DEF SpuriousWakeup
  <1>28. CASE UNCHANGED vars
    BY <1>28 DEF vars
  <1>29. QED
    BY <1>1, <1>2, <1>3, <1>4, <1>5, <1>6, <1>7, <1>8, <1>9, <1>10, <1>11,
       <1>12, <1>13, <1>14, <1>15, <1>16, <1>17, <1>18, <1>19, <1>20,
       <1>21, <1>22, <1>23, <1>24, <1>25, <1>26, <1>27, <1>28
       DEF Next, Choose, MainStep, VideoStep, Ended

---------------------------------------------------------------------------

LEMMA ModesInit == Init => Modes
  BY DEF Init, Modes, ReturnByReady, ModeByPlace

\* Every step keeps a mode set wherever the emulation relies on one.
LEMMA ModesStep == HandOff /\ Modes /\ [Next]_vars => Modes'
  <1> SUFFICES ASSUME HandOff, Modes, [Next]_vars PROVE Modes'
    OBVIOUS
  <1>a. TypeOK /\ MainByReady /\ VideoByReady
    BY DEF HandOff
  <1> USE <1>a DEF Modes, ReturnByReady, ModeByPlace, TypeOK, Request, MainByReady,
      VideoByReady, shared, copies, mode, mainVars, videoVars
  <1>1. CASE Frame
    BY <1>1 DEF Frame
  <1>2. CASE MenuWait
    BY <1>2 DEF MenuWait
  <1>3. CASE Reconfigure
    BY <1>3 DEF Reconfigure
  <1>4. CASE VideoDone
    BY <1>4 DEF VideoDone
  <1>5. CASE ThreadInit
    BY <1>5 DEF ThreadInit
  <1>6. CASE PrepareWait
    BY <1>6 DEF PrepareWait, Running
  <1>7. CASE CopyGame
    BY <1>7 DEF CopyGame
  <1>8. CASE CopyState
    BY <1>8 DEF CopyState
  <1>9. CASE SignalFrame
    BY <1>9 DEF SignalFrame
  <1>10. CASE SignalMode
    BY <1>10 DEF SignalMode
  <1>11. CASE Wait
    BY <1>11 DEF Wait, Running
  <1>12. CASE RequestUpdate
    BY <1>12 DEF RequestUpdate
  <1>13. CASE RefuseUpdate
    BY <1>13 DEF RefuseUpdate, AfterFailure
  <1>14. CASE Updated
    BY <1>14 DEF Updated, AfterFailure
  <1>15. CASE Opened
    BY <1>15 DEF Opened
  <1>16. CASE RequestDone
    BY <1>16 DEF RequestDone
  <1>17. CASE ThreadDone
    BY <1>17 DEF ThreadDone
  <1>18. CASE RequestExit
    BY <1>18 DEF RequestExit
  <1>19. CASE Join
    BY <1>19 DEF Join
  <1>20. CASE VideoCheck
    BY <1>20 DEF VideoCheck
  <1>21. CASE ActFrame
    BY <1>21 DEF ActFrame
  <1>22. CASE DrawFrame
    BY <1>22 DEF DrawFrame
  <1>23. CASE SoundFrame
    BY <1>23 DEF SoundFrame
  <1>24. CASE ActDone
    BY <1>24 DEF ActDone
  <1>25. CASE ActUpdate
    <2>1. PICK ok \in BOOLEAN :
              /\ result' = [update |-> arg, ok |-> ok]
              /\ mode_flag' \in IF ok THEN {TRUE} ELSE BOOLEAN
      BY <1>25 DEF ActUpdate
    <2>2. result'.ok => mode_flag'
      BY <2>1
    <2>3. ready = "update" /\ mpc = "wait" /\ ret = "updated"
      BY <1>25 DEF ActUpdate
    <2>4. QED
      BY <1>25, <2>2, <2>3 DEF ActUpdate
  <1>26. CASE Finish
    BY <1>26 DEF Finish
  <1>27. CASE SpuriousWakeup
    BY <1>27 DEF SpuriousWakeup
  <1>28. CASE UNCHANGED vars
    BY <1>28 DEF vars
  <1>29. QED
    BY <1>1, <1>2, <1>3, <1>4, <1>5, <1>6, <1>7, <1>8, <1>9, <1>10, <1>11,
       <1>12, <1>13, <1>14, <1>15, <1>16, <1>17, <1>18, <1>19, <1>20,
       <1>21, <1>22, <1>23, <1>24, <1>25, <1>26, <1>27, <1>28
       DEF Next, Choose, MainStep, VideoStep, Ended

---------------------------------------------------------------------------

\* The types of VideoThread are kept for ever.
THEOREM TypeCorrect == Spec => []TypeOK
  <1>1. Init => HandOff
    BY HandOffInit
  <1>2. HandOff /\ [Next]_vars => HandOff'
    BY HandOffStep
  <1>3. HandOff => TypeOK
    BY DEF HandOff
  <1>4. QED
    BY <1>1, <1>2, <1>3, PTL DEF Spec

\* No data race between video_frame_prepare(), the mode requests and the video
\* thread, for any number of frames.
THEOREM NoDataRace == Spec => []SharedDataExclusive
  <1>1. HandOff => SharedDataExclusive
    BY DEF HandOff, MainByReady, VideoByReady, SharedDataExclusive
  <1>2. QED
    BY <1>1, HandOffInit, HandOffStep, PTL DEF Spec

\* One condition variable is enough: no thread sleeps through its event.
THEOREM WakeupsAreNotLost == Spec => []NoLostWakeup
  <1>1. HandOff => NoLostWakeup
    BY DEF HandOff
  <1>2. QED
    BY <1>1, HandOffInit, HandOffStep, PTL DEF Spec

\* Picture, flags and samples of a performed frame are of the same frame.
THEOREM FramesAreWhole == Spec => []FrameWhole
  <1>1. Init => HandOff /\ Frames
    BY HandOffInit, FramesInit
  <1>2. HandOff /\ Frames /\ [Next]_vars => (HandOff /\ Frames)'
    BY HandOffStep, FramesStep
  <1>3. Frames => FrameWhole
    BY DEF Frames
  <1>4. QED
    BY <1>1, <1>2, <1>3, PTL DEF Spec

\* Frames are drawn, and the mode is closed, only while a mode is set, whatever
\* changes of mode have failed before.
THEOREM ModeStaysSet == Spec => []ModeIsSet
  <1>1. Init => HandOff /\ Modes
    BY HandOffInit, ModesInit
  <1>2. HandOff /\ Modes /\ [Next]_vars => (HandOff /\ Modes)'
    BY HandOffStep, ModesStep
  <1>3. HandOff /\ Modes => ModeIsSet
    BY DEF HandOff, VideoByReady, Modes, ModeByPlace, ModeIsSet
  <1>4. QED
    BY <1>1, <1>2, <1>3, PTL DEF Spec

\* No frame is dropped by the end of the game.
THEOREM ExitLosesNothing == Spec => []AllHeardAtExit
  <1>1. Init => HandOff /\ Frames
    BY HandOffInit, FramesInit
  <1>2. HandOff /\ Frames /\ [Next]_vars => (HandOff /\ Frames)'
    BY HandOffStep, FramesStep
  <1>3. HandOff /\ Frames => AllHeardAtExit
    BY DEF HandOff, MainByReady, Frames, HeardByReady, AllHeardAtExit
  <1>4. QED
    BY <1>1, <1>2, <1>3, PTL DEF Spec

\* The samples of every frame are played, in order.
THEOREM SoundIsContinuous == Spec => SoundHasNoGap
  <1>1. Init => HandOff /\ Frames
    BY HandOffInit, FramesInit
  <1>2. HandOff /\ Frames /\ [Next]_vars => (HandOff /\ Frames)'
    BY HandOffStep, FramesStep
  <1>3. HandOff /\ Frames /\ [Next]_vars => [heard' # heard => heard' = heard + 1]_vars
    <2> SUFFICES ASSUME HandOff, Frames, [Next]_vars, heard' # heard
                 PROVE  heard' = heard + 1
      OBVIOUS
    <2> USE DEF shared, copies, mode, mainVars, videoVars
    <2>1. SoundFrame
      <3>1. ~Choose
        BY DEF Choose, Frame, MenuWait, Reconfigure, VideoDone
      <3>2. ~MainStep
        BY DEF MainStep, ThreadInit, PrepareWait, CopyGame, CopyState, SignalFrame,
               SignalMode, Wait, RequestUpdate, RefuseUpdate, Updated, Opened,
               RequestDone, ThreadDone, RequestExit, Join
      <3>3. VideoStep => SoundFrame
        BY DEF VideoStep, VideoCheck, ActFrame, DrawFrame, ActDone, ActUpdate, Finish
      <3>4. ~SpuriousWakeup /\ ~Ended /\ ~UNCHANGED vars
        BY DEF SpuriousWakeup, Ended, vars
      <3>5. QED
        BY <3>1, <3>2, <3>3, <3>4 DEF Next
    <2>2. ready = "frame" /\ vpc = "sound" /\ heard' = state.frame
      BY <2>1 DEF SoundFrame, HandOff, VideoByReady
    <2>3. heard + 1 = posted /\ state.frame = posted
      BY <2>2 DEF Frames, CopiesByReady, HeardByReady
    <2>4. QED
      BY <2>2, <2>3
  <1>4. QED
    BY <1>1, <1>2, <1>3, PTL DEF Spec, SoundHasNoGap

\* Each step is one of the server, or none: a request is posted by the signal,
\* performed when the thread comes to its end, and released by the clear.
LEMMA ServiceStep ==
  HandOff /\ Frames /\ Modes /\ [Next]_vars => [Service!Next]_(Service!vars)
  <1> SUFFICES ASSUME HandOff, Frames, Modes, [Next]_vars
               PROVE  Service!Next \/ UNCHANGED Service!vars
    BY DEF Service!vars
  <1>a. MainByReady /\ VideoByReady /\ ReturnByReady /\ CopiesByReady /\ HeardByReady
    BY DEF HandOff, Frames, Modes
  <1> USE <1>a DEF MainByReady, VideoByReady, ReturnByReady, Service!Next, Service!vars,
      shared, copies, mode, mainVars, videoVars
  <1>1. CASE Frame
    BY <1>1 DEF Frame
  <1>2. CASE MenuWait
    BY <1>2 DEF MenuWait
  <1>3. CASE Reconfigure
    BY <1>3 DEF Reconfigure
  <1>4. CASE VideoDone
    BY <1>4 DEF VideoDone
  <1>5. CASE ThreadInit
    BY <1>5 DEF ThreadInit
  <1>6. CASE PrepareWait
    BY <1>6 DEF PrepareWait
  <1>7. CASE CopyGame
    BY <1>7 DEF CopyGame
  <1>8. CASE CopyState
    BY <1>8 DEF CopyState
  <1>9. CASE SignalFrame
    BY <1>9 DEF SignalFrame, Service!Post
  <1>10. CASE SignalMode
    BY <1>10 DEF SignalMode, Service!Post
  <1>11. CASE Wait
    BY <1>11 DEF Wait
  <1>12. CASE RequestUpdate
    BY <1>12 DEF RequestUpdate
  <1>13. CASE RefuseUpdate
    BY <1>13 DEF RefuseUpdate
  <1>14. CASE Updated
    BY <1>14 DEF Updated
  <1>15. CASE Opened
    BY <1>15 DEF Opened
  <1>16. CASE RequestDone
    BY <1>16 DEF RequestDone
  <1>17. CASE ThreadDone
    BY <1>17 DEF ThreadDone
  <1>18. CASE RequestExit
    BY <1>18 DEF RequestExit
  <1>19. CASE Join
    BY <1>19 DEF Join
  <1>20. CASE VideoCheck
    BY <1>20 DEF VideoCheck
  <1>21. CASE ActFrame
    BY <1>21 DEF ActFrame
  <1>22. CASE DrawFrame
    BY <1>22 DEF DrawFrame
  <1>23. CASE SoundFrame
    <2>1. ready = "frame" /\ heard' = posted
      BY <1>23 DEF SoundFrame, CopiesByReady
    <2>2. QED
      BY <1>23, <2>1 DEF SoundFrame, Service!Perform
  <1>24. CASE ActDone
    BY <1>24 DEF ActDone, Service!Perform
  <1>25. CASE ActUpdate
    BY <1>25 DEF ActUpdate, Service!Perform
  <1>26. CASE Finish
    BY <1>26 DEF Finish, Service!Release
  <1>27. CASE SpuriousWakeup
    BY <1>27 DEF SpuriousWakeup
  <1>28. CASE UNCHANGED vars
    BY <1>28 DEF vars
  <1>29. QED
    BY <1>1, <1>2, <1>3, <1>4, <1>5, <1>6, <1>7, <1>8, <1>9, <1>10, <1>11,
       <1>12, <1>13, <1>14, <1>15, <1>16, <1>17, <1>18, <1>19, <1>20,
       <1>21, <1>22, <1>23, <1>24, <1>25, <1>26, <1>27, <1>28
       DEF Next, Choose, MainStep, VideoStep, Ended

\* The hand-off is a server of one request at a time (the safety part of
\* ImplementsService): no request is lost, repeated or overwritten.
THEOREM ServesOneRequest == Spec => Service!Init /\ [][Service!Next]_(Service!vars)
  <1>1. Init => HandOff /\ Frames /\ Modes
    BY HandOffInit, FramesInit, ModesInit
  <1>2. HandOff /\ Frames /\ Modes /\ [Next]_vars => (HandOff /\ Frames /\ Modes)'
    BY HandOffStep, FramesStep, ModesStep
  <1>3. Init => Service!Init
    BY DEF Init, Service!Init
  <1>4. QED
    BY <1>1, <1>2, <1>3, ServiceStep, PTL DEF Spec
=============================================================================
