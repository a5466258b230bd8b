-------------------------- MODULE FrameSkipProofs --------------------------
(***************************************************************************)
(* Proofs about FrameSkip, for any measured times, factors and limits.     *)
(*                                                                         *)
(* The gap: between the decision to skip a frame and its synchronisation   *)
(* there are two places for a frame, the one being emulated and the one    *)
(* given to the video thread.  Run is the gap that there will be when all  *)
(* the frames decided so far are over; the position in the cycle bounds it *)
(* while the cycle goes on (WithinCycle), and a restart draws a frame.  A  *)
(* restart of the video thread falls in one decision at most, since the    *)
(* next frame waits for it (Overwritten).                                  *)
(*                                                                         *)
(* The vsync: of two restarts that overlap, each clears the vsync after it *)
(* has set it, when the speed that it reads isn't the normal one; a speed  *)
(* that has changed since is followed by a restart of its own (Cleared).   *)
(*                                                                         *)
(* The levels (SkipMeasures, for measures of any size): the levels of the  *)
(* ladder are few, and for each of them the speed kept and the share drawn *)
(* are linear in the measures (Pace, Order); the rounded quotients of the  *)
(* code are then the last level that still fits (Floors).                  *)
(***************************************************************************)
EXTENDS FrameSkip, SkipMeasures, TLAPS

Good(l) == l \in [full : Nat \ {0}, skip : 0..SYNC_MAX]

LEMMA Quotient ==
  ASSUME NEW a \in Nat, NEW b \in Nat, b > 0
  PROVE  a \div b \in Nat /\ (a >= b => a \div b >= 1)
  <1>1. a \div b \in Int /\ a \div b >= 0
    OBVIOUS
  <1>2. a >= b => a \div b >= 1
    OBVIOUS
  <1>3. QED
    BY <1>1, <1>2

\* The levels of the configured factor, of the keys and of the measures draw
\* one frame at least in each cycle, and skip no more than the maximum.
LEMMA FactorIsGood == \A f \in 0..100 : Good(FactorLevel(f))
  <1> SUFFICES ASSUME NEW f \in 0..100 PROVE Good(FactorLevel(f))
    OBVIOUS
  <1> USE DEF Good, Level, SYNC_MAX, FactorLevel
  <1>1. CASE f >= 75 \/ f <= 25
    BY <1>1
  <1>2. CASE f >= 50 /\ f < 75
    <2>1. f \div (100 - f) \in Nat /\ f \div (100 - f) >= 1
      BY <1>2, Quotient
    <2>2. AtMost(f \div (100 - f), SYNC_MAX) \in Nat \ {0}
      BY <2>1 DEF AtMost
    <2>3. FactorLevel(f) = Level(AtMost(f \div (100 - f), SYNC_MAX), 1)
      BY <1>2
    <2>4. QED
      BY <2>2, <2>3
  <1>3. CASE f < 50 /\ f > 25
    <2>1. (100 - f) \div f \in Nat
      BY <1>3, Quotient
    <2>2. AtMost((100 - f) \div f, SYNC_MAX) \in 0..SYNC_MAX
      BY <2>1 DEF AtMost
    <2>3. FactorLevel(f) = Level(1, AtMost((100 - f) \div f, SYNC_MAX))
      BY <1>3
    <2>4. QED
      BY <2>2, <2>3
  <1>4. QED
    BY <1>1, <1>2, <1>3

LEMMA StepIsGood == ASSUME NEW l, Good(l) PROVE Good(Inc(l)) /\ Good(Dec(l))
  BY DEF Good, Inc, Dec, Level, SYNC_MAX

LEMMA MeasuredIsGood ==
  ASSUME NEW s \in Nat, NEW f \in Nat, NEW k \in Nat, NEW fast \in BOOLEAN, s > 0, k <= f
  PROVE  Good(Recompute(s, f, k, fast))
  <1> USE DEF Good, Level, SYNC_MAX
  <1>2. CASE f < s
    <2>1. Recompute(s, f, k, fast) = Level(4, 0)
      BY <1>2 DEF Recompute
    <2>2. QED
      BY <2>1
  <1>5. CASE f >= s /\ TooSlow(s, f, k)
    <2>1. Recompute(s, f, k, fast) = IF fast THEN Level(1, 3) ELSE Level(1, 1)
      BY <1>5 DEF Recompute
    <2>2. QED
      BY <2>1
  <1>3. CASE f >= s /\ ~TooSlow(s, f, k)
    <2>1. f - s \in Nat /\ s - k \in Nat /\ s - k > 0
      BY <1>3 DEF TooSlow
    <2>2. CASE s - k >= f - s
      <3>1. CASE f - s = 0
        BY <1>3, <2>1, <2>2, <3>1 DEF Recompute
      <3>2. CASE f - s # 0
        <4>1. (s - k) \div (f - s) \in Nat /\ (s - k) \div (f - s) >= 1
          BY <2>1, <2>2, <3>2, Quotient
        <4>2. FloorLevel(s - k, f - s) \in Nat \ {0}
          BY <4>1 DEF FloorLevel, AtMost
        <4>3. Recompute(s, f, k, fast) = Level(FloorLevel(s - k, f - s), 1)
          BY <1>3, <2>1, <2>2, <3>2 DEF Recompute
        <4>4. QED
          BY <4>2, <4>3
      <3>3. QED
        BY <3>1, <3>2
    <2>3. CASE ~(s - k >= f - s)
      <3>1. ((f - s) + (s - k) - 1) \div (s - k) \in Nat
        BY <2>1, Quotient
      <3>2. CeilLevel(f - s, s - k) \in 0..SYNC_MAX
        BY <3>1 DEF CeilLevel, AtMost
      <3>3. Recompute(s, f, k, fast) = Level(1, CeilLevel(f - s, s - k))
        BY <1>3, <2>1, <2>3 DEF Recompute
      <3>4. QED
        BY <3>2, <3>3
    <2>4. QED
      BY <2>2, <2>3
  <1>4. QED
    BY <1>2, <1>3, <1>5

LEMMA RecomputeIsGood ==
  ASSUME NEW t \in Times, NEW fast \in BOOLEAN
  PROVE  Good(Recompute(t.step, t.full, t.skip, fast))
  <1>1. t.step \in Nat /\ t.full \in Nat /\ t.skip \in Nat /\ t.step > 0 /\ t.skip <= t.full
    BY TimesAssumption
  <1>2. QED
    BY <1>1, MeasuredIsGood

---------------------------------------------------------------------------
(* The types, in the part that the proofs need. *)

Flags ==
    /\ skip_flag \in BOOLEAN /\ skip_warm \in BOOLEAN /\ auto \in BOOLEAN
    /\ throttle \in BOOLEAN /\ turbo \in BOOLEAN
    /\ fastest \in BOOLEAN /\ measure \in BOOLEAN
    /\ vsync_ok \in BOOLEAN /\ vsync \in BOOLEAN /\ sync_warm \in BOOLEAN
    /\ cur \in BOOLEAN /\ vskip \in BOOLEAN

Numbers ==
    /\ factor \in 0..100 /\ Good(level) /\ Good(fresh) /\ counter \in Nat
    /\ skipped \in Nat /\ gap \in Nat

Places ==
    /\ restart \in [Threads -> {"no", "warm", "full", "skip", "sync", "test", "clear"}]
    /\ mpc \in {"game", "skip", "start", "count", "next", "full", "rest", "warm", "post"}
    /\ vpc \in {"idle", "sync", "start", "wait"}

Types == Flags /\ Numbers /\ Places

LEMMA TypesInit == Init => Types
  <1> SUFFICES ASSUME Init PROVE Types
    OBVIOUS
  <1>1. factor \in 0..100
    <2>1. factor = 100 \/ factor \in Factor
      BY DEF Init
    <2>2. \A x \in Factor : x \in 0..100
      BY FactorAssumption
    <2>3. 100 \in 0..100
      OBVIOUS
    <2>4. QED
      BY <2>1, <2>2, <2>3
  <1>2. Good(level) /\ Good(fresh)
    BY <1>1, FactorIsGood DEF Init, Good, Level, SYNC_MAX
  <1>3. Flags /\ Places
    BY DEF Init, Flags, Places
  <1>4. QED
    BY <1>1, <1>2, <1>3 DEF Init, Types, Numbers

\* What a key of the frame skip does to the levels.
SkipKey(next) ==
    /\ \/ auto' = FALSE /\ UNCHANGED counter /\ UpdateSkip
       \/ auto' = TRUE /\ UNCHANGED <<counter, level, skip_warm>>
       \/ counter' = 0 /\ level' = next /\ UNCHANGED <<auto, skip_warm>>
    /\ Frame /\ CountStartup /\ GoOn
    /\ UNCHANGED <<throttle, turbo, measure>>
    /\ UNCHANGED <<skip_flag, config, mcount, exit, vsync_ok, sync, fresh, video>>

LEMMA KeyOfSkip ==
  ASSUME Types, CommandInc \/ CommandDec
  PROVE  \E next : Good(next) /\ SkipKey(next)
  <1>1. ASSUME NEW next, CommandSkip(next) PROVE SkipKey(next)
    <2>1. CASE auto
      BY <1>1, <2>1 DEF SkipKey, CommandSkip, Types, Flags
    <2>2. CASE ~auto /\ next = level
      BY <1>1, <2>2 DEF SkipKey, CommandSkip, Types, Flags
    <2>3. CASE ~auto /\ next # level
      BY <1>1, <2>3 DEF SkipKey, CommandSkip, Types, Flags
    <2>4. QED
      BY <2>1, <2>2, <2>3
  <1>2. Good(Inc(level)) /\ Good(Dec(level))
    BY StepIsGood DEF Types, Numbers
  <1>3. CASE CommandInc
    BY <1>1, <1>2, <1>3 DEF CommandInc
  <1>4. CASE CommandDec
    BY <1>1, <1>2, <1>4 DEF CommandDec
  <1>5. QED
    BY <1>3, <1>4

LEMMA TypesStep == Types /\ [Next]_vars => Types'
  <1> SUFFICES ASSUME Types, [Next]_vars PROVE Types'
    OBVIOUS
  <1>a. Good(FactorLevel(factor))
    BY FactorIsGood DEF Types, Numbers
  <1>b. Good(Level(1, 0)) /\ Good(Level(1, SYNC_MAX))
    BY DEF Good, Level, SYNC_MAX
  <1>c. \A l, k : Good(l) /\ Good(k) =>
           Good([l EXCEPT !.full = k.full]) /\ Good([l EXCEPT !.skip = k.skip])
    BY DEF Good
  <1>d. /\ Good([level EXCEPT !.full = FactorLevel(factor).full])
        /\ Good([level EXCEPT !.skip = FactorLevel(factor).skip])
        /\ Good([level EXCEPT !.full = fresh.full]) /\ Good([level EXCEPT !.skip = fresh.skip])
    BY <1>a, <1>c DEF Types, Numbers
  <1> USE <1>a DEF Types, Flags, Numbers, Places, AtFrame, Deciding, At, Go, Quiet, Threads,
      UpdateSkip, VideoAt, config, levels, speed, limits, sync, video
  <1>1. CASE Reset
    BY <1>1 DEF Reset
  <1>2. CASE ModeUpdate
    BY <1>2 DEF ModeUpdate
  <1>3. CASE CountMeasure
    BY <1>3 DEF CountMeasure
  <1>4. CASE CommandSpeed
    BY <1>4 DEF CommandSpeed, CountStartup, GoOn, Frame
  <1>5. CASE CommandInc \/ CommandDec
    <2>1. PICK next : Good(next) /\ SkipKey(next)
      BY <1>5, KeyOfSkip
    <2>2. Good(level') /\ counter' \in Nat /\ auto' \in BOOLEAN /\ skip_warm' \in BOOLEAN
      <3>1. CASE auto' = FALSE /\ UNCHANGED counter /\ UpdateSkip
        BY <3>1
      <3>2. CASE auto' = TRUE /\ UNCHANGED <<counter, level, skip_warm>>
        BY <3>2
      <3>3. CASE counter' = 0 /\ level' = next /\ UNCHANGED <<auto, skip_warm>>
        BY <2>1, <3>3
      <3>4. QED
        BY <2>1, <3>1, <3>2, <3>3 DEF SkipKey
    <2>3. fastest' \in BOOLEAN /\ cur' \in BOOLEAN /\ Places'
      BY <2>1 DEF SkipKey, CountStartup, GoOn, Frame
    <2>4. QED
      BY <2>1, <2>2, <2>3 DEF SkipKey
  <1>6. CASE RestartSkip
    BY <1>6 DEF RestartSkip
  <1>7. CASE RestartSkipVideo
    <2>1. Good(level')
      BY <1>7, <1>d DEF RestartSkipVideo
    <2>2. skip_warm' \in BOOLEAN /\ Places'
      BY <1>7 DEF RestartSkipVideo
    <2>3. QED
      BY <1>7, <2>1, <2>2 DEF RestartSkipVideo
  <1>8. ASSUME NEW t \in Threads, RestartSync(t) PROVE Types'
    <2>1. Flags'
      BY <1>8 DEF RestartSync
    <2>2. Numbers' /\ Places'
      BY <1>8 DEF RestartSync
    <2>3. QED
      BY <2>1, <2>2
  <1>9. ASSUME NEW t \in Threads, TestVsync(t) PROVE Types'
    BY <1>9 DEF TestVsync
  <1>10. ASSUME NEW t \in Threads, ClearVsync(t) PROVE Types'
    <2>1. Flags'
      BY <1>10 DEF ClearVsync
    <2>2. Numbers' /\ Places'
      BY <1>10 DEF ClearVsync
    <2>3. QED
      BY <2>1, <2>2
  <1>11. CASE SkipNone
    <2>1. Flags'
      BY <1>11 DEF SkipNone
    <2>2. Numbers' /\ Places'
      BY <1>11 DEF SkipNone
    <2>3. QED
      BY <2>1, <2>2
  <1>12. CASE SkipSome
    BY <1>12 DEF SkipSome
  <1>13. CASE SkipStart
    <2>1. Level(1, IF measure THEN 0 ELSE SYNC_MAX) \in {Level(1, 0), Level(1, SYNC_MAX)}
      OBVIOUS
    <2>2. Good(fresh') /\ Places'
      BY <1>13, <1>b, <2>1 DEF SkipStart
    <2>3. Flags' /\ counter' \in Nat
      BY <1>13 DEF SkipStart
    <2>4. QED
      BY <1>13, <2>2, <2>3 DEF SkipStart
  <1>14. CASE SkipCount
    BY <1>14 DEF SkipCount
  <1>15. CASE SkipNext
    <2>1. Good(fresh') /\ counter' \in Nat
      BY <1>15, RecomputeIsGood DEF SkipNext, Measured
    <2>2. Places'
      BY <1>15 DEF SkipNext, Measured
    <2>3. QED
      BY <1>15, <2>1, <2>2 DEF SkipNext
  <1>16. CASE StoreLevel
    <2>1. Good(level') /\ Good(fresh')
      BY <1>16, <1>b, <1>d DEF StoreLevel
    <2>2. Places'
      BY <1>16 DEF StoreLevel
    <2>3. QED
      BY <1>16, <2>1, <2>2 DEF StoreLevel
  <1>17. CASE SkipStarted
    <2>1. Flags'
      BY <1>17 DEF SkipStarted
    <2>2. Numbers' /\ Places'
      BY <1>17 DEF SkipStarted
    <2>3. QED
      BY <2>1, <2>2
  <1>18. CASE Post
    BY <1>18 DEF Post
  <1>19. CASE SyncSkipped
    BY <1>19 DEF SyncSkipped
  <1>20. CASE SyncStart
    BY <1>20 DEF SyncStart
  <1>21. CASE SyncStarted
    <2>1. Flags'
      BY <1>21 DEF SyncStarted
    <2>2. Numbers' /\ Places'
      BY <1>21 DEF SyncStarted
    <2>3. QED
      BY <2>1, <2>2
  <1>22. CASE SyncFree
    BY <1>22 DEF SyncFree
  <1>23. CASE SyncVertical
    BY <1>23 DEF SyncVertical
  <1>24. CASE SyncWait
    BY <1>24 DEF SyncWait
  <1>25. CASE SyncWaited
    BY <1>25 DEF SyncWaited
  <1>26. CASE UNCHANGED vars
    BY <1>26 DEF vars
  <1>27. QED
    BY <1>1, <1>2, <1>3, <1>4, <1>5, <1>6, <1>7, <1>8, <1>9, <1>10, <1>11, <1>12,
       <1>13, <1>14, <1>15, <1>16, <1>17, <1>18, <1>19, <1>20, <1>21, <1>22, <1>23,
       <1>24, <1>25, <1>26
       DEF Next, Main, Command, Restart, Skip, Sync, Video, Vsync, Exited, Threads

---------------------------------------------------------------------------
(* The gap. *)

\* The frames skipped in a row when the video thread has done its frame, when the
\* emulation has given the current one, and when the decision taken is carried out.
Synced ==
    CASE vpc \in {"idle", "wait"} -> gap
      [] vpc = "start" -> 0
      [] vpc = "sync" -> IF vskip THEN gap + 1 ELSE 0
Given == IF mpc = "game" THEN Synced ELSE IF cur THEN Synced + 1 ELSE 0
Undecided == mpc \in {"skip", "start", "count"}
Run == IF Undecided THEN Given ELSE IF skip_flag THEN Given + 1 ELSE 0

Bounded == {gap, Synced, Given, Run} \subseteq 0..SYNC_MAX

\* In a cycle that goes on, only the frames after the full ones have been skipped.
Excess(c) == IF c > level.full THEN c - level.full ELSE 0
WithinCycle ==
    ~skip_warm =>
        /\ counter < level.full + level.skip
        /\ mpc # "next" /\ counter > 0 => Run <= Excess(counter)
        /\ mpc = "next" => Run <= Excess(counter + 1)

\* New levels, of the emulation or of a restart, come with a new cycle.
Overwritten ==
    /\ mpc \in {"full", "rest", "warm"} => counter = 0
    /\ restart["video"] \in {"full", "skip"} => skip_warm \/ (mpc = "post" /\ counter = 0)
    /\ mpc = "count" /\ skip_warm /\ counter > 0 => Given < SYNC_MAX

Gaps == Bounded /\ WithinCycle /\ Overwritten

LEMMA GapsInit == Init => Gaps
  BY DEF Init, Gaps, Bounded, WithinCycle, Overwritten, Synced, Given, Undecided, Run, Threads, SYNC_MAX

\* A cycle skips no more than level.skip frames, and begins with a drawn one.
LEMMA GapsStep == Types /\ Gaps /\ [Next]_vars => Gaps'
  <1> SUFFICES ASSUME Types, Gaps, [Next]_vars PROVE Gaps'
    OBVIOUS
  <1>a. Types'
    BY TypesStep
  <1> USE <1>a DEF Gaps, Bounded, WithinCycle, Overwritten, Synced, Given, Undecided, Run, Excess,
      Good, SYNC_MAX, Types, Flags, Numbers, Places, AtFrame, Deciding, VideoIdle, At, Go, Quiet,
      Threads, UpdateSkip, VideoAt, config, levels, speed, limits, sync, video
  <1>1. CASE Reset
    BY <1>1 DEF Reset
  <1>2. CASE ModeUpdate
    BY <1>2 DEF ModeUpdate
  <1>3. CASE CountMeasure
    BY <1>3 DEF CountMeasure
  <1>4. CASE CommandSpeed
    BY <1>4 DEF CommandSpeed, CountStartup, GoOn, Frame
  <1>5. CASE CommandInc \/ CommandDec
    <2>1. PICK next : Good(next) /\ SkipKey(next)
      BY <1>5, KeyOfSkip
    <2>2. QED
      BY <1>5, <2>1 DEF SkipKey, CountStartup, GoOn, Frame
  <1>6. CASE RestartSkip
    BY <1>6 DEF RestartSkip
  <1>7. CASE RestartSkipVideo
    BY <1>7 DEF RestartSkipVideo
  <1>8. ASSUME NEW t \in Threads, RestartSync(t) PROVE Gaps'
    BY <1>8 DEF RestartSync
  <1>9. ASSUME NEW t \in Threads, TestVsync(t) PROVE Gaps'
    BY <1>9 DEF TestVsync
  <1>10. ASSUME NEW t \in Threads, ClearVsync(t) PROVE Gaps'
    BY <1>10 DEF ClearVsync
  <1>11. CASE SkipNone
    BY <1>11 DEF SkipNone
  <1>12. CASE SkipSome
    BY <1>12 DEF SkipSome
  <1>13. CASE SkipStart
    BY <1>13 DEF SkipStart
  <1>14. CASE SkipCount
    <2>1. /\ UNCHANGED <<level, counter, skip_warm, gap, Synced, Given, restart>>
          /\ skip_flag' = (counter >= level.full) /\ mpc = "count" /\ mpc' = "next"
      BY <1>14 DEF SkipCount
    <2>2. Run = Given /\ Run' = IF counter >= level.full THEN Given + 1 ELSE 0
      BY <2>1
    <2>3. counter >= level.full => counter > 0
      OBVIOUS
    <2>4. ~skip_warm => Run' <= Excess(counter + 1) /\ Excess(counter + 1) <= SYNC_MAX
      BY <2>2, <2>3, <2>1
    <2>5. Run' \in 0..SYNC_MAX
      BY <2>1, <2>2, <2>3, <2>4
    <2>6. QED
      BY <2>1, <2>4, <2>5
  <1>15. CASE SkipNext
    BY <1>15 DEF SkipNext, Measured
  <1>16. CASE StoreLevel
    BY <1>16 DEF StoreLevel
  <1>17. CASE SkipStarted
    BY <1>17 DEF SkipStarted
  <1>18. CASE Post
    BY <1>18 DEF Post
  <1>19. CASE SyncSkipped
    BY <1>19 DEF SyncSkipped
  <1>20. CASE SyncStart
    BY <1>20 DEF SyncStart
  <1>21. CASE SyncStarted
    BY <1>21 DEF SyncStarted
  <1>22. CASE SyncFree
    BY <1>22 DEF SyncFree
  <1>23. CASE SyncVertical
    BY <1>23 DEF SyncVertical
  <1>24. CASE SyncWait
    BY <1>24 DEF SyncWait
  <1>25. CASE SyncWaited
    BY <1>25 DEF SyncWaited
  <1>26. CASE UNCHANGED vars
    BY <1>26 DEF vars
  <1>27. QED
    BY <1>1, <1>2, <1>3, <1>4, <1>5, <1>6, <1>7, <1>8, <1>9, <1>10, <1>11, <1>12,
       <1>13, <1>14, <1>15, <1>16, <1>17, <1>18, <1>19, <1>20, <1>21, <1>22, <1>23,
       <1>24, <1>25, <1>26
       DEF Next, Main, Command, Restart, Skip, Sync, Video, Vsync, Exited, Threads

---------------------------------------------------------------------------
(* The vsync. *)

\* Of the two restarts one has still to clear the vsync that must not be used.
Cleared ==
    /\ vsync /\ ~Normal => ~Quiet("main") \/ At("video", "test") \/ At("video", "clear")
    /\ ~Quiet("video") => vpc = "idle"

\* Without a video thread one runs while the other is between two frames ...
Alternate ==
    /\ ~Quiet("main") => VideoIdle /\ mpc \in {"game", "skip"}
    /\ ~VideoIdle => mpc = "game"

\* ... so that a restart reads the speed that there is at its end.
Exact ==
    /\ Quiet("main") /\ restart["video"] \notin {"test", "clear"} => vsync = Normal
    /\ \A t \in Threads : At(t, "test") /\ Normal => vsync
    /\ \A t \in Threads : At(t, "clear") => ~Normal

Vsyncs == Cleared /\ (~smp => Alternate /\ Exact)

LEMMA VsyncStep == Types /\ Vsyncs /\ [Next]_vars => Vsyncs'
  <1> SUFFICES ASSUME Types, Vsyncs, [Next]_vars PROVE Vsyncs'
    OBVIOUS
  <1> USE DEF Vsyncs, Cleared, Alternate, Exact, Normal, Types, Flags, Places, AtFrame, Deciding,
      VideoIdle, At, Go, Quiet, Threads, VideoAt, config, levels, speed, limits, sync, video
  <1>1. CASE Reset
    BY <1>1 DEF Reset
  <1>2. CASE ModeUpdate
    BY <1>2 DEF ModeUpdate
  <1>3. CASE CountMeasure
    BY <1>3 DEF CountMeasure
  <1>4. CASE CommandSpeed
    BY <1>4 DEF CommandSpeed, CountStartup, GoOn, Frame
  <1>5. CASE CommandInc \/ CommandDec
    <2>1. PICK next : Good(next) /\ SkipKey(next)
      BY <1>5, KeyOfSkip
    <2>2. QED
      BY <1>5, <2>1 DEF SkipKey, CountStartup, GoOn, Frame
  <1>6. CASE RestartSkip
    BY <1>6 DEF RestartSkip
  <1>7. CASE RestartSkipVideo
    BY <1>7 DEF RestartSkipVideo
  <1>8. ASSUME NEW t \in Threads, RestartSync(t) PROVE Vsyncs'
    BY <1>8 DEF RestartSync
  <1>9. ASSUME NEW t \in Threads, TestVsync(t) PROVE Vsyncs'
    BY <1>9 DEF TestVsync
  <1>10. ASSUME NEW t \in Threads, ClearVsync(t) PROVE Vsyncs'
    BY <1>10 DEF ClearVsync
  <1>11. CASE SkipNone
    BY <1>11 DEF SkipNone
  <1>12. CASE SkipSome
    BY <1>12 DEF SkipSome
  <1>13. CASE SkipStart
    BY <1>13 DEF SkipStart
  <1>14. CASE SkipCount
    BY <1>14 DEF SkipCount
  <1>15. CASE SkipNext
    BY <1>15 DEF SkipNext
  <1>16. CASE StoreLevel
    BY <1>16 DEF StoreLevel
  <1>17. CASE SkipStarted
    BY <1>17 DEF SkipStarted
  <1>18. CASE Post
    BY <1>18 DEF Post
  <1>19. CASE SyncSkipped
    BY <1>19 DEF SyncSkipped
  <1>20. CASE SyncStart
    BY <1>20 DEF SyncStart
  <1>21. CASE SyncStarted
    BY <1>21 DEF SyncStarted
  <1>22. CASE SyncFree
    BY <1>22 DEF SyncFree
  <1>23. CASE SyncVertical
    BY <1>23 DEF SyncVertical
  <1>24. CASE SyncWait
    BY <1>24 DEF SyncWait
  <1>25. CASE SyncWaited
    BY <1>25 DEF SyncWaited
  <1>26. CASE UNCHANGED vars
    BY <1>26 DEF vars
  <1>27. QED
    BY <1>1, <1>2, <1>3, <1>4, <1>5, <1>6, <1>7, <1>8, <1>9, <1>10, <1>11, <1>12,
       <1>13, <1>14, <1>15, <1>16, <1>17, <1>18, <1>19, <1>20, <1>21, <1>22, <1>23,
       <1>24, <1>25, <1>26
       DEF Next, Main, Command, Restart, Skip, Sync, Video, Vsync, Exited, Threads

---------------------------------------------------------------------------
(* The waits. *)

\* The skipped frames are those of the gap, from a start on.
Counted ==
    restart["main"] \notin {"warm", "sync"} /\ ~sync_warm /\ Throttled => skipped = gap

Waits == ~smp => Alternate /\ Counted

LEMMA WaitsStep == Types /\ Waits /\ [Next]_vars => Waits'
  <1> SUFFICES ASSUME Types, Waits, [Next]_vars PROVE Waits'
    OBVIOUS
  <1> USE DEF Waits, Alternate, Counted, Throttled, Types, Flags, Numbers, Places, AtFrame,
      Deciding, VideoIdle, At, Go, Quiet, Threads, VideoAt, config, levels, speed, limits, sync, video
  <1>1. CASE Reset
    BY <1>1 DEF Reset
  <1>2. CASE ModeUpdate
    BY <1>2 DEF ModeUpdate
  <1>3. CASE CountMeasure
    BY <1>3 DEF CountMeasure
  <1>4. CASE CommandSpeed
    BY <1>4 DEF CommandSpeed, CountStartup, GoOn, Frame
  <1>5. CASE CommandInc \/ CommandDec
    <2>1. PICK next : Good(next) /\ SkipKey(next)
      BY <1>5, KeyOfSkip
    <2>2. QED
      BY <1>5, <2>1 DEF SkipKey, CountStartup, GoOn, Frame
  <1>6. CASE RestartSkip
    BY <1>6 DEF RestartSkip
  <1>7. CASE RestartSkipVideo
    BY <1>7 DEF RestartSkipVideo
  <1>8. ASSUME NEW t \in Threads, RestartSync(t) PROVE Waits'
    BY <1>8 DEF RestartSync
  <1>9. ASSUME NEW t \in Threads, TestVsync(t) PROVE Waits'
    BY <1>9 DEF TestVsync
  <1>10. ASSUME NEW t \in Threads, ClearVsync(t) PROVE Waits'
    BY <1>10 DEF ClearVsync
  <1>11. CASE SkipNone
    BY <1>11 DEF SkipNone
  <1>12. CASE SkipSome
    BY <1>12 DEF SkipSome
  <1>13. CASE SkipStart
    BY <1>13 DEF SkipStart
  <1>14. CASE SkipCount
    BY <1>14 DEF SkipCount
  <1>15. CASE SkipNext
    BY <1>15 DEF SkipNext
  <1>16. CASE StoreLevel
    BY <1>16 DEF StoreLevel
  <1>17. CASE SkipStarted
    BY <1>17 DEF SkipStarted
  <1>18. CASE Post
    BY <1>18 DEF Post
  <1>19. CASE SyncSkipped
    BY <1>19 DEF SyncSkipped
  <1>20. CASE SyncStart
    BY <1>20 DEF SyncStart
  <1>21. CASE SyncStarted
    BY <1>21 DEF SyncStarted
  <1>22. CASE SyncFree
    BY <1>22 DEF SyncFree
  <1>23. CASE SyncVertical
    BY <1>23 DEF SyncVertical
  <1>24. CASE SyncWait
    BY <1>24 DEF SyncWait
  <1>25. CASE SyncWaited
    BY <1>25 DEF SyncWaited
  <1>26. CASE UNCHANGED vars
    BY <1>26 DEF vars
  <1>27. QED
    BY <1>1, <1>2, <1>3, <1>4, <1>5, <1>6, <1>7, <1>8, <1>9, <1>10, <1>11, <1>12,
       <1>13, <1>14, <1>15, <1>16, <1>17, <1>18, <1>19, <1>20, <1>21, <1>22, <1>23,
       <1>24, <1>25, <1>26
       DEF Next, Main, Command, Restart, Skip, Sync, Video, Vsync, Exited, Threads

---------------------------------------------------------------------------
(* The levels. *)

\* The quotients up to the levels.
LEMMA Floors ==
  ASSUME NEW a \in Nat, NEW b \in Nat, b > 0
  PROVE  /\ a \div b \in Nat
         /\ \A k \in 1..4 : a \div b >= k <=> a >= k * b
  <1>1. a \div b \in Nat OBVIOUS
  <1>2. /\ a \div b >= 1 <=> a >= b
        /\ a \div b >= 2 <=> a >= 2 * b
        /\ a \div b >= 3 <=> a >= 3 * b
        /\ a \div b >= 4 <=> a >= 4 * b
     OBVIOUS
  <1>3. \A k \in 1..4 : k = 1 \/ k = 2 \/ k = 3 \/ k = 4  OBVIOUS
  <1>4. QED  BY <1>1, <1>2, <1>3

\* The six levels.
LEMMA LadderIs ==
  ASSUME NEW l \in Ladder
  PROVE  \/ l = Level(1, 3) \/ l = Level(1, 2) \/ l = Level(1, 1)
         \/ l = Level(2, 1) \/ l = Level(3, 1) \/ l = Level(4, 0)
  BY DEF Ladder, SYNC_MAX

\* How far the levels of the ladder are from the speed, lose is what a drawn
\* frame takes more than the frame time and gain what a skipped one takes less.
LEMMA Pace ==
  ASSUME NEW step \in Nat, NEW full \in Nat, NEW skip \in Nat
  PROVE  /\ \A s \in 1..3 : KeepsSpeed(Level(1, s), step, full, skip) <=> full - step <= s * (step - skip)
         /\ \A f \in 1..3 : KeepsSpeed(Level(f, 1), step, full, skip) <=> f * (full - step) <= step - skip
         /\ KeepsSpeed(Level(4, 0), step, full, skip) <=> full <= step
  <1> USE DEF KeepsSpeed, Level
  <1>1. \A s \in 1..3 : s = 1 \/ s = 2 \/ s = 3  OBVIOUS
  <1>2. /\ KeepsSpeed(Level(1, 1), step, full, skip) <=> full - step <= 1 * (step - skip)
        /\ KeepsSpeed(Level(1, 2), step, full, skip) <=> full - step <= 2 * (step - skip)
        /\ KeepsSpeed(Level(1, 3), step, full, skip) <=> full - step <= 3 * (step - skip)
    OBVIOUS
  <1>3. /\ KeepsSpeed(Level(1, 1), step, full, skip) <=> 1 * (full - step) <= step - skip
        /\ KeepsSpeed(Level(2, 1), step, full, skip) <=> 2 * (full - step) <= step - skip
        /\ KeepsSpeed(Level(3, 1), step, full, skip) <=> 3 * (full - step) <= step - skip
    OBVIOUS
  <1>4. KeepsSpeed(Level(4, 0), step, full, skip) <=> full <= step  OBVIOUS
  <1>5. QED  BY <1>1, <1>2, <1>3, <1>4

\* Among the levels of the ladder the order of the shares is that of the ladder.
LEMMA Order ==
  /\ \A s, r \in 1..3 : DrawsLess(Level(1, s), Level(1, r)) <=> r < s
  /\ \A f, g \in 1..3 : DrawsLess(Level(f, 1), Level(g, 1)) <=> f < g
  /\ \A s, f \in 1..3 : ~DrawsLess(Level(f, 1), Level(1, s))
  /\ \A s \in 1..3 : ~DrawsLess(Level(4, 0), Level(1, s)) /\ ~DrawsLess(Level(4, 0), Level(s, 1))
  <1> USE DEF DrawsLess, Level
  <1>1. \A s \in 1..3 : s = 1 \/ s = 2 \/ s = 3  OBVIOUS
  <1>2. \A s, r \in 1..3 : 1 * (1 + r) < 1 * (1 + s) <=> r < s  OBVIOUS
  <1>3. \A f, g \in 1..3 : f * (g + 1) < g * (f + 1) <=> f < g  BY <1>1
  <1>4. \A s, f \in 1..3 : ~(f * (1 + s) < 1 * (f + 1))  BY <1>1
  <1>5. QED  BY <1>2, <1>3, <1>4

\* The computed levels keep the speed if any do, and draw the most of those.
LEMMA RecomputeIsBest ==
  ASSUME NEW step \in Nat, NEW full \in Nat, NEW skip \in Nat, NEW fast \in BOOLEAN,
         step > 0, skip <= full, NEW l \in Ladder, KeepsSpeed(l, step, full, skip)
  PROVE  LET k == Recompute(step, full, skip, fast)
         IN  KeepsSpeed(k, step, full, skip) /\ (full # step => ~DrawsLess(k, l))
  <1> DEFINE k == Recompute(step, full, skip, fast)
             lose == full - step
             gain == step - skip
  <1>1. \/ \E s \in 1..3 : l = Level(1, s) /\ lose <= s * gain
        \/ \E f \in 1..3 : l = Level(f, 1) /\ f * lose <= gain
        \/ l = Level(4, 0) /\ full <= step
    BY LadderIs, Pace
  <1>2. CASE full < step
    <2>1. k = Level(4, 0)  BY <1>2 DEF Recompute, SYNC_MAX
    <2>2. QED  BY <2>1, <1>1, <1>2, Order, Pace DEF DrawsLess, Level
  <1>3. CASE full >= step /\ TooSlow(step, full, skip)
    <2>1. full = step /\ skip = step  BY <1>1, <1>3 DEF TooSlow, SYNC_MAX
    <2>2. k = Level(1, 3) \/ k = Level(1, 1)  BY <1>3 DEF Recompute, SYNC_MAX
    <2>3. QED  BY <2>1, <2>2, Pace
  <1>4. CASE full >= step /\ ~TooSlow(step, full, skip)
    <2>1. lose \in Nat /\ gain \in Nat /\ gain > 0 /\ lose < 4 * gain
      BY <1>4 DEF TooSlow, SYNC_MAX
    <2>2. CASE lose = 0
      <3>1. k = Level(3, 1)  BY <1>4, <2>1, <2>2 DEF Recompute, SYNC_MAX
      <3>2. QED  BY <3>1, <2>1, <2>2, Pace
    <2>3. CASE lose # 0 /\ gain >= lose
      <3> DEFINE q == AtMost(gain \div lose, 3)
      <3>1. k = Level(q, 1)  BY <1>4, <2>1, <2>3 DEF Recompute, FloorLevel, SYNC_MAX
      <3>2. q \in 1..3 /\ q * lose <= gain /\ \A f \in 1..3 : f * lose <= gain => f <= q
        <4>1. gain \div lose \in Nat /\ \A i \in 1..4 : gain \div lose >= i <=> gain >= i * lose
          BY <2>1, <2>3, Floors
        <4>2. gain \div lose >= 1  BY <4>1, <2>3, <2>1
        <4>3. q \in 1..3 /\ gain \div lose >= q /\ \A f \in 1..3 : gain \div lose >= f => q >= f
          BY <4>1, <4>2 DEF AtMost
        <4>4. QED  BY <4>1, <4>3, <2>1
      <3> HIDE DEF q, k
      <3>3. KeepsSpeed(k, step, full, skip)  BY <3>1, <3>2, Pace
      <3>4. ~DrawsLess(k, l)
        <4>1. CASE \E s \in 1..3 : l = Level(1, s)  BY <4>1, <3>1, <3>2, Order
        <4>2. CASE \E f \in 1..3 : l = Level(f, 1) /\ f * lose <= gain
          BY <4>2, <3>1, <3>2, Order
        <4>3. QED  BY <4>1, <4>2, <1>1, <2>1, <2>3
      <3>5. QED  BY <3>3, <3>4 DEF k
    <2>4. CASE gain < lose
      <3> DEFINE q == AtMost((lose + gain - 1) \div gain, 3)
      <3>1. k = Level(1, q)  BY <1>4, <2>1, <2>4 DEF Recompute, CeilLevel, SYNC_MAX
      <3>2. \E s \in 1..3 : l = Level(1, s) /\ lose <= s * gain
        BY <1>1, <2>1, <2>4
      <3>3. q \in 1..3 /\ lose <= q * gain /\ \A s \in 1..3 : lose <= s * gain => q <= s
        <4> DEFINE a == lose + gain - 1
        <4>1. a \in Nat  BY <2>1
        <4>2. a \div gain \in Nat /\ \A i \in 1..4 : a \div gain >= i <=> a >= i * gain
          BY <4>1, <2>1, Floors
        <4>3. \A s \in 1..3 : lose <= s * gain <=> ~(a >= (s + 1) * gain)
          BY <2>1
        <4>4. \A s \in 1..3 : s + 1 \in 1..4  OBVIOUS
        <4>5. a >= 2 * gain  BY <2>1, <2>4
        <4>6. a \div gain >= 2  BY <4>2, <4>5
        <4>7. \A s \in 1..3 : lose <= s * gain <=> a \div gain <= s  BY <4>2, <4>3, <4>4
        <4>8. a \div gain <= 3  BY <3>2, <4>2, <4>7
        <4>9. q = a \div gain  BY <4>2, <4>8 DEF AtMost
        <4>10. QED  BY <4>2, <4>6, <4>7, <4>8, <4>9
      <3> HIDE DEF q, k
      <3>4. KeepsSpeed(k, step, full, skip)  BY <3>1, <3>3, Pace
      <3>5. ~DrawsLess(k, l)  BY <3>1, <3>2, <3>3, Order
      <3>6. QED  BY <3>4, <3>5 DEF k
    <2>5. QED  BY <2>1, <2>2, <2>3, <2>4
  <1>5. QED  BY <1>2, <1>3, <1>4

\* A factor is rounded to a neighbour in the ladder.
LEMMA FactorIsNearest ==
  ASSUME NEW p \in 0..100, NEW k \in Ladder
  PROVE  LET asked == Level(p, 100 - p)
             used == FactorLevel(p)
         IN  /\ ~(DrawsLess(asked, k) /\ DrawsLess(k, used))
             /\ ~(DrawsLess(used, k) /\ DrawsLess(k, asked))
  <1> DEFINE asked == Level(p, 100 - p)
             used == FactorLevel(p)
  <1>1. /\ \A s \in 1..3 : /\ DrawsLess(asked, Level(1, s)) <=> p * (1 + s) < 100
                           /\ DrawsLess(Level(1, s), asked) <=> 100 < p * (1 + s)
        /\ \A f \in 1..3 : /\ DrawsLess(asked, Level(f, 1)) <=> p * (f + 1) < f * 100
                           /\ DrawsLess(Level(f, 1), asked) <=> f * 100 < p * (f + 1)
        /\ DrawsLess(asked, Level(4, 0)) <=> p < 100
        /\ ~DrawsLess(Level(4, 0), asked)
    BY DEF DrawsLess, Level
  <1> HIDE DEF asked
  <1>2. \/ \E s \in 1..3 : k = Level(1, s)
        \/ \E f \in 1..3 : k = Level(f, 1)
        \/ k = Level(4, 0)
    BY LadderIs
  <1>3. CASE p = 100
    <2>1. used = Level(4, 0)  BY <1>3 DEF FactorLevel, SYNC_MAX
    <2> HIDE DEF used
    <2>2. ~DrawsLess(used, k)  BY <2>1, <1>2, Order DEF DrawsLess, Level
    <2>3. ~(DrawsLess(asked, k) /\ DrawsLess(k, used))
       BY <2>1, <1>1, <1>2, <1>3 DEF DrawsLess, Level
    <2>4. QED  BY <2>2, <2>3 DEF used, asked
  <1>4. CASE p >= 75 /\ p < 100
    <2>1. used = Level(3, 1)  BY <1>4 DEF FactorLevel, SYNC_MAX
    <2> HIDE DEF used
    <2>4. QED  BY <2>1, <1>1, <1>2, <1>4, Order DEF used, asked
  <1>5. CASE p <= 25
    <2>1. used = Level(1, 3)  BY <1>5 DEF FactorLevel, SYNC_MAX
    <2> HIDE DEF used
    <2>2. QED  BY <2>1, <1>1, <1>2, <1>5, Order DEF used, asked
  <1>6. CASE p >= 50 /\ p < 75
    <2> DEFINE q == p \div (100 - p)
    <2>1. q \in 1..2 /\ q * (100 - p) <= p /\ p < (q + 1) * (100 - p)
      <3>1. q \in Nat /\ \A i \in 1..4 : q >= i <=> p >= i * (100 - p)
        BY <1>6, Floors
      <3>2. q >= 1 /\ ~(q >= 3)  BY <3>1, <1>6
      <3>3. q = 1 \/ q = 2  BY <3>1, <3>2
      <3>4. QED  BY <3>1, <3>3, <1>6
    <2>2. AtMost(q, 4) = q  BY <2>1 DEF AtMost
    <2>3. used = Level(q, 1)  BY <1>6, <2>2 DEF FactorLevel, SYNC_MAX
    <2> HIDE DEF used, q
    <2>4. q = 1 \/ q = 2  BY <2>1
    <2>5. CASE q = 1
      BY <2>5, <2>3, <2>1, <1>1, <1>2, <1>6, Order DEF used, asked
    <2>6. CASE q = 2
      BY <2>6, <2>3, <2>1, <1>1, <1>2, <1>6, Order DEF used, asked
    <2>7. QED  BY <2>4, <2>5, <2>6
  <1>7. CASE p > 25 /\ p < 50
    <2> DEFINE q == (100 - p) \div p
    <2>1. q \in 1..2 /\ q * p <= 100 - p /\ 100 - p < (q + 1) * p
      <3>1. q \in Nat /\ \A i \in 1..4 : q >= i <=> 100 - p >= i * p
        BY <1>7, Floors
      <3>2. q >= 1 /\ ~(q >= 3)  BY <3>1, <1>7
      <3>3. q = 1 \/ q = 2  BY <3>1, <3>2
      <3>4. QED  BY <3>1, <3>3, <1>7
    <2>2. AtMost(q, 4) = q  BY <2>1 DEF AtMost
    <2>3. used = Level(1, q)  BY <1>7, <2>2 DEF FactorLevel, SYNC_MAX
    <2> HIDE DEF used, q
    <2>4. q = 1 \/ q = 2  BY <2>1
    <2>5. CASE q = 1
      BY <2>5, <2>3, <2>1, <1>1, <1>2, <1>7, Order DEF used, asked
    <2>6. CASE q = 2
      BY <2>6, <2>3, <2>1, <1>1, <1>2, <1>7, Order DEF used, asked
    <2>7. QED  BY <2>4, <2>5, <2>6
  <1>8. QED  BY <1>3, <1>4, <1>5, <1>6, <1>7
\* The measures are times, and those of a skipped frame are bounded by the others;
\* the levels in use are the last ones computed, or those of the factor.
Measures ==
    /\ step_time \in Nat \ {0} /\ full_time \in Nat /\ skip_time \in Nat
    /\ skip_time <= full_time
    /\ hurry \in BOOLEAN /\ computed \in BOOLEAN /\ percent \in 0..100
    /\ chosen = IF computed THEN Recompute(step_time, full_time, skip_time, hurry)
                            ELSE FactorLevel(percent)

LEMMA MeasuresInit == InitMeasures => Measures
  <1>1. Fixed => Measures
    <2> SUFFICES ASSUME Fixed PROVE Measures
      OBVIOUS
    <2>1. ~computed /\ computed \in BOOLEAN /\ hurry \in BOOLEAN
      BY DEF Fixed
    <2>2. QED
      BY <2>1 DEF Fixed, Measures
  <1>2. Automatic => Measures
    BY BoundAssumption DEF Automatic, Measures, VideoTime
  <1>3. QED
    BY <1>1, <1>2 DEF InitMeasures

LEMMA MeasuresStep == Measures /\ [NextMeasures]_measures => Measures'
  <1> SUFFICES ASSUME Measures, [NextMeasures]_measures PROVE Measures'
    OBVIOUS
  <1>1. CASE Cycle
    BY <1>1, BoundAssumption DEF Cycle, Measures, VideoTime
  <1>2. CASE UNCHANGED measures
    BY <1>2 DEF measures, Measures
  <1>3. QED
    BY <1>1, <1>2 DEF NextMeasures, Keep

LEMMA MeasuresAreRight == Measures => LevelsAreRight
  <1> SUFFICES ASSUME Measures PROVE LevelsAreRight
    OBVIOUS
  <1>1. BestLevel
    BY RecomputeIsBest DEF Measures, BestLevel
  <1>2. FactorIsNear
    BY FactorIsNearest DEF Measures, FactorIsNear
  <1>3. QED
    BY <1>1, <1>2 DEF LevelsAreRight

---------------------------------------------------------------------------

\* Whatever is pressed, measured or restarted, no more than SYNC_MAX frames in a
\* row are not drawn (video_frame_skip()).
THEOREM GapIsBounded == Spec => []GapBounded
  <1>1. Init => Types /\ Gaps
    BY TypesInit, GapsInit
  <1>2. Types /\ Gaps /\ [Next]_vars => (Types /\ Gaps)'
    BY TypesStep, GapsStep
  <1>3. Types /\ Gaps => GapBounded
    BY DEF Types, Numbers, Gaps, Bounded, GapBounded, SYNC_MAX
  <1>4. QED
    BY <1>1, <1>2, <1>3, PTL DEF Spec

\* With no restart going on the vsync is never used outside of the normal speed of a
\* mode that allows it, and without a video thread it is always used there
\* (advance_video_update_sync()).
THEOREM VsyncFollowsSpeed == Spec => []VsyncIsCurrent
  <1>1. Init => Types /\ Vsyncs
    BY TypesInit
       DEF Init, Vsyncs, Cleared, Alternate, Exact, Normal, VideoIdle, At, Quiet, Threads
  <1>2. Types /\ Vsyncs /\ [Next]_vars => (Types /\ Vsyncs)'
    BY TypesStep, VsyncStep
  <1>3. Vsyncs => VsyncIsCurrent
    BY DEF Vsyncs, Cleared, Exact, VsyncIsCurrent, At, Quiet
  <1>4. QED
    BY <1>1, <1>2, <1>3, PTL DEF Spec

\* Without a video thread every wait is as long as the frames it stands for
\* (video_frame_sync()).
THEOREM WaitsAreExact == Spec => []WaitCoversGap
  <1>1. Init => Types /\ Waits
    BY TypesInit DEF Init, Waits, Alternate, Counted, VideoIdle, At, Quiet, Threads
  <1>2. Types /\ Waits /\ [Next]_vars => (Types /\ Waits)'
    BY TypesStep, WaitsStep
  <1>3. Waits => WaitCoversGap
    BY DEF Waits, Alternate, Counted, WaitCoversGap, VideoIdle, At, Quiet
  <1>4. QED
    BY <1>1, <1>2, <1>3, PTL DEF Spec

\* Whatever the measures and the configured factor, the levels in use are the best
\* ones (video_skip_recompute(), advance_video_update_skip()).
THEOREM LevelsFollowMeasures == SpecMeasures => []LevelsAreRight
  <1>1. InitMeasures => Measures
    BY MeasuresInit
  <1>2. Measures /\ [NextMeasures]_measures => Measures'
    BY MeasuresStep
  <1>3. Measures => LevelsAreRight
    BY MeasuresAreRight
  <1>4. QED
    BY <1>1, <1>2, <1>3, PTL DEF SpecMeasures
=============================================================================
