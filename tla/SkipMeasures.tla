---------------------------- MODULE SkipMeasures ----------------------------
(***************************************************************************)
(* What the levels of SkipLevels promise, for measures that change from    *)
(* cycle to cycle as they like (advance/osd/estimate.c smooths them, and   *)
(* video_time() bounds the time of a skipped frame by that of a full one). *)
(***************************************************************************)
EXTENDS SkipLevels

CONSTANTS MaxStep, MaxTime  \* bounds on the frame time and on the measures

ASSUME BoundAssumption == MaxStep \in Nat \ {0} /\ MaxTime \in Nat \ {0}

VARIABLES step_time, full_time, skip_time, hurry, \* the arguments of the last computation
          chosen,             \* its result, the levels in use
          computed, percent   \* frameskip_auto_flag and frameskip_factor

measures == <<step_time, full_time, skip_time, hurry, chosen, computed, percent>>

\* video_time(): the measure of a skipped frame, that may be an old one.
VideoTime(f, s) == IF f < s THEN f ELSE s

\* display_frameskip is a factor ...
Fixed ==
    /\ computed = FALSE /\ percent \in 0..100
    /\ step_time = 1 /\ full_time = 0 /\ skip_time = 0 /\ hurry = FALSE
    /\ chosen = FactorLevel(percent)

\* ... or auto, with any first measures.
Automatic ==
    /\ computed = TRUE /\ percent = 100
    /\ step_time \in 1..MaxStep /\ full_time \in 0..MaxTime /\ hurry \in BOOLEAN
    /\ \E s \in 0..MaxTime : skip_time = VideoTime(full_time, s)
    /\ chosen = Recompute(step_time, full_time, skip_time, hurry)

InitMeasures == Fixed \/ Automatic

\* A cycle ends, with measures that changed a little (estimate_merge()).
Cycle ==
    /\ computed /\ hurry' \in BOOLEAN
    /\ full_time' \in (full_time - 1..full_time + 1) \cap 0..MaxTime
    /\ \E s \in (skip_time - 1..skip_time + 1) \cap 0..MaxTime : skip_time' = VideoTime(full_time', s)
    /\ chosen' = Recompute(step_time, full_time', skip_time', hurry')
    /\ UNCHANGED <<step_time, computed, percent>>

\* The levels of a factor stay.
Keep == ~computed /\ UNCHANGED measures

NextMeasures == Cycle \/ Keep
SpecMeasures == InitMeasures /\ [][NextMeasures]_measures

---------------------------------------------------------------------------
(* video_skip_recompute() finds the levels that draw the most among those  *)
(* with which the game keeps its speed, if there is one.                   *)
BestLevel ==
    computed => \A l \in Ladder :
        KeepsSpeed(l, step_time, full_time, skip_time) =>
            /\ KeepsSpeed(chosen, step_time, full_time, skip_time)
            /\ full_time # step_time => ~DrawsLess(chosen, l)

(* display_frameskip asks for a share of drawn frames: no levels lie       *)
(* between that share and the levels that are used.                        *)
FactorIsNear ==
    LET asked == Level(percent, 100 - percent)
    IN  ~computed => \A k \in Ladder :
            /\ ~(DrawsLess(asked, k) /\ DrawsLess(k, chosen))
            /\ ~(DrawsLess(chosen, k) /\ DrawsLess(k, asked))

(* The levels in use are right, computed or configured.                    *)
LevelsAreRight == BestLevel /\ FactorIsNear
=============================================================================
