----------------------------- MODULE SkipLevels -----------------------------
(***************************************************************************)
(* The levels of the frame skipping (advance/osd/sync.c): of every cycle   *)
(* of full + skip frames the first full ones are drawn.  Times are whole   *)
(* numbers of a small unit, the configured factor is a percentage.         *)
(***************************************************************************)
EXTENDS Integers

SYNC_MAX == 4

Level(f, s) == [full |-> f, skip |-> s]

\* The levels the manual control steps through, from the fewest frames drawn.
Ladder == {Level(1, s) : s \in 1..SYNC_MAX - 1} \cup {Level(f, 1) : f \in 2..SYNC_MAX - 1}
          \cup {Level(SYNC_MAX, 0)}

AtMost(a, b) == IF a > b THEN b ELSE a

\* advance_video_update_skip(): the levels for display_frameskip.
FactorLevel(factor) ==
    CASE factor >= 100 -> Level(SYNC_MAX, 0)
      [] factor < 100 /\ factor * SYNC_MAX >= 100 * (SYNC_MAX - 1) -> Level(SYNC_MAX - 1, 1)
      [] factor * SYNC_MAX <= 100 -> Level(1, SYNC_MAX - 1)
      [] factor >= 50 /\ factor * SYNC_MAX < 100 * (SYNC_MAX - 1) ->
             Level(AtMost(factor \div (100 - factor), SYNC_MAX), 1)
      [] factor < 50 /\ factor * SYNC_MAX > 100 ->
             Level(1, AtMost((100 - factor) \div factor, SYNC_MAX))

\* advance_video_skip_inc(): one step up, none from the last.
Inc(l) ==
    CASE l.skip > 1 -> Level(1, l.skip - 1)
      [] l.skip <= 1 /\ l.full < SYNC_MAX - 1 -> Level(l.full + 1, 1)
      [] l.skip <= 1 /\ l.full = SYNC_MAX - 1 -> Level(SYNC_MAX, 0)
      [] OTHER -> l

\* advance_video_skip_dec(): one step down, none from the first.
Dec(l) ==
    CASE l.full >= SYNC_MAX -> Level(SYNC_MAX - 1, 1)
      [] l.full > 1 /\ l.full < SYNC_MAX -> Level(l.full - 1, 1)
      [] l.full <= 1 /\ l.skip < SYNC_MAX - 1 -> Level(1, l.skip + 1)
      [] OTHER -> l

\* The frame time is out of reach even with one more skip than the maximum.
TooSlow(step, full, skip) ==
    skip >= step \/ skip * SYNC_MAX + full >= step * (SYNC_MAX + 1)

\* Deliberate bug: rounded down.
CeilLevelDown(a, b) == AtMost(a \div b, SYNC_MAX - 1)

\* floor() and ceil() of a/b, with the limits of video_skip_recompute().
FloorLevel(a, b) == AtMost(a \div b, SYNC_MAX - 1)
CeilLevel(a, b) == AtMost((a + b - 1) \div b, SYNC_MAX - 1)

\* video_skip_recompute(): the levels for the measured times of a frame that
\* is drawn (full) and of one that is skipped (skip); fast is the turbo or the
\* startup, where the speed counts more than the picture.  With full = step an
\* assert of the code fails; the levels are then those of the smallest loss.
Recompute(step, full, skip, fast) ==
    CASE full < step -> Level(SYNC_MAX, 0)
      [] full >= step /\ TooSlow(step, full, skip) ->
             IF fast THEN Level(1, SYNC_MAX - 1) ELSE Level(1, 1)
      [] full >= step /\ ~TooSlow(step, full, skip) ->
             LET lose == full - step
                 gain == step - skip
             IN  IF gain >= lose
                 THEN Level(IF lose = 0 THEN SYNC_MAX - 1 ELSE FloorLevel(gain, lose), 1)
                 ELSE Level(1, CeilLevel(lose, gain))

---------------------------------------------------------------------------
(* What the levels are for. *)

\* With level l the game runs at its speed.
KeepsSpeed(l, step, full, skip) ==
    l.full * full + l.skip * skip <= step * (l.full + l.skip)

\* Of the frames, l draws a smaller share than k.
DrawsLess(l, k) == l.full * (k.full + k.skip) < k.full * (l.full + l.skip)
=============================================================================
