---------------------------- MODULE MCFrameSkip ----------------------------
(* Measures for each of the outcomes of video_skip_recompute().            *)
EXTENDS FrameSkip

Measure(s, f, k) == [step |-> s, full |-> f, skip |-> k]

MCTimes == {Measure(12, 11, 1), Measure(12, 13, 12), Measure(12, 14, 6),
            Measure(12, 18, 10)}
=============================================================================
