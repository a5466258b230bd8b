---------------------------- MODULE MCVideoMode ----------------------------
(* Two configurations share a mode, one has a mode of its own, for the last  *)
(* one there is no mode.                                                    *)
EXTENDS VideoMode, TLC

CONSTANTS auto, stretched, other, unsupported, tall, wide, none

MCModeOf == (auto :> tall) @@ (stretched :> tall) @@ (other :> wide)
            @@ (unsupported :> none)
=============================================================================
