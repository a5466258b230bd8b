----------------------------- MODULE MCPalette -----------------------------
(* Three colors in two words of the dirty map. *)
EXTENDS Palette

CONSTANTS red, green, blue

MCWordOf == [c \in {red, green, blue} |-> IF c = blue THEN 1 ELSE 0]
=============================================================================
