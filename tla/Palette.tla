------------------------------ MODULE Palette ------------------------------
(***************************************************************************)
(* The palette of a game with indexed colors: osd2_palette() records the   *)
(* colors that changed (advance/osd/video.c), video_frame_palette() sends  *)
(* them to the video board when a frame is drawn (advance/osd/frame.c).    *)
(*                                                                         *)
(* palette_map, palette_dirty_map and palette_dirty_flag are shared by the *)
(* two threads with no lock: osd2_palette() is called by the emulation     *)
(* before it waits for the previous frame to end.  The hand-off of frames  *)
(* is the one of VideoThread, reduced to what it guarantees: one frame at  *)
(* a time.  A color is the number of the palette change that wrote it.     *)
(***************************************************************************)
EXTENDS Naturals, FiniteSets

CONSTANTS
    Color,      \* the colors of the game
    Word,       \* the words of the dirty map, numbered from 0
    WordOf,     \* the word that holds the bit of a color
    Smp,        \* config.smp_flag: frames are drawn while the game runs
    MaxChange   \* bound on the palette changes

ASSUME WordAssumption ==
    /\ WordOf \in [Color -> Word]
    /\ IsFiniteSet(Word) /\ Word # {} /\ Word = 0..Cardinality(Word) - 1
ASSUME SmpAssumption == Smp \in BOOLEAN /\ MaxChange \in Nat

VARIABLES
    palette_map,        \* the colors of the game
    palette_dirty_map,  \* for each word, the colors to send
    palette_dirty_flag, \* some color has to be sent
    screen,             \* the colors the video board uses
    changes,            \* the palette changes so far
    mpc, mword, mold,   \* emulation thread: place, word and value it ors to
    mask,               \* the colors that change
    vpc, vword, vmask   \* video thread: place, word, its copy m of the word

data == <<palette_map, palette_dirty_map, palette_dirty_flag, screen, changes>>
main == <<mpc, mword, mold, mask>>
video == <<vpc, vword, vmask>>
paletteVars == <<data, main, video>>

ColorsOf(w) == {c \in Color : WordOf[c] = w}
First == 0
Last == Cardinality(Word) - 1

PaletteTypes ==
    /\ palette_map \in [Color -> 0..MaxChange]
    /\ palette_dirty_map \in [Word -> SUBSET Color]
    /\ palette_dirty_flag \in BOOLEAN
    /\ screen \in [Color -> 0..MaxChange] /\ changes \in 0..MaxChange
    /\ mpc \in {"idle", "map", "load", "store", "wait"}
    /\ mword \in Word /\ mold \subseteq Color /\ mask \subseteq Color
    /\ vpc \in {"idle", "flag", "word", "clear", "send"}
    /\ vword \in Word /\ vmask \subseteq Color

\* video_init_color(): black, and everything still to be sent.
InitPalette ==
    /\ palette_map = [c \in Color |-> 0]
    /\ palette_dirty_map = [w \in Word |-> ColorsOf(w)]
    /\ palette_dirty_flag = TRUE
    /\ screen = [c \in Color |-> 0] /\ changes = 0
    /\ mpc = "idle" /\ mword = First /\ mold = {} /\ mask = {}
    /\ vpc = "idle" /\ vword = First /\ vmask = {}

---------------------------------------------------------------------------
(* The emulation thread. *)

\* osd2_palette() with the colors that changed: first the flag ...
PaletteFlag ==
    /\ mpc = "idle" /\ changes < MaxChange
    /\ mask' \in (SUBSET Color) \ {{}}
    /\ changes' = changes + 1
    /\ palette_dirty_flag' = TRUE
    /\ mpc' = "map"
    /\ UNCHANGED <<palette_map, palette_dirty_map, screen, mword, mold, video>>

\* ... then the colors ...
PaletteMap ==
    /\ mpc = "map"
    /\ palette_map' = [c \in Color |-> IF c \in mask THEN changes ELSE palette_map[c]]
    /\ mpc' = "load" /\ mword' = First
    /\ UNCHANGED <<palette_dirty_map, palette_dirty_flag, screen, changes, mold,
                   mask, video>>

\* ... and the dirty words, one by one: |= reads the word and writes it back.
DirtyLoad ==
    /\ mpc = "load"
    /\ mold' = palette_dirty_map[mword]
    /\ mpc' = "store"
    /\ UNCHANGED <<data, mword, mask, video>>

\* Deliberate bug: = in place of |=.
DirtyAssign ==
    /\ mpc = "store"
    /\ palette_dirty_map' =
           [palette_dirty_map EXCEPT ![mword] = mask \cap ColorsOf(mword)]
    /\ IF mword = Last THEN mpc' = "wait" /\ UNCHANGED mword
                       ELSE mpc' = "load" /\ mword' = mword + 1
    /\ UNCHANGED <<palette_map, palette_dirty_flag, screen, changes, mold, mask,
                   video>>

DirtyStore ==
    /\ mpc = "store"
    /\ palette_dirty_map' =
           [palette_dirty_map EXCEPT ![mword] = mold \cup (mask \cap ColorsOf(mword))]
    /\ IF mword = Last THEN mpc' = "wait" /\ UNCHANGED mword
                       ELSE mpc' = "load" /\ mword' = mword + 1
    /\ UNCHANGED <<palette_map, palette_dirty_flag, screen, changes, mold, mask,
                   video>>

\* A frame in which the palette does not change.
FrameWithoutChange ==
    /\ mpc = "idle"
    /\ mpc' = "wait"
    /\ UNCHANGED <<data, mword, mold, mask, video>>

\* osd2_frame(): wait for the previous frame, then hand over this one; if it is
\* skipped no color is sent.  Without smp_flag the drawing is waited for.
HandOver ==
    /\ mpc = "wait" /\ vpc = "idle"
    /\ mpc' = "idle"
    /\ vpc' \in {"idle", "flag"}
    /\ UNCHANGED <<data, mword, mold, mask, vword, vmask>>

\* A new video mode knows no color: video_invalidate_color() marks them all.
ModeChange ==
    /\ mpc = "idle" /\ vpc = "idle"
    /\ screen' = [c \in Color |-> 0]
    /\ palette_dirty_flag' = TRUE
    /\ palette_dirty_map' = [w \in Word |-> ColorsOf(w)]
    /\ UNCHANGED <<palette_map, changes, main, video>>

---------------------------------------------------------------------------
(* The video thread: video_frame_palette(). *)

TestFlag ==
    /\ vpc = "flag"
    /\ IF palette_dirty_flag
       THEN palette_dirty_flag' = FALSE /\ vpc' = "word" /\ vword' = First
       ELSE vpc' = "idle" /\ UNCHANGED <<palette_dirty_flag, vword>>
    /\ UNCHANGED <<palette_map, palette_dirty_map, screen, changes, main, vmask>>

NextWord ==
    IF vword = Last THEN vpc' = "idle" /\ UNCHANGED vword
                    ELSE vpc' = "word" /\ vword' = vword + 1

\* Read a word; one with no bit set is passed over.
ReadWord ==
    /\ vpc = "word"
    /\ IF palette_dirty_map[vword] = {}
       THEN NextWord /\ UNCHANGED vmask
       ELSE vmask' = palette_dirty_map[vword] /\ vpc' = "clear" /\ UNCHANGED vword
    /\ UNCHANGED <<data, main>>

ClearWord ==
    /\ vpc = "clear"
    /\ palette_dirty_map' = [palette_dirty_map EXCEPT ![vword] = {}]
    /\ vpc' = "send"
    /\ UNCHANGED <<palette_map, palette_dirty_flag, screen, changes, main, vword,
                   vmask>>

\* Deliberate bug: one color of the word is forgotten.
SendOneColor ==
    /\ vpc = "send"
    /\ LET one == CHOOSE c \in vmask : TRUE IN
           screen' = [screen EXCEPT ![one] = palette_map[one]]
    /\ NextWord
    /\ UNCHANGED <<palette_map, palette_dirty_map, palette_dirty_flag, changes, main,
                   vmask>>

SendColors ==
    /\ vpc = "send"
    /\ screen' = [c \in Color |-> IF c \in vmask THEN palette_map[c] ELSE screen[c]]
    /\ NextWord
    /\ UNCHANGED <<palette_map, palette_dirty_map, palette_dirty_flag, changes, main,
                   vmask>>

---------------------------------------------------------------------------

\* Without SMP the emulation does not run while a frame is drawn.
MainMayRun == Smp \/ vpc = "idle"

MainStep ==
    /\ MainMayRun
    /\ \/ PaletteFlag \/ PaletteMap \/ DirtyLoad \/ DirtyStore
       \/ FrameWithoutChange \/ HandOver \/ ModeChange

VideoStep == TestFlag \/ ReadWord \/ ClearWord \/ SendColors

NextPalette == MainStep \/ VideoStep

SpecPalette == InitPalette /\ [][NextPalette]_paletteVars /\ WF_paletteVars(VideoStep)

---------------------------------------------------------------------------

AtRest == mpc = "idle" /\ vpc = "idle"

\* A color the video board does not have is never forgotten: it stays in the
\* dirty map, through skipped frames and changes of mode, until it is sent.
StaleIsDirty ==
    AtRest => \A c \in Color :
                  screen[c] # palette_map[c] => c \in palette_dirty_map[WordOf[c]]

\* A frame drawn leaves the screen with the colors of the game.
DrawnWithItsColors ==
    [][vpc # "idle" /\ vpc' = "idle" => screen' = palette_map']_paletteVars
=============================================================================
