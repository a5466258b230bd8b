---------------------------- MODULE DisplayProofs ----------------------------
(***************************************************************************)
(* Proofs about what a frame needs of the display: its video mode, for any *)
(* configurations, modes and choice of the mode of a configuration; and    *)
(* its colors, without the video thread, for any palette and any number of *)
(* changes.                                                                *)
(*                                                                         *)
(* VideoMode: until an update meets a mode that differs from the current   *)
(* one, the previous configuration is entirely in force (Switching); from  *)
(* there on the inputs are disabled, and since the two modes differ, no    *)
(* path leads back to the run but the one that sets the mode and enables   *)
(* all the inputs again (Setting).                                         *)
(*                                                                         *)
(* Palette: osd2_palette() and video_frame_palette() each go through the   *)
(* words of the dirty map; a color that is stale on the screen is always   *)
(* in its word, or still ahead of the one that works: in the words that    *)
(* osd2_palette() has not reached, or in the colors just read from a word. *)
(***************************************************************************)
EXTENDS VideoMode, Palette, FiniteSetTheorems, TLAPS

---------------------------------------------------------------------------
(* VideoMode *)

InForce(c) == mode_flag /\ active /\ mode = ModeOf[c] /\ enabled = Input

Lost == enabled = {} /\ (mode_flag => mode # ModeOf[old_config])

NothingSet == ~mode_flag /\ ~active /\ enabled = {} /\ pipeline = NoConfig

\* The choice of the mode and the test of the current one.
Switching ==
    at \in {"select", "update"} =>
        /\ caller = "init" => NothingSet /\ (at = "select" => ~colors)
        /\ caller = "update" => InForce(old_config)
        /\ caller = "retry" => config = old_config /\ (InForce(old_config) \/ Lost)
        /\ at = "update" => ModeOf[config] \in Mode

\* The steps from a closed mode to a mode with all its inputs.
Setting ==
    /\ at \in {"set", "keyb", "mouse", "joystick"} =>
        /\ caller = "update" => ModeOf[config] # ModeOf[old_config]
        /\ caller # "retry"
        /\ ModeOf[config] \in Mode
        /\ pipeline = NoConfig
    /\ at = "set" => ~mode_flag /\ enabled = {}
    /\ at \in Input => mode_flag /\ active /\ mode = ModeOf[config]
    /\ at = "keyb" => enabled = {}
    /\ at = "mouse" => enabled = {"keyb"}
    /\ at = "joystick" => enabled = {"keyb", "mouse"}

Failing ==
    /\ at = "fail" =>
        /\ caller = "init" => NothingSet /\ (colors => ModeOf[config] # NoMode)
        /\ caller = "update" => InForce(old_config) \/ Lost
    /\ at = "undo" => mode_flag /\ active /\ enabled = {}

Running ==
    /\ at = "wait" => InForce(old_config)
    /\ at = "quit" => mode_flag /\ active /\ enabled = {}

Drawing ==
    drawing # NoMode =>
        at \in {"run", "wait", "quit"} /\ mode_flag /\ active /\ mode = drawing

\* The inductive invariant.
Inv ==
    /\ TypeOK /\ Switching /\ Setting /\ Failing /\ Running /\ Drawing
    /\ ModeInForce /\ PipelineIsCurrent /\ AllReleased

---------------------------------------------------------------------------

LEMMA InvInit == Init => Inv
  <1> SUFFICES ASSUME Init PROVE Inv
    OBVIOUS
  <1>1. TypeOK
    BY ModeAssumption DEF Init, TypeOK, Input
  <1>2. Switching /\ Setting /\ Failing /\ Running /\ Drawing
    BY DEF Init, Switching, Setting, Failing, Running, Drawing, NothingSet, Input
  <1>3. ModeInForce /\ PipelineIsCurrent /\ AllReleased
    BY DEF Init, ModeInForce, PipelineIsCurrent, AllReleased
  <1>4. QED
    BY <1>1, <1>2, <1>3 DEF Inv

\* The types are kept by every step.
LEMMA TypeStep == Inv /\ [Next]_vars => TypeOK'
  <1> SUFFICES ASSUME Inv, [Next]_vars PROVE TypeOK'
    OBVIOUS
  <1> USE ModeAssumption DEF Inv, TypeOK, Goto, Invalidate
  <1>1. CASE SelectMode
    BY <1>1 DEF SelectMode
  <1>2. CASE SameMode
    BY <1>2 DEF SameMode
  <1>3. CASE OtherMode
    BY <1>3 DEF OtherMode, Input
  <1>4. CASE SetMode
    BY <1>4 DEF SetMode, Setting
  <1>5. CASE SetModeFails
    BY <1>5 DEF SetModeFails
  <1>6. ASSUME NEW input \in Input, Enable(input) \/ EnableFails(input) PROVE TypeOK'
    BY <1>6 DEF Enable, EnableFails, After, AfterFailure, Input
  <1>7. CASE InitFails \/ InitUndo
    BY <1>7 DEF InitFails, InitUndo, CloseMode
  <1>8. CASE Retry
    BY <1>8 DEF Retry
  <1>9. CASE Frame \/ MakePipeline \/ FrameEnds
    BY <1>9 DEF Frame, MakePipeline, FrameEnds
  <1>10. CASE Reconfigure \/ Waited
    BY <1>10 DEF Reconfigure, Waited
  <1>11. CASE Quit \/ ModeDone
    BY <1>11 DEF Quit, ModeDone, CloseMode
  <1>12. CASE Ended \/ UNCHANGED vars
    BY <1>12 DEF Ended, vars
  <1>13. QED
    BY <1>1, <1>2, <1>3, <1>4, <1>5, <1>6, <1>7, <1>8, <1>9, <1>10, <1>11, <1>12 DEF Next

\* And so is the rest of the invariant.
LEMMA InvStep == Inv /\ [Next]_vars => Inv'
  <1> SUFFICES ASSUME Inv, [Next]_vars PROVE Inv'
    OBVIOUS
  <1>0. TypeOK'
    BY TypeStep
  <1> USE ModeAssumption DEF Inv, TypeOK, Goto, Invalidate, InForce, Lost, NothingSet, Input, NoConfig
  <1>1. CASE SelectMode
    <2>1. Switching'
      BY <1>1 DEF SelectMode, Switching, Setting, Failing, Running, Drawing, ModeInForce, PipelineIsCurrent, AllReleased
    <2>2. Setting' /\ Failing'
      BY <1>1 DEF SelectMode, Switching, Setting, Failing, Running, Drawing, ModeInForce, PipelineIsCurrent, AllReleased
    <2>3. Running' /\ Drawing'
      BY <1>1 DEF SelectMode, Switching, Setting, Failing, Running, Drawing, ModeInForce, PipelineIsCurrent, AllReleased
    <2>4. ModeInForce' /\ PipelineIsCurrent' /\ AllReleased'
      BY <1>1 DEF SelectMode, Switching, Setting, Failing, Running, Drawing, ModeInForce, PipelineIsCurrent, AllReleased
    <2>5. QED
      BY <1>0, <2>1, <2>2, <2>3, <2>4
  <1>2. CASE SameMode
    <2>1. Switching'
      BY <1>2 DEF SameMode, Switching, Setting, Failing, Running, Drawing, ModeInForce, PipelineIsCurrent, AllReleased
    <2>2. Setting' /\ Failing'
      BY <1>2 DEF SameMode, Switching, Setting, Failing, Running, Drawing, ModeInForce, PipelineIsCurrent, AllReleased
    <2>3. Running' /\ Drawing'
      BY <1>2 DEF SameMode, Switching, Setting, Failing, Running, Drawing, ModeInForce, PipelineIsCurrent, AllReleased
    <2>4. ModeInForce' /\ PipelineIsCurrent' /\ AllReleased'
      BY <1>2 DEF SameMode, Switching, Setting, Failing, Running, Drawing, ModeInForce, PipelineIsCurrent, AllReleased
    <2>5. QED
      BY <1>0, <2>1, <2>2, <2>3, <2>4
  <1>3. CASE OtherMode
    <2>1. Switching'
      BY <1>3 DEF OtherMode, Switching, Setting, Failing, Running, Drawing, ModeInForce, PipelineIsCurrent, AllReleased
    <2>2. Setting' /\ Failing'
      BY <1>3 DEF OtherMode, Switching, Setting, Failing, Running, Drawing, ModeInForce, PipelineIsCurrent, AllReleased
    <2>3. Running' /\ Drawing'
      BY <1>3 DEF OtherMode, Switching, Setting, Failing, Running, Drawing, ModeInForce, PipelineIsCurrent, AllReleased
    <2>4. ModeInForce' /\ PipelineIsCurrent' /\ AllReleased'
      BY <1>3 DEF OtherMode, Switching, Setting, Failing, Running, Drawing, ModeInForce, PipelineIsCurrent, AllReleased
    <2>5. QED
      BY <1>0, <2>1, <2>2, <2>3, <2>4
  <1>4. CASE SetMode
    <2>1. Switching'
      BY <1>4 DEF SetMode, Switching, Setting, Failing, Running, Drawing, ModeInForce, PipelineIsCurrent, AllReleased
    <2>2. Setting' /\ Failing'
      BY <1>4 DEF SetMode, Switching, Setting, Failing, Running, Drawing, ModeInForce, PipelineIsCurrent, AllReleased
    <2>3. Running' /\ Drawing'
      BY <1>4 DEF SetMode, Switching, Setting, Failing, Running, Drawing, ModeInForce, PipelineIsCurrent, AllReleased
    <2>4. ModeInForce' /\ PipelineIsCurrent' /\ AllReleased'
      BY <1>4 DEF SetMode, Switching, Setting, Failing, Running, Drawing, ModeInForce, PipelineIsCurrent, AllReleased
    <2>5. QED
      BY <1>0, <2>1, <2>2, <2>3, <2>4
  <1>5. CASE SetModeFails
    <2>1. Switching'
      BY <1>5 DEF SetModeFails, Switching, Setting, Failing, Running, Drawing, ModeInForce, PipelineIsCurrent, AllReleased
    <2>2. Setting' /\ Failing'
      BY <1>5 DEF SetModeFails, Switching, Setting, Failing, Running, Drawing, ModeInForce, PipelineIsCurrent, AllReleased
    <2>3. Running' /\ Drawing'
      BY <1>5 DEF SetModeFails, Switching, Setting, Failing, Running, Drawing, ModeInForce, PipelineIsCurrent, AllReleased
    <2>4. ModeInForce' /\ PipelineIsCurrent' /\ AllReleased'
      BY <1>5 DEF SetModeFails, Switching, Setting, Failing, Running, Drawing, ModeInForce, PipelineIsCurrent, AllReleased
    <2>5. QED
      BY <1>0, <2>1, <2>2, <2>3, <2>4
  <1>6. ASSUME NEW input \in Input, Enable(input) \/ EnableFails(input) PROVE Inv'
    <2>1. Switching'
      BY <1>6 DEF Enable, EnableFails, After, AfterFailure, Switching, Setting, Failing, Running, Drawing, ModeInForce, PipelineIsCurrent, AllReleased
    <2>2. Setting' /\ Failing'
      BY <1>6 DEF Enable, EnableFails, After, AfterFailure, Switching, Setting, Failing, Running, Drawing, ModeInForce, PipelineIsCurrent, AllReleased
    <2>3. Running' /\ Drawing'
      BY <1>6 DEF Enable, EnableFails, After, AfterFailure, Switching, Setting, Failing, Running, Drawing, ModeInForce, PipelineIsCurrent, AllReleased
    <2>4. ModeInForce' /\ PipelineIsCurrent' /\ AllReleased'
      BY <1>6 DEF Enable, EnableFails, After, AfterFailure, Switching, Setting, Failing, Running, Drawing, ModeInForce, PipelineIsCurrent, AllReleased
    <2>5. QED
      BY <1>0, <2>1, <2>2, <2>3, <2>4
  <1>7. CASE InitFails
    <2>1. Switching' /\ Setting' /\ Failing'
      BY <1>7 DEF InitFails, Switching, Setting, Failing
    <2>2. Running' /\ Drawing'
      BY <1>7 DEF InitFails, Switching, Setting, Failing, Running, Drawing
    <2>3. ModeInForce' /\ PipelineIsCurrent'
      BY <1>7 DEF InitFails, ModeInForce, PipelineIsCurrent
    <2>4. AllReleased'
      BY <1>7 DEF InitFails, Failing, AllReleased
    <2>5. QED
      BY <1>0, <2>1, <2>2, <2>3, <2>4
  <1>8. CASE InitUndo
    <2>1. Switching' /\ Setting' /\ Failing'
      BY <1>8 DEF InitUndo, CloseMode, Switching, Setting, Failing
    <2>2. Running' /\ Drawing'
      BY <1>8 DEF InitUndo, CloseMode, Switching, Setting, Failing, Running, Drawing
    <2>3. ModeInForce' /\ PipelineIsCurrent'
      BY <1>8 DEF InitUndo, CloseMode, ModeInForce, PipelineIsCurrent
    <2>4. AllReleased'
      BY <1>8 DEF InitUndo, CloseMode, Failing, AllReleased
    <2>5. QED
      BY <1>0, <2>1, <2>2, <2>3, <2>4
  <1>9. CASE Retry
    <2>1. Switching'
      BY <1>9 DEF Retry, Switching, Setting, Failing, Running, Drawing, ModeInForce, PipelineIsCurrent, AllReleased
    <2>2. Setting' /\ Failing'
      BY <1>9 DEF Retry, Switching, Setting, Failing, Running, Drawing, ModeInForce, PipelineIsCurrent, AllReleased
    <2>3. Running' /\ Drawing'
      BY <1>9 DEF Retry, Switching, Setting, Failing, Running, Drawing, ModeInForce, PipelineIsCurrent, AllReleased
    <2>4. ModeInForce' /\ PipelineIsCurrent' /\ AllReleased'
      BY <1>9 DEF Retry, Switching, Setting, Failing, Running, Drawing, ModeInForce, PipelineIsCurrent, AllReleased
    <2>5. QED
      BY <1>0, <2>1, <2>2, <2>3, <2>4
  <1>10. CASE Frame \/ MakePipeline \/ FrameEnds
    <2>1. Switching'
      BY <1>10 DEF Frame, MakePipeline, FrameEnds, Switching, Setting, Failing, Running, Drawing, ModeInForce, PipelineIsCurrent, AllReleased
    <2>2. Setting' /\ Failing'
      BY <1>10 DEF Frame, MakePipeline, FrameEnds, Switching, Setting, Failing, Running, Drawing, ModeInForce, PipelineIsCurrent, AllReleased
    <2>3. Running' /\ Drawing'
      BY <1>10 DEF Frame, MakePipeline, FrameEnds, Switching, Setting, Failing, Running, Drawing, ModeInForce, PipelineIsCurrent, AllReleased
    <2>4. ModeInForce' /\ PipelineIsCurrent' /\ AllReleased'
      BY <1>10 DEF Frame, MakePipeline, FrameEnds, Switching, Setting, Failing, Running, Drawing, ModeInForce, PipelineIsCurrent, AllReleased
    <2>5. QED
      BY <1>0, <2>1, <2>2, <2>3, <2>4
  <1>11. CASE Reconfigure \/ Waited
    <2>1. Switching'
      BY <1>11 DEF Reconfigure, Waited, Switching, Setting, Failing, Running, Drawing, ModeInForce, PipelineIsCurrent, AllReleased
    <2>2. Setting' /\ Failing'
      BY <1>11 DEF Reconfigure, Waited, Switching, Setting, Failing, Running, Drawing, ModeInForce, PipelineIsCurrent, AllReleased
    <2>3. Running' /\ Drawing'
      BY <1>11 DEF Reconfigure, Waited, Switching, Setting, Failing, Running, Drawing, ModeInForce, PipelineIsCurrent, AllReleased
    <2>4. ModeInForce' /\ PipelineIsCurrent' /\ AllReleased'
      BY <1>11 DEF Reconfigure, Waited, Switching, Setting, Failing, Running, Drawing, ModeInForce, PipelineIsCurrent, AllReleased
    <2>5. QED
      BY <1>0, <2>1, <2>2, <2>3, <2>4
  <1>12. CASE Quit \/ ModeDone
    <2>1. Switching'
      BY <1>12 DEF Quit, ModeDone, CloseMode, Switching, Setting, Failing, Running, Drawing, ModeInForce, PipelineIsCurrent, AllReleased
    <2>2. Setting' /\ Failing'
      BY <1>12 DEF Quit, ModeDone, CloseMode, Switching, Setting, Failing, Running, Drawing, ModeInForce, PipelineIsCurrent, AllReleased
    <2>3. Running' /\ Drawing'
      BY <1>12 DEF Quit, ModeDone, CloseMode, Switching, Setting, Failing, Running, Drawing, ModeInForce, PipelineIsCurrent, AllReleased
    <2>4. ModeInForce' /\ PipelineIsCurrent' /\ AllReleased'
      BY <1>12 DEF Quit, ModeDone, CloseMode, Switching, Setting, Failing, Running, Drawing, ModeInForce, PipelineIsCurrent, AllReleased
    <2>5. QED
      BY <1>0, <2>1, <2>2, <2>3, <2>4
  <1>13. CASE Ended \/ UNCHANGED vars
    <2>1. UNCHANGED vars
      BY <1>13 DEF Ended
    <2>2. Switching'
      BY <2>1 DEF vars, Switching
    <2>3. Setting'
      BY <2>1 DEF vars, Setting
    <2>4. Failing'
      BY <2>1 DEF vars, Failing
    <2>5. Running'
      BY <2>1 DEF vars, Running
    <2>6. Drawing'
      BY <2>1 DEF vars, Drawing
    <2>7. ModeInForce'
      BY <2>1 DEF vars, ModeInForce
    <2>8. PipelineIsCurrent'
      BY <2>1 DEF vars, PipelineIsCurrent
    <2>9. AllReleased'
      BY <2>1 DEF vars, AllReleased
    <2>10. QED
      BY <1>0, <2>2, <2>3, <2>4, <2>5, <2>6, <2>7, <2>8, <2>9
  <1>14. QED
    BY <1>1, <1>2, <1>3, <1>4, <1>5, <1>6, <1>7, <1>8, <1>9, <1>10, <1>11, <1>12, <1>13 DEF Next

THEOREM InvHolds == Spec => []Inv
  <1>1. Init => Inv
    BY InvInit
  <1>2. Inv /\ [Next]_vars => Inv'
    BY InvStep
  <1>3. QED
    BY <1>1, <1>2, PTL DEF Spec

---------------------------------------------------------------------------

\* The run only goes on with the mode and the inputs of its configuration
\* (advance_video_reconfigure()).
THEOREM ModeIsInForce == Spec => []ModeInForce
  <1>1. Inv => ModeInForce
    BY DEF Inv, Drawing, ModeInForce
  <1>2. QED
    BY <1>1, InvHolds, PTL

\* The waits of advance_video_reconfigure() and osd2_video_done() keep the mode
\* of a frame while it is drawn.
THEOREM FramesKeepTheirMode == Spec => []DrawnInItsMode
  <1>1. Inv => DrawnInItsMode
    BY DEF Inv, Drawing, DrawnInItsMode
  <1>2. QED
    BY <1>1, InvHolds, PTL

\* vidmode_update() drops a pipeline made too early or too late.
THEOREM PipelinesAreCurrent == Spec => []PipelineIsCurrent
  <1>1. Inv => PipelineIsCurrent
    BY DEF Inv, Drawing, PipelineIsCurrent
  <1>2. QED
    BY <1>1, InvHolds, PTL

\* The undo paths of osd2_video_init() and osd2_video_done() are complete, but
\* for the palette maps of a startup whose mode is refused.
THEOREM NothingIsLeft == Spec => []AllReleased
  <1>1. Inv => AllReleased
    BY DEF Inv, Drawing, AllReleased
  <1>2. QED
    BY <1>1, InvHolds, PTL

---------------------------------------------------------------------------
(* Palette *)

Stale(c) == screen[c] # palette_map[c]
Dirty(c) == c \in palette_dirty_map[WordOf[c]]

\* One thread at a time.
Alternate == vpc # "idle" => mpc = "idle"

\* While osd2_palette() works, the colors it has not marked yet are those of mask.
Marking ==
    /\ mpc \in {"load", "store"} =>
           \A c \in Color : Stale(c) => Dirty(c) \/ (c \in mask /\ WordOf[c] >= mword)
    /\ mpc = "store" => mold = palette_dirty_map[mword]

\* While no thread is in the middle of the words, each stale color is dirty.
Resting ==
    mpc \in {"idle", "map", "wait"} /\ vpc \in {"idle", "flag"} =>
        \A c \in Color : Stale(c) => Dirty(c)

\* The flag says that there are dirty colors to send.
Flagged ==
    /\ mpc \in {"map", "load", "store"} => palette_dirty_flag
    /\ vpc \in {"idle", "flag"} => \A c \in Color : Stale(c) => palette_dirty_flag

\* While video_frame_palette() works, the colors it has not sent are ahead of it.
Sending ==
    /\ vpc \in {"word", "clear"} => \A c \in Color : Stale(c) => Dirty(c) /\ WordOf[c] >= vword
    /\ vpc = "clear" => vmask = palette_dirty_map[vword]
    /\ vpc = "send" =>
           \A c \in Color : Stale(c) => (Dirty(c) /\ WordOf[c] > vword) \/ c \in vmask

Order == Alternate /\ Marking /\ Resting /\ Flagged /\ Sending

Colors == PaletteTypes /\ Order

\* The words are numbered up to Last.
LEMMA Words == Last \in Nat /\ Word = First..Last
  <1>1. Cardinality(Word) \in Nat /\ Cardinality(Word) # 0
    BY WordAssumption, FS_CardinalityType, FS_EmptySet
  <1>2. QED
    BY <1>1, WordAssumption DEF First, Last

LEMMA TypesInit == InitPalette => PaletteTypes
  <1>1. First \in Word
    BY Words DEF First
  <1>2. 0 \in 0..MaxChange
    BY SmpAssumption
  <1>3. \A w \in Word : ColorsOf(w) \in SUBSET Color
    BY DEF ColorsOf
  <1>4. QED
    BY <1>1, <1>2, <1>3 DEF InitPalette, PaletteTypes

LEMMA TypesStep == PaletteTypes /\ [NextPalette]_paletteVars => PaletteTypes'
  <1> SUFFICES ASSUME PaletteTypes, [NextPalette]_paletteVars PROVE PaletteTypes'
    OBVIOUS
  <1> USE DEF PaletteTypes, data, main, video
  <1>1. /\ First \in Word
        /\ \A w \in Word : w # Last => w + 1 \in Word
        /\ Word \subseteq Nat
    BY Words DEF First
  <1>2. CASE PaletteFlag
    <2>1. changes' \in 0..MaxChange /\ mask' \in SUBSET Color
      BY <1>2, SmpAssumption DEF PaletteFlag
    <2>2. QED
      BY <1>2, <2>1 DEF PaletteFlag
  <1>3. CASE PaletteMap
    BY <1>1, <1>3 DEF PaletteMap
  <1>4. CASE DirtyLoad
    BY <1>4 DEF DirtyLoad
  <1>5. CASE DirtyStore
    <2>1. mold \cup (mask \cap ColorsOf(mword)) \in SUBSET Color
      OBVIOUS
    <2>2. palette_dirty_map' \in [Word -> SUBSET Color]
      BY <1>5, <2>1 DEF DirtyStore
    <2>3. QED
      BY <1>1, <1>5, <2>2 DEF DirtyStore
  <1>6. CASE FrameWithoutChange \/ HandOver
    <2>1. CASE FrameWithoutChange
      BY <2>1 DEF FrameWithoutChange
    <2>2. CASE HandOver
      BY <2>2 DEF HandOver
    <2>3. QED
      BY <1>6, <2>1, <2>2
  <1>7. CASE ModeChange
    BY <1>7, SmpAssumption DEF ModeChange, ColorsOf
  <1>8. CASE TestFlag
    BY <1>1, <1>8 DEF TestFlag
  <1>9. CASE ReadWord
    BY <1>1, <1>9 DEF ReadWord, NextWord
  <1>10. CASE ClearWord
    BY <1>10 DEF ClearWord
  <1>11. CASE SendColors
    BY <1>1, <1>11 DEF SendColors, NextWord
  <1>12. CASE UNCHANGED paletteVars
    BY <1>12 DEF paletteVars
  <1>13. QED
    BY <1>2, <1>3, <1>4, <1>5, <1>6, <1>7, <1>8, <1>9, <1>10, <1>11, <1>12
       DEF NextPalette, MainStep, VideoStep

LEMMA ColorsInit == InitPalette => Colors
  <1>1. InitPalette => Alternate /\ Marking /\ Flagged /\ Sending
    BY DEF InitPalette, Alternate, Marking, Flagged, Sending, Stale
  <1>2. InitPalette => Resting
    BY DEF InitPalette, Resting, Stale
  <1>3. QED
    BY <1>1, <1>2, TypesInit DEF Colors, Order

\* The numbers of the words.
LEMMA Numbers ==
  /\ \A c \in Color : WordOf[c] \in Word
  /\ \A w \in Word : w \in Nat /\ First <= w /\ w <= Last
  /\ \A w \in Word : w # Last => w + 1 \in Word
  /\ First \in Word
  BY Words, WordAssumption DEF First

\* osd2_palette() goes to its next word, or to its end, with the colors before it marked.
LEMMA StoreKeeps ==
  ASSUME Colors, Smp = FALSE, vpc = "idle", DirtyStore
  PROVE  Order'
  <1> USE DEF Stale, Dirty
  <1>1. mword \in Word /\ mpc = "store" /\ mold = palette_dirty_map[mword]
    BY DEF DirtyStore, Colors, Order, Marking, PaletteTypes
  <1>2. /\ palette_dirty_map \in [Word -> SUBSET Color]
        /\ palette_dirty_map' = [palette_dirty_map EXCEPT ![mword] =
                                    palette_dirty_map[mword] \cup (mask \cap ColorsOf(mword))]
        /\ UNCHANGED <<palette_map, screen, palette_dirty_flag, mask, vpc>>
    BY <1>1 DEF DirtyStore, video, Colors, PaletteTypes
  <1>3. palette_dirty_flag
    BY <1>1 DEF Colors, Order, Flagged
  <1>4. ASSUME NEW c \in Color, Stale(c)'
        PROVE  Dirty(c)' \/ (c \in mask /\ WordOf[c] > mword)
    <2>1. WordOf[c] \in Word /\ WordOf[c] \in Nat /\ mword \in Nat
      BY <1>1, Numbers
    <2>2. Dirty(c) \/ (c \in mask /\ WordOf[c] >= mword)
      BY <1>1, <1>2, <1>4 DEF Colors, Order, Marking
    <2>3. CASE Dirty(c)
      BY <1>1, <1>2, <2>1, <2>3
    <2>4. CASE c \in mask /\ WordOf[c] = mword
      <3>1. c \in mask \cap ColorsOf(mword)
        BY <2>4 DEF ColorsOf
      <3>2. QED
        BY <1>1, <1>2, <2>1, <2>4, <3>1
    <2>5. QED
      BY <2>1, <2>2, <2>3, <2>4
  <1>5. CASE mword = Last
    <2>1. mpc' = "wait" /\ mword' = mword
      BY <1>5 DEF DirtyStore
    <2>2. \A c \in Color : Stale(c)' => Dirty(c)'
      BY <1>1, <1>4, <1>5, Numbers
    <2>3. QED
      BY <1>2, <1>3, <2>1, <2>2 DEF Order, Alternate, Marking, Resting, Flagged, Sending
  <1>6. CASE mword # Last
    <2>1. mpc' = "load" /\ mword' = mword + 1
      BY <1>6 DEF DirtyStore
    <2>2. \A c \in Color : Stale(c)' => Dirty(c)' \/ (c \in mask' /\ WordOf[c] >= mword')
      BY <1>1, <1>2, <1>4, <2>1, Numbers
    <2>3. QED
      BY <1>2, <1>3, <2>1, <2>2 DEF Order, Alternate, Marking, Resting, Flagged, Sending
  <1>7. QED
    BY <1>5, <1>6

LEMMA OrderOfMain ==
  ASSUME Colors, Smp = FALSE, MainStep
  PROVE  Order'
  <1>1. vpc = "idle"
    BY DEF MainStep, MainMayRun
  <1> USE DEF Colors, Order, Alternate, Marking, Resting, Flagged, Sending, Stale, Dirty
  <1>2. CASE PaletteFlag
    BY <1>1, <1>2 DEF PaletteFlag, video
  <1>3. CASE PaletteMap
    <2>1. palette_dirty_flag' /\ vpc' = "idle" /\ mpc' = "load" /\ mword' = First
      BY <1>1, <1>3 DEF PaletteMap, video
    <2>2. ASSUME NEW c \in Color, Stale(c)'
          PROVE  Dirty(c)' \/ c \in mask'
      <3>1. palette_map'[c] = IF c \in mask THEN changes ELSE palette_map[c]
        BY <1>3 DEF PaletteMap
      <3>2. QED
        BY <1>1, <1>3, <2>2, <3>1 DEF PaletteMap
    <2>3. \A c \in Color : WordOf[c] >= First
      BY Numbers
    <2>4. QED
      BY <2>1, <2>2, <2>3
  <1>4. CASE DirtyLoad
    BY <1>1, <1>4 DEF DirtyLoad, data, video
  <1>5. CASE DirtyStore
    BY <1>1, <1>5, StoreKeeps
  <1>6. CASE FrameWithoutChange
    BY <1>1, <1>6 DEF FrameWithoutChange, data, video
  <1>7. CASE HandOver
    BY <1>1, <1>7 DEF HandOver, data
  <1>8. CASE ModeChange
    <2>1. \A c \in Color : Dirty(c)'
      BY <1>8, Numbers DEF ModeChange, ColorsOf
    <2>2. QED
      BY <1>1, <1>8, <2>1 DEF ModeChange, main, video
  <1>9. QED
    BY <1>2, <1>3, <1>4, <1>5, <1>6, <1>7, <1>8 DEF MainStep

\* video_frame_palette() goes to its next word, or to its end, with no stale color behind it.
LEMMA AdvanceKeeps ==
  ASSUME Colors, vpc \in {"word", "send"}, mpc' = "idle", NextWord,
         \A c \in Color : Stale(c)' => Dirty(c)' /\ WordOf[c] > vword
  PROVE  Order' /\ (vpc' = "idle" => \A c \in Color : ~Stale(c)')
  <1>1. vword \in Word
    BY DEF Colors, PaletteTypes
  <1> USE DEF Order, Alternate, Marking, Resting, Flagged, Sending
  <1>2. CASE vword = Last
    <2>1. vpc' = "idle" /\ vword' = vword
      BY <1>2 DEF NextWord
    <2>2. \A c \in Color : ~Stale(c)'
      BY <1>1, <1>2, Numbers
    <2>3. QED
      BY <2>1, <2>2
  <1>3. CASE vword # Last
    <2>1. vpc' = "word" /\ vword' = vword + 1
      BY <1>3 DEF NextWord
    <2>2. \A c \in Color : Stale(c)' => Dirty(c)' /\ WordOf[c] >= vword'
      BY <1>1, <2>1, Numbers
    <2>3. QED
      BY <2>1, <2>2
  <1>4. QED
    BY <1>2, <1>3

LEMMA OrderOfVideo ==
  ASSUME Colors, VideoStep
  PROVE  Order' /\ (vpc # "idle" /\ vpc' = "idle" => \A c \in Color : ~Stale(c)')
  <1>1. mpc = "idle" /\ vpc # "idle" /\ vword \in Word
    BY DEF VideoStep, TestFlag, ReadWord, ClearWord, SendColors, Colors, PaletteTypes, Order, Alternate
  <1>2. CASE TestFlag
    <2>1. \A c \in Color : Stale(c) => Dirty(c) /\ palette_dirty_flag
      BY <1>1, <1>2 DEF TestFlag, Colors, Order, Resting, Flagged
    <2>2. \A c \in Color : WordOf[c] >= First
      BY Numbers
    <2>3. QED
      BY <1>1, <1>2, <2>1, <2>2
         DEF TestFlag, main, Order, Alternate, Marking, Resting, Flagged, Sending, Stale, Dirty
  <1>3. CASE ReadWord /\ palette_dirty_map[vword] = {}
    <2>1. NextWord /\ UNCHANGED <<data, main>> /\ vpc = "word"
      BY <1>3 DEF ReadWord
    <2>2. ASSUME NEW c \in Color, Stale(c)
          PROVE  Dirty(c) /\ WordOf[c] > vword
      <3>1. Dirty(c) /\ WordOf[c] >= vword
        BY <2>1, <2>2 DEF Colors, Order, Sending
      <3>2. WordOf[c] # vword
        BY <1>3, <3>1 DEF Dirty
      <3>3. QED
        BY <1>1, <3>1, <3>2, Numbers
    <2>3. \A c \in Color : Stale(c)' => Dirty(c)' /\ WordOf[c] > vword
      BY <2>1, <2>2 DEF data, Stale, Dirty
    <2>4. QED
      BY <1>1, <2>1, <2>3, AdvanceKeeps DEF main
  <1>4. CASE ReadWord /\ palette_dirty_map[vword] # {}
    <2>1. /\ vmask' = palette_dirty_map[vword] /\ vpc' = "clear" /\ vword' = vword
          /\ vpc = "word" /\ UNCHANGED <<data, main>>
      BY <1>4 DEF ReadWord
    <2>2. QED
      BY <1>1, <2>1
         DEF data, main, Colors, Order, Alternate, Marking, Resting, Flagged, Sending, Stale, Dirty
  <1>5. CASE ClearWord
    <2>1. /\ palette_dirty_map \in [Word -> SUBSET Color]
          /\ palette_dirty_map' = [palette_dirty_map EXCEPT ![vword] = {}]
          /\ UNCHANGED <<palette_map, palette_dirty_flag, screen, main, vword, vmask>>
          /\ vpc' = "send" /\ vpc = "clear"
      BY <1>5 DEF ClearWord, Colors, PaletteTypes
    <2>2. ASSUME NEW c \in Color, Stale(c)'
          PROVE  (Dirty(c)' /\ WordOf[c] > vword') \/ c \in vmask'
      <3>1. Dirty(c) /\ WordOf[c] >= vword /\ vmask = palette_dirty_map[vword]
        BY <2>1, <2>2 DEF Colors, Order, Sending, Stale
      <3>2. CASE WordOf[c] = vword
        BY <2>1, <3>1, <3>2 DEF Dirty
      <3>3. CASE WordOf[c] # vword
        <4>1. WordOf[c] > vword /\ WordOf[c] \in Word
          BY <1>1, <3>1, <3>3, Numbers
        <4>2. Dirty(c)'
          BY <2>1, <3>1, <3>3, <4>1 DEF Dirty
        <4>3. QED
          BY <2>1, <4>1, <4>2
      <3>4. QED
        BY <3>2, <3>3
    <2>3. QED
      BY <1>1, <2>1, <2>2 DEF main, Order, Alternate, Marking, Resting, Flagged, Sending
  <1>6. CASE SendColors
    <2>1. /\ screen' = [c \in Color |-> IF c \in vmask THEN palette_map[c] ELSE screen[c]]
          /\ UNCHANGED <<palette_map, palette_dirty_map, palette_dirty_flag, main, vmask>>
          /\ vpc = "send" /\ NextWord
      BY <1>6 DEF SendColors
    <2>2. \A c \in Color : Stale(c)' => Dirty(c)' /\ WordOf[c] > vword
      <3> SUFFICES ASSUME NEW c \in Color, Stale(c)' PROVE Dirty(c)' /\ WordOf[c] > vword
        OBVIOUS
      <3>1. c \notin vmask /\ Stale(c)
        BY <2>1 DEF Stale
      <3>2. Dirty(c) /\ WordOf[c] > vword
        BY <2>1, <3>1 DEF Colors, Order, Sending
      <3>3. QED
        BY <2>1, <3>2 DEF Dirty
    <2>3. QED
      BY <1>1, <2>1, <2>2, AdvanceKeeps DEF main
  <1>7. QED
    BY <1>2, <1>3, <1>4, <1>5, <1>6 DEF VideoStep

LEMMA ColorsStep ==
  ASSUME Smp = FALSE, Colors, [NextPalette]_paletteVars
  PROVE  Colors'
  <1>1. PaletteTypes'
    BY TypesStep DEF Colors
  <1>2. CASE UNCHANGED paletteVars
    BY <1>1, <1>2 DEF paletteVars, data, main, video, Colors, Order, Alternate, Marking, Resting,
                      Flagged, Sending, Stale, Dirty
  <1>3. QED
    BY <1>1, <1>2, OrderOfMain, OrderOfVideo DEF NextPalette, Colors

\* With a color still to be sent palette_dirty_flag is set: video_frame_palette()
\* looks at the words only then.
StaleIsFlagged == AtRest => \A c \in Color : Stale(c) => palette_dirty_flag

\* Without the video thread no color is ever lost between osd2_palette() and
\* video_frame_palette(), whatever the order of changes, skipped frames and modes.
THEOREM StaleAreDirty ==
  ASSUME Smp = FALSE
  PROVE  SpecPalette => [](StaleIsDirty /\ StaleIsFlagged)
  <1>1. Colors => StaleIsDirty
    BY DEF Colors, Order, Resting, StaleIsDirty, AtRest, Stale, Dirty
  <1>2. Colors => StaleIsFlagged
    BY DEF Colors, Order, Flagged, StaleIsFlagged, AtRest
  <1>3. Colors /\ [NextPalette]_paletteVars => Colors'
    BY ColorsStep
  <1>4. QED
    BY <1>1, <1>2, <1>3, ColorsInit, PTL DEF SpecPalette

\* A frame that is drawn has the colors of the game, all of them, when
\* video_frame_palette() returns.
THEOREM FramesHaveTheirColors ==
  ASSUME Smp = FALSE
  PROVE  SpecPalette => DrawnWithItsColors
  <1>1. ASSUME Colors, [NextPalette]_paletteVars, vpc # "idle", vpc' = "idle"
        PROVE  screen' = palette_map'
    <2>1. VideoStep
      BY <1>1 DEF NextPalette, MainStep, MainMayRun, paletteVars, video
    <2>2. \A c \in Color : ~Stale(c)'
      BY <1>1, <2>1, OrderOfVideo
    <2>3. PaletteTypes'
      BY <1>1, TypesStep DEF Colors
    <2>4. QED
      BY <2>2, <2>3 DEF PaletteTypes, Stale
  <1>2. Colors /\ [NextPalette]_paletteVars => [vpc # "idle" /\ vpc' = "idle" => screen' = palette_map']_paletteVars
    BY <1>1
  <1>3. Colors /\ [NextPalette]_paletteVars => Colors'
    BY ColorsStep
  <1>4. QED
    BY <1>2, <1>3, ColorsInit, PTL DEF SpecPalette, DrawnWithItsColors
=============================================================================
