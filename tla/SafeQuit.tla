------------------------------ MODULE SafeQuit ------------------------------
(***************************************************************************)
(* advance/osd/safequit.c: the events of a game, recognised by comparing   *)
(* bytes of its memory with the entries of event.dat, once in each frame.  *)
(* Two of them, zerocoin and demomode, allow to leave the game without a   *)
(* confirmation (advance_input_exit_filter()) and mute it; they have to    *)
(* last for one second.  The others start and stop scripts.                *)
(***************************************************************************)
EXTENDS Naturals

CONSTANTS
    Entry,      \* the entries that event.dat may have for a game
    EventOf,    \* the event of each entry
    Games,      \* the sets of entries of the games
    Fps         \* mame_ui_frames_per_second()

Event == {EventOf[e] : e \in Entry}
Quit == {"zerocoin", "demomode"}

ASSUME FpsAssumption == Fps \in Nat
ASSUME EntryAssumption == Games \subseteq SUBSET Entry /\ Quit \subseteq Event

VARIABLES
    safe_exit_flag,     \* misc_safequit
    entry_map,          \* the entries of this game
    frame_count,        \* of each entry
    status,             \* the events that are on
    calm                \* history: the last updates, in a row, in which every
                        \* delayed entry matched; no more than Fps + 1 are counted

safeConfig == <<safe_exit_flag, entry_map>>
safeVars == <<safeConfig, frame_count, status, calm>>

\* The entries for which advance_safequit_event() delays the event.
Delayed == {e \in entry_map : EventOf[e] \in Quit}

\* advance_safequit_config_load() and advance_safequit_inner_init()
SafeInit ==
    /\ safe_exit_flag \in BOOLEAN
    /\ entry_map \in Games
    /\ frame_count = [e \in Entry |-> 0]
    /\ status = {}
    /\ calm = 0

\* An entry that matches and has lasted enough, if it has to.
Lasts(e, match) == e \in match /\ (e \in Delayed => frame_count[e] >= Fps)

\* Deliberate bug: the count of an entry is not cleared when it doesn't match.
CountedOn(match) ==
    [e \in Entry |->
        IF e \in match \cap Delayed /\ frame_count[e] < Fps
        THEN frame_count[e] + 1 ELSE frame_count[e]]

\* advance_safequit_event(): the count of each entry.
Counted(match) ==
    [e \in Entry |->
        IF e \notin match THEN 0
        ELSE IF e \in Delayed /\ frame_count[e] < Fps THEN frame_count[e] + 1
        ELSE frame_count[e]]

\* advance_safequit_event() for all the entries: they clear the events.
Status(match) ==
    IF entry_map = {} THEN {}
    ELSE {v \in Event : \A e \in entry_map : EventOf[e] = v => Lasts(e, match)}

\* advance_safequit_update(), with the entries that match the memory of the game.
SafeUpdate(match) ==
    /\ status' = Status(match)
    /\ frame_count' = Counted(match)
    /\ calm' = (IF ~(Delayed \subseteq match) THEN 0
                ELSE IF calm > Fps THEN calm ELSE calm + 1)
    /\ UNCHANGED safeConfig

\* advance_safequit_can_exit()
CanExit == ~safe_exit_flag \/ (entry_map # {} /\ Quit \subseteq status)

---------------------------------------------------------------------------
(* The game is left without asking exactly when all that event.dat says of *)
(* its demo mode has been true for more than one second, without a break:  *)
(* the counts of the entries, that start in different frames, are neither  *)
(* early nor late.  (A game whose entries are only for scripts has nothing *)
(* to wait for.)                                                           *)
SafeAfterASecond ==
    safe_exit_flag /\ Delayed # {} => (CanExit <=> calm > Fps)
=============================================================================
