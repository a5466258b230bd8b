------------------------------- MODULE Record -------------------------------
(***************************************************************************)
(* The recording of sound and video and the snapshots: advance/osd/record.c*)
(* with its callers in the two threads.  The emulation thread starts and   *)
(* stops the recordings and asks for the snapshots, from the keys of the   *)
(* user interface, then decides whether the next frame is skipped and      *)
(* gives the current one to the video thread; this one adds to the video,  *)
(* takes the snapshot and adds to the sound, each under access_mutex.      *)
(*                                                                         *)
(* Times are counted in frames.  Any file operation may fail.  A file is   *)
(* absent, partial or saved; numbered names are taken in order.            *)
(***************************************************************************)
EXTENDS Integers, FiniteSetsExt

CONSTANTS
    Second,     \* the frames of a second: no more than these aren't saved
    SoundTime,  \* record_sound_time in frames, 0 for no limit
    VideoTime,  \* record_video_time in frames
    WavMax,     \* the frames of the largest WAV file
    MaxNumber,  \* bound on the numbered names
    MaxPress,   \* bound on the starts
    MaxToggle   \* bound on the changes of the pause

ASSUME RecordAssumption ==
    /\ Second \in Nat /\ SoundTime \in Nat /\ VideoTime \in Nat
    /\ WavMax \in Nat /\ MaxNumber \in Nat /\ MaxPress \in Nat
    /\ MaxToggle \in Nat

VARIABLES
    smp, sound_flag, video_flag, debug_sound, \* the configuration
    files,      \* the files of dir_snap
    sound,      \* context->state.sound
    video,      \* the video_* fields of context->state
    debug,      \* context->state.debug_sound
    debug_failed,
    snap,       \* snapshot_active_flag and snapshot_file_buffer
    pause,      \* pause_flag
    skip,       \* skip the next frame
    press, toggles, \* the starts and the changes of the pause
    mpc, cur,   \* the emulation thread: place and skip flag of its frame
    vpc, vskip  \* the video thread: the same

config == <<smp, sound_flag, video_flag, debug_sound>>
captures == <<debug, debug_failed>>
recordings == <<sound, video>>
count == <<press, toggles>>
main == <<mpc, cur>>
thread == <<vpc, vskip>>
vars == <<config, files, recordings, captures, snap, pause, skip, count, main, thread>>

\* The names: the one of the game, then the numbered ones.
Game == -1
Number == 0..MaxNumber
Name == {Game} \cup Number
File == Name \X {"wav", "mng", "png"}

Wav(n) == <<n, "wav">>
Mng(n) == <<n, "mng">>
Png(n) == <<n, "png">>

\* A recording: active_flag, stopped_flag, the time so far, its file and, to
\* state the properties, the press of the key that started it.  What the fields
\* hold once it is over is never used.
Off == [active |-> FALSE, stopped |-> FALSE, time |-> 0, name |-> Game, press |-> 0]
Fresh(n, p) == [active |-> TRUE, stopped |-> FALSE, time |-> 0, name |-> n, press |-> p]

\* advance_record_video_is_active(); for the sound, the same test is made later.
Running(r) == r.active /\ ~r.stopped

Exists(fs, f) == fs[f] # "absent"
Remove(fs, f) == [fs EXCEPT ![f] = "absent"]

Init ==
    /\ smp \in BOOLEAN /\ sound_flag \in BOOLEAN
    /\ video_flag \in BOOLEAN /\ debug_sound \in BOOLEAN
    /\ \E old \in {{}, {Wav(Game), Mng(0), Png(Game)}} :   \* of earlier sessions
           files = [f \in File |-> IF f \in old THEN "saved" ELSE "absent"]
    /\ sound = Off /\ video = Off /\ debug = Off /\ debug_failed = FALSE
    /\ snap = {} /\ pause = FALSE /\ skip = FALSE
    /\ press = 0 /\ toggles = 0
    /\ mpc = "ui" /\ cur = FALSE /\ vpc = "idle" /\ vskip = FALSE

---------------------------------------------------------------------------
(* The operations on a recording r and its file, with the extension ext:   *)
(* the sets of their outcomes <<r, files>>.                                *)

\* sound_start(), video_start(): refused if active; the file can't be opened,
\* or its header can't be written.
Start(r, fs, n, ext) ==
    IF r.active THEN {<<r, fs>>}
    ELSE {<<Fresh(n, press + 1), [fs EXCEPT ![<<n, ext>>] = "partial"]>>,
          <<Off, fs>>,
          <<Off, Remove(fs, <<n, ext>>)>>}

\* sound_cancel(), video_cancel()
Cancel(r, fs, ext) ==
    IF r.active THEN <<Off, Remove(fs, <<r.name, ext>>)>> ELSE <<r, fs>>

\* Deliberate bug: what was written before an error is left.
UpdateLeaves(r, fs, ext, full) ==
    IF ~Running(r) THEN {<<r, fs>>}
    ELSE IF full \/ (ext = "wav" /\ r.time + 1 > WavMax)
    THEN {<<[r EXCEPT !.stopped = TRUE], fs>>}
    ELSE {<<[r EXCEPT !.time = @ + 1], fs>>, <<Off, fs>>}

\* sound_update(), video_update(): the recording is full, or one frame longer,
\* or cancelled by an error.
Update(r, fs, ext, full) ==
    IF ~Running(r) THEN {<<r, fs>>}
    ELSE IF full \/ (ext = "wav" /\ r.time + 1 > WavMax)
    THEN {<<[r EXCEPT !.stopped = TRUE], fs>>}
    ELSE {<<[r EXCEPT !.time = @ + 1], fs>>, Cancel(r, fs, ext)}

\* sound_stop(), video_stop(): the end of the file can't be written.
Stop(r, fs, ext) ==
    IF r.active
    THEN {<<Off, [fs EXCEPT ![<<r.name, ext>>] = "saved"]>>, Cancel(r, fs, ext)}
    ELSE {<<r, fs>>}

\* advance_record_terminate(): no more than a second isn't saved.
Terminate(r, fs, ext) ==
    IF r.time > Second THEN Stop(r, fs, ext) ELSE {Cancel(r, fs, ext)}

---------------------------------------------------------------------------
(* The names. *)

\* Deliberate bug: only the sound is looked for.
FreeSound(fs, n, exts) == ~Exists(fs, <<n, "wav">>)

Free(fs, n, exts) == \A ext \in exts : ~Exists(fs, <<n, ext>>)

\* Within the bound on the numbers there is a name.
HasNext(fs, exts) == \E n \in Number : Free(fs, n, exts)

\* advance_record_next(), advance_snapshot_next(): the name of the game unless it
\* is reserved, or the first number.
NextName(fs, exts, reserved) ==
    IF ~reserved /\ Free(fs, Game, exts) THEN Game
    ELSE Min({n \in Number : Free(fs, n, exts)})

---------------------------------------------------------------------------
(* The emulation thread; without smp the previous frame is over.           *)

AtKeys == mpc = "ui" /\ (smp \/ vpc = "idle")

\* Deliberate bug: a recording in progress is not cancelled.
RecordStartOver ==
    /\ AtKeys /\ press < MaxPress /\ HasNext(files, {"wav", "mng"})
    /\ \E s \in IF sound_flag THEN Start(sound, files, NextName(files, {"wav", "mng"}, debug_sound), "wav")
                ELSE {<<sound, files>>} :
           \E v \in IF video_flag THEN Start(video, s[2], NextName(files, {"wav", "mng"}, debug_sound), "mng")
                    ELSE {<<video, s[2]>>} :
               sound' = s[1] /\ video' = v[1] /\ files' = v[2]
    /\ press' = press + 1
    /\ UNCHANGED <<config, captures, snap, pause, skip, toggles, main, thread>>

\* osd_record_start(): what is in progress is cancelled, then both start.
RecordStart ==
    /\ AtKeys /\ press < MaxPress
    /\ LET s0 == Cancel(sound, files, "wav")
           v0 == Cancel(video, s0[2], "mng")
           n == NextName(v0[2], {"wav", "mng"}, debug_sound)
       IN  /\ HasNext(v0[2], {"wav", "mng"})
           /\ \E s \in IF sound_flag THEN Start(s0[1], v0[2], n, "wav") ELSE {<<s0[1], v0[2]>>} :
                  \E v \in IF video_flag THEN Start(v0[1], s[2], n, "mng") ELSE {<<v0[1], s[2]>>} :
                      sound' = s[1] /\ video' = v[1] /\ files' = v[2]
    /\ press' = press + 1
    /\ UNCHANGED <<config, captures, snap, pause, skip, toggles, main, thread>>

\* osd_record_stop()
RecordStop ==
    /\ AtKeys
    /\ \E s \in Terminate(sound, files, "wav") : \E v \in Terminate(video, s[2], "mng") :
           sound' = s[1] /\ video' = v[1] /\ files' = v[2]
    /\ UNCHANGED <<config, captures, snap, pause, skip, count, main, thread>>

\* osd_save_snapshot(): the name is chosen now, a snapshot that waits is forgotten.
SaveSnapshot ==
    /\ AtKeys /\ HasNext(files, {"png"})
    /\ snap' = {NextName(files, {"png"}, FALSE)}
    /\ UNCHANGED <<config, files, recordings, captures, pause, skip, count, main, thread>>

\* osd2_video_pause(), without the lock.
Pause ==
    /\ AtKeys /\ toggles < MaxToggle
    /\ pause' = ~pause /\ toggles' = toggles + 1
    /\ UNCHANGED <<config, files, recordings, captures, snap, skip, press, main, thread>>

\* Deliberate bug: a recording doesn't stop the frame skip.
SkipSnapshotOnly ==
    /\ AtKeys /\ mpc' = "post" /\ cur' = skip
    /\ skip' \in IF snap # {} THEN {FALSE} ELSE BOOLEAN
    /\ UNCHANGED <<config, files, recordings, captures, snap, pause, count, thread>>

\* Deliberate bug: a snapshot doesn't stop the frame skip.
SkipVideoOnly ==
    /\ AtKeys /\ mpc' = "post" /\ cur' = skip
    /\ skip' \in IF Running(video) THEN {FALSE} ELSE BOOLEAN
    /\ UNCHANGED <<config, files, recordings, captures, snap, pause, count, thread>>

\* advance_video_skip(): the next frame is drawn if it is recorded.
Skip ==
    /\ AtKeys /\ mpc' = "post" /\ cur' = skip
    /\ skip' \in IF Running(video) \/ snap # {} THEN {FALSE} ELSE BOOLEAN
    /\ UNCHANGED <<config, files, recordings, captures, snap, pause, count, thread>>

\* The frame is given to the video thread when it is free.
Post ==
    /\ mpc = "post" /\ vpc = "idle"
    /\ vskip' = cur /\ vpc' = (IF cur THEN "sound" ELSE "video") /\ mpc' = "ui"
    /\ UNCHANGED <<config, files, recordings, captures, snap, pause, skip, count, cur>>

\* advance_record_done(), after the game and the video thread: the debug capture
\* is kept, the rest is cancelled.
Done ==
    /\ AtKeys /\ vpc = "idle"
    /\ \E d \in Stop(debug, files, "wav") :
           LET s == Cancel(sound, d[2], "wav")
               v == Cancel(video, s[2], "mng")
           IN  debug' = d[1] /\ sound' = s[1] /\ video' = v[1] /\ files' = v[2]
    /\ mpc' = "end"
    /\ UNCHANGED <<config, debug_failed, snap, pause, skip, count, cur, thread>>

---------------------------------------------------------------------------
(* The video thread: a frame that is not skipped, then the sound of all.   *)

\* advance_record_video_update()
VideoUpdate ==
    /\ vpc = "video" /\ vpc' = "snap"
    /\ \E v \in IF pause THEN {<<video, files>>}
                ELSE Update(video, files, "mng", video.time >= VideoTime) :
           video' = v[1] /\ files' = v[2]
    /\ UNCHANGED <<config, sound, captures, snap, pause, skip, count, main, vskip>>

\* advance_record_snapshot_update(): the file is not opened, or is removed if it
\* can't be written.
SnapshotUpdate ==
    /\ vpc = "snap" /\ vpc' = "sound"
    /\ IF pause THEN UNCHANGED <<snap, files>>
       ELSE /\ snap' = {}
            /\ \/ UNCHANGED files
               \/ \E n \in snap, is \in {"saved", "absent"} : files' = [files EXCEPT ![Png(n)] = is]
    /\ UNCHANGED <<config, recordings, captures, pause, skip, count, main, vskip>>

\* The debug capture starts at its frame and goes on until an error.
DebugUpdate(fs) ==
    IF ~debug_sound \/ debug_failed THEN {<<debug, fs>>}
    ELSE UNION {IF d[1].active THEN Update(d[1], d[2], "wav", FALSE) ELSE {d} :
                d \in Start(debug, fs, Game, "wav")}

\* advance_record_sound_update()
SoundUpdate ==
    /\ vpc = "sound" /\ vpc' = "idle"
    /\ \/ pause /\ UNCHANGED <<sound, captures, files>>
       \/ /\ ~pause
          /\ \E s \in Update(sound, files, "wav", SoundTime # 0 /\ sound.time >= SoundTime) :
                 /\ sound' = s[1]
                 /\ \/ \E d \in DebugUpdate(s[2]) :
                           /\ debug' = d[1] /\ files' = d[2]
                           /\ debug_failed' = (debug_failed \/ (debug_sound /\ ~d[1].active))
                    \/ ~debug.active /\ files' = s[2] /\ UNCHANGED captures
    /\ UNCHANGED <<config, video, snap, pause, skip, count, main, vskip>>

---------------------------------------------------------------------------

Main == RecordStart \/ RecordStop \/ SaveSnapshot \/ Pause \/ Skip \/ Post \/ Done
Video == VideoUpdate \/ SnapshotUpdate \/ SoundUpdate

Ended == mpc = "end" /\ UNCHANGED vars

Next == Main \/ Video \/ Ended

Spec == Init /\ [][Next]_vars

\* The emulation goes on computing frames, and the video thread performing them.
Fairness == WF_vars(Skip) /\ WF_vars(Post) /\ WF_vars(Video)

FairSpec == Spec /\ Fairness

---------------------------------------------------------------------------
(* What was saved is neither written again nor removed by what is recorded *)
(* after it, whatever was there before; but the debug capture always has   *)
(* the name of the game (advance_record_next(), advance_snapshot_next()).  *)
SavedIsKept ==
    [][\A f \in File :
          files[f] = "saved" /\ ~(debug_sound /\ f = Wav(Game)) => files'[f] = "saved"]_files

Writers(f) == {r \in {<<"sound", sound, "wav">>, <<"debug", debug, "wav">>, <<"video", video, "mng">>} :
                  r[2].active /\ f = <<r[2].name, r[3]>>}

(* A file that is not whole is being written by one recording: an error, a *)
(* new start, a clip too short or the exit leave none behind, and the      *)
(* debug capture shares its file with no clip (advance/osd/record.c:468).  *)
FilesAreOwned ==
    \A f \in File : Cardinality(Writers(f)) = IF files[f] = "partial" THEN 1 ELSE 0

(* "If you press the start key more than one time the recording starts     *)
(* from the last press" (doc/advmame.d:1923).                              *)
FromLastPress == \A r \in {sound, video} : r.active => r.press = press

(* A clip has as much sound as video: no frame is skipped but those decided*)
(* before the start, one or with smp two.  With smp the pause isn't        *)
(* synchronized with the video thread and may tear a frame each time.      *)
InStep ==
    Running(sound) /\ Running(video) /\ vpc = "idle" =>
        sound.time - video.time \in IF smp THEN -toggles..2 + toggles ELSE 0..1

(* A snapshot is taken, even if frames were being skipped, if the game     *)
(* doesn't stay in pause and goes on (advance_video_skip()).               *)
SnapshotIsTaken == <>[]~pause => (snap # {} ~> snap = {} \/ mpc = "end")
=============================================================================
