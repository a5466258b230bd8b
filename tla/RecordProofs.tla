---------------------------- MODULE RecordProofs ----------------------------
(***************************************************************************)
(* Proofs about Record, for any limits, names and numbers of recordings.   *)
(*                                                                         *)
(* A recording in progress owns its file, that is partial, and no other    *)
(* file is (Own).  A name is taken only if nothing has it, so a recording  *)
(* or a snapshot touches a file that is absent or its own: what is saved   *)
(* stays (Kept).  The exception is the debug capture, that has always the  *)
(* name of the game; with it, no clip gets that name.                      *)
(*                                                                         *)
(* The sound and the video of a clip start together, and from then on no   *)
(* frame is skipped (Together): the difference is that of the frames that  *)
(* were decided before, and of the one the video thread has half done.     *)
(* A change of the pause while it is half done may tear it.                *)
(***************************************************************************)
EXTENDS Record, FiniteSetTheorems, WellFoundedInduction, TLAPS

Status == {"absent", "partial", "saved"}
Recording == [active : BOOLEAN, stopped : BOOLEAN, time : Nat, name : Name, press : Nat]
Ext == {"wav", "mng", "png"}

\* The file of each recording in progress is partial, and no other is.
Own(s, v, d, fs) ==
    /\ s \in Recording /\ v \in Recording /\ d \in Recording
    /\ fs \in [File -> Status]
    /\ s.active => fs[Wav(s.name)] = "partial"
    /\ v.active => fs[Mng(v.name)] = "partial"
    /\ d.active => debug_sound /\ d.name = Game /\ fs[Wav(Game)] = "partial"
    /\ debug_sound /\ s.active => s.name # Game
    /\ \A f \in File : fs[f] = "partial" =>
           \/ s.active /\ f = Wav(s.name)
           \/ v.active /\ f = Mng(v.name)
           \/ d.active /\ f = Wav(Game)

\* What is saved is still there.
Kept(fs, gs) ==
    \A f \in File : fs[f] = "saved" /\ ~(debug_sound /\ f = Wav(Game)) => gs[f] = "saved"

---------------------------------------------------------------------------
(* What an operation does to a recording r with extension ext. *)

\* It goes on, or stays off.
Goes(r, t, fs, gs) == gs = fs /\ t.active = r.active /\ t.name = r.name /\ t.press = r.press

\* It ends, and its file is removed or saved.
Ends(r, t, fs, gs, ext) ==
    /\ r.active /\ ~t.active
    /\ \E is \in {"absent", "saved"} : gs = [fs EXCEPT ![<<r.name, ext>>] = is]

\* It begins with the name n.
Begins(r, t, fs, gs, n, ext) ==
    /\ ~r.active /\ t.active /\ t.name = n /\ t.press = press + 1
    /\ gs = [fs EXCEPT ![<<n, ext>>] = "partial"]

\* It could not begin.
Fails(r, t, fs, gs, n, ext) ==
    /\ ~r.active /\ ~t.active
    /\ gs = [fs EXCEPT ![<<n, ext>>] = "absent"]

LEMMA Names == Game \in Name /\ Number \subseteq Name /\ Game \notin Number
  BY RecordAssumption DEF Game, Number, Name

LEMMA OffIsRecording == Off \in Recording /\ ~Off.active
  BY Names DEF Off, Recording

LEMMA CancelOutcome ==
  ASSUME NEW r \in Recording, NEW fs, NEW ext
  PROVE  LET o == Cancel(r, fs, ext) IN
         /\ o[1] \in Recording /\ ~o[1].active
         /\ Goes(r, o[1], fs, o[2]) \/ Ends(r, o[1], fs, o[2], ext)
  BY OffIsRecording DEF Cancel, Remove, Goes, Ends

LEMMA StopOutcome ==
  ASSUME NEW r \in Recording, NEW fs, NEW ext, NEW o \in Stop(r, fs, ext)
  PROVE  /\ o[1] \in Recording /\ ~o[1].active
         /\ Goes(r, o[1], fs, o[2]) \/ Ends(r, o[1], fs, o[2], ext)
  <1>1. CASE ~r.active
    BY <1>1 DEF Stop, Goes
  <1>2. CASE r.active /\ o = Cancel(r, fs, ext)
    BY <1>2, CancelOutcome
  <1>3. CASE r.active /\ o = <<Off, [fs EXCEPT ![<<r.name, ext>>] = "saved"]>>
    BY <1>3, OffIsRecording DEF Ends
  <1>4. QED
    BY <1>1, <1>2, <1>3 DEF Stop

LEMMA TerminateOutcome ==
  ASSUME NEW r \in Recording, NEW fs, NEW ext, NEW o \in Terminate(r, fs, ext)
  PROVE  /\ o[1] \in Recording /\ ~o[1].active
         /\ Goes(r, o[1], fs, o[2]) \/ Ends(r, o[1], fs, o[2], ext)
  BY CancelOutcome, StopOutcome DEF Terminate

LEMMA UpdateOutcome ==
  ASSUME NEW r \in Recording, NEW fs, NEW ext, NEW full \in BOOLEAN,
         NEW o \in Update(r, fs, ext, full)
  PROVE  /\ o[1] \in Recording
         /\ Goes(r, o[1], fs, o[2]) \/ Ends(r, o[1], fs, o[2], ext)
  <1>1. CASE o = <<r, fs>>
    BY <1>1 DEF Goes
  <1>2. CASE o = <<[r EXCEPT !.stopped = TRUE], fs>>
    BY <1>2 DEF Goes, Recording
  <1>3. CASE o = <<[r EXCEPT !.time = @ + 1], fs>>
    BY <1>3 DEF Goes, Recording
  <1>4. CASE o = Cancel(r, fs, ext)
    BY <1>4, CancelOutcome
  <1>5. QED
    BY <1>1, <1>2, <1>3, <1>4 DEF Update

LEMMA StartOutcome ==
  ASSUME NEW r \in Recording, NEW fs, NEW n \in Name, NEW ext, press \in Nat,
         NEW o \in Start(r, fs, n, ext)
  PROVE  /\ o[1] \in Recording
         /\ \/ Goes(r, o[1], fs, o[2])
            \/ ~r.active /\ ~o[1].active /\ o[2] = fs
            \/ Begins(r, o[1], fs, o[2], n, ext)
            \/ Fails(r, o[1], fs, o[2], n, ext)
  <1>1. CASE r.active
    <2>1. o = <<r, fs>>
      BY <1>1 DEF Start
    <2>2. QED
      BY <2>1 DEF Goes
  <1>2. CASE ~r.active /\ o = <<Fresh(n, press + 1), [fs EXCEPT ![<<n, ext>>] = "partial"]>>
    BY <1>2 DEF Fresh, Recording, Begins
  <1>3. CASE ~r.active /\ o = <<Off, fs>>
    BY <1>3, OffIsRecording
  <1>4. CASE ~r.active /\ o = <<Off, Remove(fs, <<n, ext>>)>>
    BY <1>4, OffIsRecording DEF Fails, Remove
  <1>5. QED
    BY <1>1, <1>2, <1>3, <1>4 DEF Start

\* The ways a recording may change, when it takes the name n.
Change(r, t, fs, gs, n, ext) ==
    \/ Goes(r, t, fs, gs)
    \/ ~r.active /\ ~t.active /\ gs = fs
    \/ Ends(r, t, fs, gs, ext)
    \/ Begins(r, t, fs, gs, n, ext)
    \/ Fails(r, t, fs, gs, n, ext)

\* Only files with extension ext are touched.
Elsewhere(fs, gs, ext) == \A n \in Name, x \in Ext \ {ext} : gs[<<n, x>>] = fs[<<n, x>>]

LEMMA ChangeElsewhere ==
  ASSUME NEW r, NEW t, NEW fs \in [File -> Status], NEW gs, NEW n, NEW ext,
         Change(r, t, fs, gs, n, ext)
  PROVE  Elsewhere(fs, gs, ext)
  <1> USE DEF Elsewhere, File, Ext
  <1>1. CASE gs = fs
    BY <1>1
  <1>2. CASE \E m, is : gs = [fs EXCEPT ![<<m, ext>>] = is]
    <2>1. PICK m, is : gs = [fs EXCEPT ![<<m, ext>>] = is]
      BY <1>2
    <2>2. QED
      BY <2>1
  <1>3. gs = fs \/ \E m, is : gs = [fs EXCEPT ![<<m, ext>>] = is]
    BY DEF Change, Goes, Ends, Begins, Fails
  <1>4. QED
    BY <1>1, <1>2, <1>3

LEMMA KeptIsTransitive ==
  ASSUME NEW fs, NEW gs, NEW hs, Kept(fs, gs), Kept(gs, hs)
  PROVE  Kept(fs, hs)
  BY DEF Kept

---------------------------------------------------------------------------
(* Each of the recordings keeps to its own file. *)

LEMMA SoundOwns ==
  ASSUME NEW s, NEW v, NEW d, NEW fs, NEW t \in Recording, NEW gs, NEW n \in Name,
         Own(s, v, d, fs), Change(s, t, fs, gs, n, "wav"),
         s.active \/ ~t.active \/ (fs[Wav(n)] = "absent" /\ (debug_sound => n # Game)),
         fs[Wav(n)] = "absent" \/ ~Fails(s, t, fs, gs, n, "wav")
  PROVE  Own(t, v, d, gs) /\ Kept(fs, gs)
  <1> USE Names DEF Own, Kept, Recording, File, Wav, Mng, Status
  <1>1. CASE Goes(s, t, fs, gs)
    BY <1>1 DEF Goes
  <1>2. CASE ~s.active /\ ~t.active /\ gs = fs
    BY <1>2
  <1>3. CASE Ends(s, t, fs, gs, "wav")
    BY <1>3, SMTT(20) DEF Ends
  <1>4. CASE Begins(s, t, fs, gs, n, "wav")
    BY <1>4 DEF Begins
  <1>5. CASE Fails(s, t, fs, gs, n, "wav")
    BY <1>5 DEF Fails
  <1>6. QED
    BY <1>1, <1>2, <1>3, <1>4, <1>5 DEF Change

LEMMA VideoOwns ==
  ASSUME NEW s, NEW v, NEW d, NEW fs, NEW t \in Recording, NEW gs, NEW n \in Name,
         Own(s, v, d, fs), Change(v, t, fs, gs, n, "mng"),
         v.active \/ ~t.active \/ fs[Mng(n)] = "absent",
         fs[Mng(n)] = "absent" \/ ~Fails(v, t, fs, gs, n, "mng")
  PROVE  Own(s, t, d, gs) /\ Kept(fs, gs)
  <1> USE Names DEF Own, Kept, Recording, File, Wav, Mng, Status
  <1>1. CASE Goes(v, t, fs, gs)
    BY <1>1 DEF Goes
  <1>2. CASE ~v.active /\ ~t.active /\ gs = fs
    BY <1>2
  <1>3. CASE Ends(v, t, fs, gs, "mng")
    BY <1>3 DEF Ends
  <1>4. CASE Begins(v, t, fs, gs, n, "mng")
    BY <1>4 DEF Begins
  <1>5. CASE Fails(v, t, fs, gs, n, "mng")
    BY <1>5 DEF Fails
  <1>6. QED
    BY <1>1, <1>2, <1>3, <1>4, <1>5 DEF Change

LEMMA DebugOwns ==
  ASSUME NEW s, NEW v, NEW d, NEW fs, NEW t \in Recording, NEW gs,
         Own(s, v, d, fs), Change(d, t, fs, gs, Game, "wav"),
         debug_sound \/ d.active \/ (gs = fs /\ ~t.active)
  PROVE  Own(s, v, t, gs) /\ Kept(fs, gs)
  <1> USE Names DEF Own, Kept, Recording, File, Wav, Mng, Status
  <1>1. CASE Goes(d, t, fs, gs)
    BY <1>1 DEF Goes
  <1>2. CASE ~d.active /\ ~t.active /\ gs = fs
    BY <1>2
  <1>3. CASE Ends(d, t, fs, gs, "wav")
    BY <1>3 DEF Ends
  <1>4. CASE Begins(d, t, fs, gs, Game, "wav")
    BY <1>4 DEF Begins
  <1>5. CASE Fails(d, t, fs, gs, Game, "wav")
    BY <1>5 DEF Fails
  <1>6. QED
    BY <1>1, <1>2, <1>3, <1>4, <1>5 DEF Change

---------------------------------------------------------------------------
(* A name is one that nothing has. *)

\* A set of numbers has a least one.
LEMMA LeastNumber ==
  ASSUME NEW T, T \subseteq Nat, T # {}
  PROVE  Min(T) \in T
  <1> DEFINE R == OpToRel(<, Nat)
  <1>1. IsWellFoundedOn(R, Nat)
    BY NatLessThanWellFounded
  <1>2. \A x, y \in Nat : x < y => <<x, y>> \in R
    BY DEF OpToRel
  <1> HIDE DEF R
  <1>3. PICK n \in T : \A k \in T : ~(<<k, n>> \in R)
    BY <1>1, WFMin
  <1>4. \A k \in T : ~(k < n)
    BY <1>2, <1>3
  <1>5. \A k \in T : n <= k
    BY <1>4
  <1>6. QED
    BY <1>5 DEF Min

LEMMA NextIsFree ==
  ASSUME NEW fs, NEW exts, NEW reserved \in BOOLEAN, HasNext(fs, exts)
  PROVE  LET n == NextName(fs, exts, reserved) IN
         n \in Name /\ Free(fs, n, exts) /\ (reserved => n # Game)
  <1> DEFINE T == {n \in Number : Free(fs, n, exts)}
  <1>1. T \subseteq Nat /\ T # {}
    BY RecordAssumption DEF HasNext, Number
  <1>2. Min(T) \in T
    BY <1>1, LeastNumber
  <1>3. Min(T) \in Name /\ Free(fs, Min(T), exts) /\ Min(T) # Game
    BY <1>2, Names
  <1>4. CASE ~reserved /\ Free(fs, Game, exts)
    BY <1>4, Names DEF NextName
  <1>5. CASE ~(~reserved /\ Free(fs, Game, exts))
    <2>1. NextName(fs, exts, reserved) = Min(T)
      BY <1>5 DEF NextName
    <2>2. QED
      BY <1>3, <2>1
  <1>6. QED
    BY <1>4, <1>5

---------------------------------------------------------------------------
(* The invariant. *)

Flags == sound_flag \in BOOLEAN /\ video_flag \in BOOLEAN /\ debug_sound \in BOOLEAN

\* A snapshot that waits has a name that nothing has.
SnapFree == snap \subseteq Name /\ \A n \in snap : files[Png(n)] = "absent"

Records ==
    /\ Flags /\ press \in Nat
    /\ Own(sound, video, debug, files)
    /\ SnapFree /\ FromLastPress

LEMMA RecordsInit == Init => Records
  <1> SUFFICES ASSUME Init PROVE Records
    OBVIOUS
  <1>1. PICK old \in {{}, {Wav(Game), Mng(0), Png(Game)}} :
            files = [f \in File |-> IF f \in old THEN "saved" ELSE "absent"]
    BY DEF Init
  <1>2. files \in [File -> Status] /\ \A f \in File : files[f] # "partial"
    BY <1>1 DEF Status
  <1>3. Own(sound, video, debug, files)
    BY <1>2, OffIsRecording DEF Init, Own
  <1>4. QED
    BY <1>3, OffIsRecording DEF Init, Records, Flags, SnapFree, FromLastPress

\* The names of the waiting snapshots stay free when no such file is touched.
LEMMA SnapStaysFree ==
  ASSUME NEW fs, NEW gs, NEW ext \in {"wav", "mng"}, Elsewhere(fs, gs, ext),
         NEW names \in SUBSET Name, \A n \in names : fs[Png(n)] = "absent"
  PROVE  \A n \in names : gs[Png(n)] = "absent"
  BY DEF Elsewhere, Png, Ext

\* The sound or the video goes on, ends or is cancelled.
LEMMA SoundRuns ==
  ASSUME NEW s, NEW v, NEW d, NEW fs, NEW t \in Recording, NEW gs, Own(s, v, d, fs),
         Goes(s, t, fs, gs) \/ Ends(s, t, fs, gs, "wav")
  PROVE  Own(t, v, d, gs) /\ Kept(fs, gs) /\ Elsewhere(fs, gs, "wav")
  <1>1. Change(s, t, fs, gs, Game, "wav") /\ fs \in [File -> Status]
    BY DEF Change, Own
  <1>2. ((s.active \/ ~t.active) /\ ~Fails(s, t, fs, gs, Game, "wav")) \/ Goes(s, t, fs, gs)
    BY DEF Goes, Ends, Fails
  <1>3. CASE Goes(s, t, fs, gs)
    BY <1>1, <1>3, ChangeElsewhere, Names DEF Goes, Own, Kept
  <1>4. CASE ~Goes(s, t, fs, gs)
    BY <1>1, <1>2, <1>4, ChangeElsewhere, SoundOwns, Names
  <1>5. QED
    BY <1>3, <1>4

LEMMA VideoRuns ==
  ASSUME NEW s, NEW v, NEW d, NEW fs, NEW t \in Recording, NEW gs, Own(s, v, d, fs),
         Goes(v, t, fs, gs) \/ Ends(v, t, fs, gs, "mng")
  PROVE  Own(s, t, d, gs) /\ Kept(fs, gs) /\ Elsewhere(fs, gs, "mng")
  <1>1. Change(v, t, fs, gs, Game, "mng") /\ fs \in [File -> Status]
    BY DEF Change, Own
  <1>2. ((v.active \/ ~t.active) /\ ~Fails(v, t, fs, gs, Game, "mng")) \/ Goes(v, t, fs, gs)
    BY DEF Goes, Ends, Fails
  <1>3. CASE Goes(v, t, fs, gs)
    BY <1>1, <1>3, ChangeElsewhere, Names DEF Goes, Own, Kept
  <1>4. CASE ~Goes(v, t, fs, gs)
    BY <1>1, <1>2, <1>4, ChangeElsewhere, VideoOwns, Names
  <1>5. QED
    BY <1>3, <1>4

LEMMA DebugRuns ==
  ASSUME NEW s, NEW v, NEW d, NEW fs, NEW t \in Recording, NEW gs, Own(s, v, d, fs),
         Goes(d, t, fs, gs) \/ Ends(d, t, fs, gs, "wav")
  PROVE  Own(s, v, t, gs) /\ Kept(fs, gs) /\ Elsewhere(fs, gs, "wav")
  <1>1. Change(d, t, fs, gs, Game, "wav") /\ fs \in [File -> Status]
    BY DEF Change, Own
  <1>2. CASE Goes(d, t, fs, gs)
    BY <1>1, <1>2, ChangeElsewhere DEF Goes, Own, Kept
  <1>3. CASE Ends(d, t, fs, gs, "wav")
    BY <1>1, <1>3, ChangeElsewhere, DebugOwns DEF Ends
  <1>4. QED
    BY <1>2, <1>3

\* What a step does to the recordings and their files.
Safe == Own(sound', video', debug', files') /\ Kept(files, files')

LEMMA RecordStartSafe ==
  ASSUME Records, RecordStart
  PROVE  Safe /\ FromLastPress' /\ \A n \in snap : files'[Png(n)] = "absent"
  <1> DEFINE s0 == Cancel(sound, files, "wav")
             v0 == Cancel(video, s0[2], "mng")
             n == NextName(v0[2], {"wav", "mng"}, debug_sound)
  <1>1. /\ HasNext(v0[2], {"wav", "mng"})
        /\ press' = press + 1 /\ debug' = debug
        /\ \E s \in IF sound_flag THEN Start(s0[1], v0[2], n, "wav") ELSE {<<s0[1], v0[2]>>} :
               \E v \in IF video_flag THEN Start(v0[1], s[2], n, "mng") ELSE {<<v0[1], s[2]>>} :
                   sound' = s[1] /\ video' = v[1] /\ files' = v[2]
    BY DEF RecordStart, captures
  <1>2. PICK s \in IF sound_flag THEN Start(s0[1], v0[2], n, "wav") ELSE {<<s0[1], v0[2]>>} :
               \E v \in IF video_flag THEN Start(v0[1], s[2], n, "mng") ELSE {<<v0[1], s[2]>>} :
                   sound' = s[1] /\ video' = v[1] /\ files' = v[2]
    BY <1>1
  <1>3. PICK v \in IF video_flag THEN Start(v0[1], s[2], n, "mng") ELSE {<<v0[1], s[2]>>} :
                   sound' = s[1] /\ video' = v[1] /\ files' = v[2]
    BY <1>2
  <1>4. sound \in Recording /\ video \in Recording /\ Own(sound, video, debug, files)
        /\ press \in Nat /\ Flags
    BY DEF Records, Own
  <1>5. /\ s0[1] \in Recording /\ ~s0[1].active
        /\ Goes(sound, s0[1], files, s0[2]) \/ Ends(sound, s0[1], files, s0[2], "wav")
    BY <1>4, CancelOutcome
  <1>6. /\ v0[1] \in Recording /\ ~v0[1].active
        /\ Goes(video, v0[1], s0[2], v0[2]) \/ Ends(video, v0[1], s0[2], v0[2], "mng")
    BY <1>4, CancelOutcome
  <1>7. n \in Name /\ Free(v0[2], n, {"wav", "mng"}) /\ (debug_sound => n # Game)
    BY <1>1, <1>4, NextIsFree DEF Flags
  <1>8. v0[2][Wav(n)] = "absent" /\ v0[2][Mng(n)] = "absent"
    BY <1>7 DEF Free, Exists, Wav, Mng
  <1> HIDE DEF s0, v0, n
  <1>9. Own(s0[1], video, debug, s0[2]) /\ Kept(files, s0[2]) /\ Elsewhere(files, s0[2], "wav")
    BY <1>4, <1>5, SoundRuns
  <1>10. Own(s0[1], v0[1], debug, v0[2]) /\ Kept(s0[2], v0[2]) /\ Elsewhere(s0[2], v0[2], "mng")
    BY <1>6, <1>9, VideoRuns
  <1>11. s[1] \in Recording /\ Change(s0[1], s[1], v0[2], s[2], n, "wav")
         /\ (s[1].active => s[1].press = press + 1)
    <2>1. CASE sound_flag
      BY <1>2, <1>4, <1>5, <1>7, <2>1, StartOutcome, SMTT(20) DEF Change, Goes, Begins, Fails
    <2>2. CASE ~sound_flag
      BY <1>2, <1>5, <2>2 DEF Change, Goes
    <2>3. QED
      BY <2>1, <2>2
  <1>12. Own(s[1], v0[1], debug, s[2]) /\ Kept(v0[2], s[2]) /\ Elsewhere(v0[2], s[2], "wav")
    <2>1. v0[2] \in [File -> Status]
      BY <1>10 DEF Own
    <2>2. QED
      BY <1>7, <1>8, <1>10, <1>11, <2>1, SoundOwns, ChangeElsewhere
  <1>13. v[1] \in Recording /\ Change(v0[1], v[1], s[2], v[2], n, "mng")
         /\ (v[1].active => v[1].press = press + 1)
    <2>1. CASE video_flag
      BY <1>3, <1>4, <1>6, <1>7, <2>1, StartOutcome, SMTT(20) DEF Change, Goes, Begins, Fails
    <2>2. CASE ~video_flag
      BY <1>3, <1>6, <2>2 DEF Change, Goes
    <2>3. QED
      BY <2>1, <2>2
  <1>14. Own(s[1], v[1], debug, v[2]) /\ Kept(s[2], v[2]) /\ Elsewhere(s[2], v[2], "mng")
    <2>1. s[2] \in [File -> Status] /\ s[2][Mng(n)] = "absent"
      BY <1>7, <1>8, <1>12 DEF Own, Elsewhere, Mng, Ext
    <2>2. QED
      BY <1>7, <1>12, <1>13, <2>1, VideoOwns, ChangeElsewhere
  <1>15. Safe
    BY <1>1, <1>3, <1>9, <1>10, <1>12, <1>14, KeptIsTransitive DEF Safe
  <1>16. FromLastPress'
    BY <1>1, <1>3, <1>11, <1>13 DEF FromLastPress
  <1>17. \A m \in snap : files'[Png(m)] = "absent"
    <2>1. snap \in SUBSET Name /\ \A m \in snap : files[Png(m)] = "absent"
      BY DEF Records, SnapFree
    <2>2. \A m \in snap : s0[2][Png(m)] = "absent"
      BY <1>9, <2>1, SnapStaysFree
    <2>3. \A m \in snap : v0[2][Png(m)] = "absent"
      BY <1>10, <2>1, <2>2, SnapStaysFree
    <2>4. \A m \in snap : s[2][Png(m)] = "absent"
      BY <1>12, <2>1, <2>3, SnapStaysFree
    <2>5. QED
      BY <1>3, <1>14, <2>1, <2>4, SnapStaysFree
  <1>18. QED
    BY <1>15, <1>16, <1>17

LEMMA RecordStopSafe ==
  ASSUME Records, RecordStop
  PROVE  Safe /\ FromLastPress' /\ \A n \in snap : files'[Png(n)] = "absent"
  <1>1. PICK s \in Terminate(sound, files, "wav") :
            \E v \in Terminate(video, s[2], "mng") :
                sound' = s[1] /\ video' = v[1] /\ files' = v[2]
    BY DEF RecordStop
  <1>2. PICK v \in Terminate(video, s[2], "mng") :
            sound' = s[1] /\ video' = v[1] /\ files' = v[2]
    BY <1>1
  <1>3. sound \in Recording /\ video \in Recording /\ Own(sound, video, debug, files)
    BY DEF Records, Own
  <1>4. /\ s[1] \in Recording /\ ~s[1].active
        /\ Goes(sound, s[1], files, s[2]) \/ Ends(sound, s[1], files, s[2], "wav")
    BY <1>3, TerminateOutcome
  <1>5. /\ v[1] \in Recording /\ ~v[1].active
        /\ Goes(video, v[1], s[2], v[2]) \/ Ends(video, v[1], s[2], v[2], "mng")
    BY <1>3, TerminateOutcome
  <1>6. Own(s[1], video, debug, s[2]) /\ Kept(files, s[2]) /\ Elsewhere(files, s[2], "wav")
    BY <1>3, <1>4, SoundRuns
  <1>7. Own(s[1], v[1], debug, v[2]) /\ Kept(s[2], v[2]) /\ Elsewhere(s[2], v[2], "mng")
    BY <1>5, <1>6, VideoRuns
  <1>8. Safe
    BY <1>2, <1>6, <1>7, KeptIsTransitive DEF Safe, RecordStop, captures
  <1>9. \A m \in snap : files'[Png(m)] = "absent"
    <2>1. snap \in SUBSET Name /\ \A m \in snap : files[Png(m)] = "absent"
      BY DEF Records, SnapFree
    <2>2. \A m \in snap : s[2][Png(m)] = "absent"
      BY <1>6, <2>1, SnapStaysFree
    <2>3. QED
      BY <1>2, <1>7, <2>1, <2>2, SnapStaysFree
  <1>10. QED
    BY <1>2, <1>4, <1>5, <1>8, <1>9 DEF FromLastPress

LEMMA DoneSafe ==
  ASSUME Records, Done
  PROVE  Safe /\ FromLastPress' /\ \A n \in snap : files'[Png(n)] = "absent"
  <1>1. PICK d \in Stop(debug, files, "wav") :
           LET s == Cancel(sound, d[2], "wav")
               v == Cancel(video, s[2], "mng")
           IN  debug' = d[1] /\ sound' = s[1] /\ video' = v[1] /\ files' = v[2]
    BY DEF Done
  <1> DEFINE s == Cancel(sound, d[2], "wav")
             v == Cancel(video, s[2], "mng")
  <1>2. debug' = d[1] /\ sound' = s[1] /\ video' = v[1] /\ files' = v[2]
    BY <1>1
  <1>3. sound \in Recording /\ video \in Recording /\ debug \in Recording
        /\ Own(sound, video, debug, files)
    BY DEF Records, Own
  <1>4. /\ d[1] \in Recording /\ ~d[1].active
        /\ Goes(debug, d[1], files, d[2]) \/ Ends(debug, d[1], files, d[2], "wav")
    BY <1>3, StopOutcome
  <1>5. /\ s[1] \in Recording /\ ~s[1].active
        /\ Goes(sound, s[1], d[2], s[2]) \/ Ends(sound, s[1], d[2], s[2], "wav")
    BY <1>3, CancelOutcome
  <1>6. /\ v[1] \in Recording /\ ~v[1].active
        /\ Goes(video, v[1], s[2], v[2]) \/ Ends(video, v[1], s[2], v[2], "mng")
    BY <1>3, CancelOutcome
  <1> HIDE DEF s, v
  <1>7. Own(sound, video, d[1], d[2]) /\ Kept(files, d[2]) /\ Elsewhere(files, d[2], "wav")
    BY <1>3, <1>4, DebugRuns
  <1>8. Own(s[1], video, d[1], s[2]) /\ Kept(d[2], s[2]) /\ Elsewhere(d[2], s[2], "wav")
    BY <1>5, <1>7, SoundRuns
  <1>9. Own(s[1], v[1], d[1], v[2]) /\ Kept(s[2], v[2]) /\ Elsewhere(s[2], v[2], "mng")
    BY <1>6, <1>8, VideoRuns
  <1>10. Safe
    BY <1>2, <1>7, <1>8, <1>9, KeptIsTransitive DEF Safe
  <1>11. \A m \in snap : files'[Png(m)] = "absent"
    <2>1. snap \in SUBSET Name /\ \A m \in snap : files[Png(m)] = "absent"
      BY DEF Records, SnapFree
    <2>2. \A m \in snap : d[2][Png(m)] = "absent"
      BY <1>7, <2>1, SnapStaysFree
    <2>3. \A m \in snap : s[2][Png(m)] = "absent"
      BY <1>8, <2>1, <2>2, SnapStaysFree
    <2>4. QED
      BY <1>2, <1>9, <2>1, <2>3, SnapStaysFree
  <1>12. QED
    BY <1>2, <1>5, <1>6, <1>10, <1>11 DEF FromLastPress

LEMMA VideoUpdateSafe ==
  ASSUME Records, VideoUpdate
  PROVE  Safe /\ FromLastPress' /\ \A n \in snap : files'[Png(n)] = "absent"
  <1>1. PICK v \in IF pause THEN {<<video, files>>}
                  ELSE Update(video, files, "mng", video.time >= VideoTime) :
           video' = v[1] /\ files' = v[2]
    BY DEF VideoUpdate
  <1>2. video \in Recording /\ Own(sound, video, debug, files)
    BY DEF Records, Own
  <1>3. /\ v[1] \in Recording
        /\ Goes(video, v[1], files, v[2]) \/ Ends(video, v[1], files, v[2], "mng")
    <2>1. CASE pause
      BY <1>1, <1>2, <2>1 DEF Goes
    <2>2. CASE ~pause
      <3> DEFINE full == video.time >= VideoTime
      <3>1. v \in Update(video, files, "mng", full) /\ full \in BOOLEAN
        BY <1>1, <2>2
      <3> HIDE DEF full
      <3>2. QED
        BY <1>2, <3>1, UpdateOutcome
    <2>3. QED
      BY <2>1, <2>2
  <1>4. Own(sound, v[1], debug, v[2]) /\ Kept(files, v[2]) /\ Elsewhere(files, v[2], "mng")
    BY <1>2, <1>3, VideoRuns
  <1>5. sound' = sound /\ debug' = debug /\ press' = press
    BY DEF VideoUpdate, captures, count
  <1>6. \A m \in snap : files'[Png(m)] = "absent"
    <2>1. snap \in SUBSET Name /\ \A m \in snap : files[Png(m)] = "absent"
      BY DEF Records, SnapFree
    <2>2. QED
      BY <1>1, <1>4, <2>1, SnapStaysFree
  <1>7. FromLastPress'
    BY <1>1, <1>3, <1>5 DEF Records, FromLastPress, Goes, Ends
  <1>8. QED
    BY <1>1, <1>4, <1>5, <1>6, <1>7 DEF Safe

\* The debug capture starts, or goes on, or ends.
LEMMA DebugSafe ==
  ASSUME NEW s, NEW v, NEW fs, NEW d \in DebugUpdate(fs), Own(s, v, debug, fs), press \in Nat,
         debug_sound \in BOOLEAN
  PROVE  Own(s, v, d[1], d[2]) /\ Kept(fs, d[2]) /\ Elsewhere(fs, d[2], "wav")
  <1>1. CASE ~debug_sound \/ debug_failed
    <2>1. d = <<debug, fs>>
      BY <1>1 DEF DebugUpdate
    <2>2. QED
      BY <2>1 DEF Kept, Elsewhere
  <1>2. CASE debug_sound /\ ~debug_failed
    <2>1. PICK e \in Start(debug, fs, Game, "wav") :
              d \in IF e[1].active THEN Update(e[1], e[2], "wav", FALSE) ELSE {e}
      BY <1>2 DEF DebugUpdate
    <2>2. e[1] \in Recording /\ Change(debug, e[1], fs, e[2], Game, "wav")
      BY <2>1, StartOutcome, Names DEF Own, Change
    <2>3. Own(s, v, e[1], e[2]) /\ Kept(fs, e[2]) /\ Elsewhere(fs, e[2], "wav")
      <3>1. fs \in [File -> Status]
        BY DEF Own
      <3>2. QED
        BY <1>2, <2>2, <3>1, DebugOwns, ChangeElsewhere
    <2>4. CASE ~e[1].active
      BY <2>1, <2>3, <2>4
    <2>5. CASE e[1].active
      <3>1. /\ d[1] \in Recording
            /\ Goes(e[1], d[1], e[2], d[2]) \/ Ends(e[1], d[1], e[2], d[2], "wav")
        BY <2>1, <2>2, <2>5, UpdateOutcome
      <3>2. Own(s, v, d[1], d[2]) /\ Kept(e[2], d[2]) /\ Elsewhere(e[2], d[2], "wav")
        BY <2>3, <3>1, DebugRuns
      <3>3. QED
        BY <2>3, <3>2, KeptIsTransitive DEF Elsewhere
    <2>6. QED
      BY <2>4, <2>5
  <1>3. QED
    BY <1>1, <1>2

LEMMA SoundUpdateSafe ==
  ASSUME Records, SoundUpdate
  PROVE  Safe /\ FromLastPress' /\ \A n \in snap : files'[Png(n)] = "absent"
  <1>1. Own(sound, video, debug, files) /\ sound \in Recording /\ press \in Nat
        /\ debug_sound \in BOOLEAN
    BY DEF Records, Own, Flags
  <1>2. video' = video /\ press' = press /\ snap' = snap
    BY DEF SoundUpdate, count
  <1>3. snap \in SUBSET Name /\ \A m \in snap : files[Png(m)] = "absent"
    BY DEF Records, SnapFree
  <1>4. CASE pause
    BY <1>1, <1>2, <1>3, <1>4 DEF SoundUpdate, captures, Safe, Kept, Records, FromLastPress
  <1>5. CASE ~pause
    <2> DEFINE full == SoundTime # 0 /\ sound.time >= SoundTime
    <2>1. PICK s \in Update(sound, files, "wav", full) :
              /\ sound' = s[1]
              /\ \/ \E d \in DebugUpdate(s[2]) : debug' = d[1] /\ files' = d[2]
                 \/ files' = s[2] /\ UNCHANGED captures
      BY <1>5 DEF SoundUpdate
    <2> HIDE DEF full
    <2>2. full \in BOOLEAN
      BY DEF full
    <2>3. /\ s[1] \in Recording
          /\ Goes(sound, s[1], files, s[2]) \/ Ends(sound, s[1], files, s[2], "wav")
      BY <1>1, <2>1, <2>2, UpdateOutcome
    <2>4. Own(s[1], video, debug, s[2]) /\ Kept(files, s[2]) /\ Elsewhere(files, s[2], "wav")
      BY <1>1, <2>3, SoundRuns
    <2>5. FromLastPress'
      BY <1>2, <2>1, <2>3 DEF Records, FromLastPress, Goes, Ends
    <2>6. Own(s[1], video, debug', files') /\ Kept(s[2], files') /\ Elsewhere(s[2], files', "wav")
      <3>1. CASE files' = s[2] /\ UNCHANGED captures
        BY <2>4, <3>1 DEF captures, Kept, Elsewhere
      <3>2. CASE \E d \in DebugUpdate(s[2]) : debug' = d[1] /\ files' = d[2]
        BY <1>1, <2>4, <3>2, DebugSafe
      <3>3. QED
        BY <2>1, <3>1, <3>2
    <2>7. Safe
      BY <1>2, <2>1, <2>4, <2>6, KeptIsTransitive DEF Safe
    <2>8. \A m \in snap : files'[Png(m)] = "absent"
      <3>1. \A m \in snap : s[2][Png(m)] = "absent"
        BY <1>3, <2>4, SnapStaysFree
      <3>2. QED
        BY <1>3, <2>6, <3>1, SnapStaysFree
    <2>9. QED
      BY <2>5, <2>7, <2>8
  <1>6. QED
    BY <1>4, <1>5

LEMMA SnapshotUpdateSafe ==
  ASSUME Records, SnapshotUpdate
  PROVE  Safe /\ SnapFree' /\ FromLastPress'
  <1>1. Own(sound, video, debug, files) /\ SnapFree /\ FromLastPress
    BY DEF Records
  <1>2. sound' = sound /\ video' = video /\ debug' = debug /\ press' = press
    BY DEF SnapshotUpdate, recordings, captures, count
  <1>3. CASE UNCHANGED files
    <2>1. SnapFree'
      BY <1>1, <1>3 DEF SnapshotUpdate, SnapFree
    <2>2. QED
      BY <1>1, <1>2, <1>3, <2>1 DEF Safe, Kept, FromLastPress
  <1>4. CASE ~UNCHANGED files
    <2>1. PICK n \in snap, is \in {"saved", "absent"} : files' = [files EXCEPT ![Png(n)] = is]
      BY <1>4 DEF SnapshotUpdate
    <2>2. n \in Name /\ files[Png(n)] = "absent" /\ files \in [File -> Status]
      BY <1>1, <2>1 DEF SnapFree, Own
    <2>3. Own(sound, video, debug, files')
      BY <1>1, <2>1, <2>2 DEF Own, File, Wav, Mng, Png, Status, Recording
    <2>4. Kept(files, files')
      BY <2>1, <2>2 DEF Kept, File, Png
    <2>5. snap' = {}
      BY <1>4 DEF SnapshotUpdate
    <2>6. QED
      BY <1>1, <1>2, <2>3, <2>4, <2>5 DEF Safe, SnapFree, FromLastPress
  <1>5. QED
    BY <1>3, <1>4

\* The steps that write no file.
LEMMA SaveSnapshotSafe ==
  ASSUME Records, SaveSnapshot
  PROVE  SnapFree'
  <1>1. HasNext(files, {"png"}) /\ snap' = {NextName(files, {"png"}, FALSE)} /\ files' = files
    BY DEF SaveSnapshot
  <1>2. NextName(files, {"png"}, FALSE) \in Name /\ Free(files, NextName(files, {"png"}, FALSE), {"png"})
    BY <1>1, NextIsFree
  <1>3. QED
    BY <1>1, <1>2 DEF SnapFree, Free, Exists, Png

LEMMA StepSafe ==
  ASSUME Records, [Next]_vars
  PROVE  Safe /\ FromLastPress' /\ SnapFree' /\ UNCHANGED config /\ press' \in Nat
  <1>a. Own(sound, video, debug, files) /\ SnapFree /\ FromLastPress /\ press \in Nat
    BY DEF Records
  <1> USE DEF config, count, main, thread, captures, recordings
  <1>1. CASE RecordStart
    BY <1>1, <1>a, RecordStartSafe DEF RecordStart, SnapFree
  <1>2. CASE RecordStop
    BY <1>2, <1>a, RecordStopSafe DEF RecordStop, SnapFree
  <1>3. CASE Done
    BY <1>3, <1>a, DoneSafe DEF Done, SnapFree
  <1>4. CASE VideoUpdate
    BY <1>4, <1>a, VideoUpdateSafe DEF VideoUpdate, SnapFree
  <1>5. CASE SoundUpdate
    BY <1>5, <1>a, SoundUpdateSafe DEF SoundUpdate, SnapFree
  <1>6. CASE SnapshotUpdate
    BY <1>6, <1>a, SnapshotUpdateSafe DEF SnapshotUpdate
  <1>7. CASE SaveSnapshot
    BY <1>7, <1>a, SaveSnapshotSafe DEF SaveSnapshot, Safe, Kept, FromLastPress
  <1>8. CASE Pause \/ Skip \/ Post \/ Ended \/ UNCHANGED vars
    <2>1. UNCHANGED <<config, files, recordings, captures, snap, press>>
      BY <1>8 DEF Pause, Skip, Post, Ended, vars
    <2>2. QED
      BY <1>a, <2>1 DEF Safe, Kept, FromLastPress, SnapFree
  <1>9. QED
    BY <1>1, <1>2, <1>3, <1>4, <1>5, <1>6, <1>7, <1>8 DEF Next, Main, Video

LEMMA RecordsStep == Records /\ [Next]_vars => Records'
  BY StepSafe DEF Records, Flags, Safe, Own, config

---------------------------------------------------------------------------

\* The writers of a file, one by one.
LEMMA OwnersCount ==
  ASSUME Records, NEW f \in File
  PROVE  Cardinality(Writers(f)) = IF files[f] = "partial" THEN 1 ELSE 0
  <1> DEFINE S == <<"sound", sound, "wav">>
             V == <<"video", video, "mng">>
             D == <<"debug", debug, "wav">>
  <1>1. Own(sound, video, debug, files)
    BY DEF Records
  <1>2. /\ S \in Writers(f) <=> sound.active /\ f = Wav(sound.name)
        /\ V \in Writers(f) <=> video.active /\ f = Mng(video.name)
        /\ D \in Writers(f) <=> debug.active /\ f = Wav(debug.name)
        /\ Writers(f) \subseteq {S, V, D}
    BY DEF Writers, Wav, Mng
  <1>3. /\ S \in Writers(f) \/ V \in Writers(f) \/ D \in Writers(f) => files[f] = "partial"
        /\ files[f] = "partial" => S \in Writers(f) \/ V \in Writers(f) \/ D \in Writers(f)
        /\ V \in Writers(f) => S \notin Writers(f) /\ D \notin Writers(f)
        /\ S \in Writers(f) => D \notin Writers(f)
    <2>1. /\ S \in Writers(f) => files[f] = "partial"
          /\ V \in Writers(f) => files[f] = "partial"
          /\ D \in Writers(f) => files[f] = "partial"
      BY <1>1, <1>2 DEF Own
    <2>2. files[f] = "partial" => S \in Writers(f) \/ V \in Writers(f) \/ D \in Writers(f)
      BY <1>1, <1>2 DEF Own
    <2>3. V \in Writers(f) => S \notin Writers(f) /\ D \notin Writers(f)
      BY <1>2 DEF Wav, Mng
    <2>4. S \in Writers(f) => D \notin Writers(f)
      BY <1>1, <1>2 DEF Own, Wav
    <2>5. QED
      BY <2>1, <2>2, <2>3, <2>4
  <1> HIDE DEF S, V, D
  <1>4. CASE files[f] # "partial"
    <2>1. Writers(f) = {}
      BY <1>2, <1>3, <1>4
    <2>2. QED
      BY <1>4, <2>1, FS_EmptySet
  <1>5. CASE files[f] = "partial"
    <2>1. Writers(f) = {S} \/ Writers(f) = {V} \/ Writers(f) = {D}
      BY <1>2, <1>3, <1>5
    <2>2. QED
      BY <1>5, <2>1, FS_Singleton
  <1>6. QED
    BY <1>4, <1>5

\* No partial file is left and no file is shared, whatever operation fails.
THEOREM PartialFilesAreOwned == Spec => []FilesAreOwned
  <1>1. Records => FilesAreOwned
    BY OwnersCount DEF FilesAreOwned
  <1>2. QED
    BY <1>1, RecordsInit, RecordsStep, PTL DEF Spec

\* "If you press the start key more than one time the recording starts from the
\* last press" (doc/advmame.d:1923).
THEOREM RecordsFromLastPress == Spec => []FromLastPress
  <1>1. Records => FromLastPress
    BY DEF Records
  <1>2. QED
    BY <1>1, RecordsInit, RecordsStep, PTL DEF Spec

\* What was saved, now or in an earlier session, is never overwritten or removed,
\* but by the debug capture, which always has the name of the game.
THEOREM SavedFilesAreKept == Spec => SavedIsKept
  <1>1. Records /\ [Next]_vars =>
            [\A f \in File :
                files[f] = "saved" /\ ~(debug_sound /\ f = Wav(Game)) => files'[f] = "saved"]_files
    BY StepSafe DEF Safe, Kept
  <1>2. QED
    BY <1>1, RecordsInit, RecordsStep, PTL DEF Spec, SavedIsKept

---------------------------------------------------------------------------
(* The sound and the video of a clip. *)

\* A frame that is over for the video adds to the sound only, if the pause stays
\* as it is.
Owed == IF vpc \in {"snap", "sound"} /\ ~pause THEN 1 ELSE 0

\* The frames skipped by decisions taken before the start.
Skips == (IF mpc = "post" /\ cur THEN 1 ELSE 0) + (IF skip THEN 1 ELSE 0)

\* How much longer the sound will be when the frame of the video thread is over.
Ahead == sound.time - video.time + Owed

Together ==
    Running(sound) /\ Running(video) =>
        /\ mpc = "post" => ~skip
        /\ IF smp THEN -toggles <= Ahead /\ Ahead + Skips <= 2 + toggles
                  ELSE 0 <= Ahead /\ Ahead + Skips <= 1

Turns ==
    /\ smp \in BOOLEAN /\ pause \in BOOLEAN /\ skip \in BOOLEAN /\ cur \in BOOLEAN
    /\ toggles \in Nat
    /\ mpc \in {"ui", "post", "end"} /\ vpc \in {"idle", "video", "snap", "sound"}
    /\ ~smp /\ mpc = "post" => vpc = "idle"

\* With the records, inductive.
Clips == Turns /\ Together

\* A recording that goes on after an update is longer by a frame, a new one is empty.
LEMMA UpdateAdds ==
  ASSUME NEW r \in Recording, NEW fs, NEW ext, NEW full \in BOOLEAN,
         NEW o \in Update(r, fs, ext, full), Running(o[1])
  PROVE  Running(r) /\ o[1].time = r.time + 1
  <1>1. CASE ~Running(r)
    BY <1>1 DEF Update
  <1>2. CASE o = <<[r EXCEPT !.stopped = TRUE], fs>>
    BY <1>2 DEF Recording, Running
  <1>3. CASE Running(r) /\ o = <<[r EXCEPT !.time = @ + 1], fs>>
    BY <1>3 DEF Recording
  <1>4. CASE o = Cancel(r, fs, ext)
    BY <1>4, CancelOutcome DEF Running
  <1>5. QED
    BY <1>1, <1>2, <1>3, <1>4 DEF Update

LEMMA StartIsFresh ==
  ASSUME NEW r, ~r.active, NEW fs, NEW n, NEW ext, NEW o \in Start(r, fs, n, ext), Running(o[1])
  PROVE  o[1].time = 0
  BY OffIsRecording DEF Start, Running, Fresh

LEMMA ClipsInit == Init => Clips
  <1> SUFFICES ASSUME Init PROVE Clips
    OBVIOUS
  <1>1. Turns
    BY DEF Init, Turns
  <1>2. ~Running(sound)
    BY OffIsRecording DEF Init, Running
  <1>3. QED
    BY <1>1, <1>2 DEF Clips, Together

\* What a step does to the recordings: they start together, or one is longer by a
\* frame, or goes on; the other ways to change end one of them.
Starts == Running(sound') /\ Running(video') => sound'.time = 0 /\ video'.time = 0
Stays(r, t) == Running(t) => Running(r) /\ t.time = r.time
Adds(r, t) == Running(t) => Running(r) /\ t.time = r.time + 1

LEMMA RecordStartTimes ==
  ASSUME Records, RecordStart
  PROVE  Starts
  <1>1. PICK s0 \in {Cancel(sound, files, "wav")} : TRUE
    OBVIOUS
  <1>2. PICK v0 \in {Cancel(video, s0[2], "mng")} : TRUE
    OBVIOUS
  <1>3. PICK n : \E s \in IF sound_flag THEN Start(s0[1], v0[2], n, "wav") ELSE {<<s0[1], v0[2]>>} :
            \E v \in IF video_flag THEN Start(v0[1], s[2], n, "mng") ELSE {<<v0[1], s[2]>>} :
                sound' = s[1] /\ video' = v[1]
    BY <1>1, <1>2 DEF RecordStart
  <1>4. ~s0[1].active /\ ~v0[1].active
    BY <1>1, <1>2, CancelOutcome DEF Records, Own
  <1>5. PICK s \in IF sound_flag THEN Start(s0[1], v0[2], n, "wav") ELSE {<<s0[1], v0[2]>>} :
            \E v \in IF video_flag THEN Start(v0[1], s[2], n, "mng") ELSE {<<v0[1], s[2]>>} :
                sound' = s[1] /\ video' = v[1]
    BY <1>3
  <1>6. PICK v \in IF video_flag THEN Start(v0[1], s[2], n, "mng") ELSE {<<v0[1], s[2]>>} :
                sound' = s[1] /\ video' = v[1]
    BY <1>5
  <1>7. Running(s[1]) => s[1].time = 0
    BY <1>4, <1>5, StartIsFresh DEF Running
  <1>8. Running(v[1]) => v[1].time = 0
    BY <1>4, <1>6, StartIsFresh DEF Running
  <1>9. QED
    BY <1>6, <1>7, <1>8 DEF Starts

LEMMA VideoUpdateTimes ==
  ASSUME Records, VideoUpdate
  PROVE  IF pause THEN Stays(video, video') ELSE Adds(video, video')
  <1>1. CASE pause
    BY <1>1 DEF VideoUpdate, Stays
  <1>2. CASE ~pause
    <2> DEFINE full == video.time >= VideoTime
    <2>1. PICK v \in Update(video, files, "mng", full) : video' = v[1]
      BY <1>2 DEF VideoUpdate
    <2>2. full \in BOOLEAN /\ video \in Recording
      BY DEF Records, Own
    <2> HIDE DEF full
    <2>3. QED
      BY <1>2, <2>1, <2>2, UpdateAdds DEF Adds
  <1>3. QED
    BY <1>1, <1>2

LEMMA SoundUpdateTimes ==
  ASSUME Records, SoundUpdate
  PROVE  IF pause THEN Stays(sound, sound') ELSE Adds(sound, sound')
  <1>1. CASE pause
    BY <1>1 DEF SoundUpdate, Stays
  <1>2. CASE ~pause
    <2> DEFINE full == SoundTime # 0 /\ sound.time >= SoundTime
    <2>1. PICK s \in Update(sound, files, "wav", full) : sound' = s[1]
      BY <1>2 DEF SoundUpdate
    <2>2. full \in BOOLEAN /\ sound \in Recording
      BY DEF Records, Own
    <2> HIDE DEF full
    <2>3. QED
      BY <1>2, <2>1, <2>2, UpdateAdds DEF Adds
  <1>3. QED
    BY <1>1, <1>2

\* osd_record_stop() and the exit end both.
LEMMA EndTimes ==
  ASSUME Records, RecordStop \/ Done
  PROVE  ~Running(sound')
  <1>a. sound \in Recording
    BY DEF Records, Own
  <1>1. CASE RecordStop
    <2>1. PICK s \in Terminate(sound, files, "wav") : sound' = s[1]
      BY <1>1 DEF RecordStop
    <2>2. QED
      BY <1>a, <2>1, TerminateOutcome DEF Running
  <1>2. CASE Done
    <2>1. PICK d \in Stop(debug, files, "wav") : sound' = Cancel(sound, d[2], "wav")[1]
      BY <1>2 DEF Done
    <2>2. QED
      BY <1>a, <2>1, CancelOutcome DEF Running
  <1>3. QED
    BY <1>1, <1>2

LEMMA TurnsStep == Turns /\ [Next]_vars => Turns'
  <1> SUFFICES ASSUME Turns, [Next]_vars PROVE Turns'
    OBVIOUS
  <1> USE DEF Turns, AtKeys, config, count, main, thread
  <1>1. CASE RecordStart \/ RecordStop \/ SaveSnapshot
    BY <1>1 DEF RecordStart, RecordStop, SaveSnapshot
  <1>2. CASE Pause
    BY <1>2 DEF Pause
  <1>3. CASE Skip
    BY <1>3 DEF Skip
  <1>4. CASE Post
    BY <1>4 DEF Post
  <1>5. CASE Done
    BY <1>5 DEF Done
  <1>6. CASE VideoUpdate \/ SnapshotUpdate \/ SoundUpdate
    BY <1>6 DEF VideoUpdate, SnapshotUpdate, SoundUpdate
  <1>7. CASE Ended \/ UNCHANGED vars
    BY <1>7 DEF Ended, vars
  <1>8. QED
    BY <1>1, <1>2, <1>3, <1>4, <1>5, <1>6, <1>7 DEF Next, Main, Video

LEMMA TogetherStep == Records /\ Clips /\ [Next]_vars => Together'
  <1> SUFFICES ASSUME Records, Clips, [Next]_vars, Running(sound'), Running(video')
               PROVE  /\ mpc' = "post" => ~skip'
                      /\ IF smp' THEN -toggles' <= Ahead' /\ Ahead' + Skips' <= 2 + toggles'
                                 ELSE 0 <= Ahead' /\ Ahead' + Skips' <= 1
    BY DEF Together
  <1>a. Turns /\ Turns'
    BY TurnsStep DEF Clips
  <1>b. /\ sound.time \in Nat /\ video.time \in Nat
        /\ Owed \in 0..1 /\ Skips \in 0..2
    <2>1. sound \in Recording /\ video \in Recording
      BY DEF Records, Own
    <2>2. QED
      BY <2>1 DEF Recording, Owed, Skips
  <1>c. Running(sound) /\ Running(video) =>
            /\ mpc = "post" => ~skip
            /\ IF smp THEN -toggles <= Ahead /\ Ahead + Skips <= 2 + toggles
                      ELSE 0 <= Ahead /\ Ahead + Skips <= 1
    BY DEF Clips, Together
  <1> USE <1>a, <1>b, <1>c DEF Turns, Ahead, Owed, Skips, AtKeys, config, count, main, thread
  <1>1. CASE RecordStart
    <2>1. sound'.time = 0 /\ video'.time = 0
      BY <1>1, RecordStartTimes DEF Starts
    <2>2. mpc = "ui" /\ (smp \/ vpc = "idle") /\ UNCHANGED <<config, pause, skip, toggles, main, thread>>
      BY <1>1 DEF RecordStart
    <2>3. QED
      BY <2>1, <2>2
  <1>2. CASE RecordStop \/ Done
    BY <1>2, EndTimes
  <1>3. CASE SaveSnapshot
    BY <1>3 DEF SaveSnapshot, recordings
  <1>4. CASE Pause
    BY <1>4 DEF Pause, recordings
  <1>5. CASE Skip
    BY <1>5 DEF Skip, recordings
  <1>6. CASE Post
    BY <1>6 DEF Post, recordings
  <1>7. CASE VideoUpdate
    BY <1>7, VideoUpdateTimes DEF VideoUpdate, Stays, Adds
  <1>8. CASE SnapshotUpdate
    BY <1>8 DEF SnapshotUpdate, recordings
  <1>9. CASE SoundUpdate
    BY <1>9, SoundUpdateTimes DEF SoundUpdate, Stays, Adds
  <1>10. CASE Ended \/ UNCHANGED vars
    BY <1>10 DEF Ended, vars, recordings
  <1>11. QED
    BY <1>1, <1>2, <1>3, <1>4, <1>5, <1>6, <1>7, <1>8, <1>9, <1>10 DEF Next, Main, Video

---------------------------------------------------------------------------

\* A clip has as much sound as video, but for the frames skipped by earlier decisions
\* and those torn by the pause (advance_video_skip(), osd2_video_pause()).
THEOREM SoundAndVideoInStep == Spec => []InStep
  <1>1. Init => Records /\ Clips
    BY RecordsInit, ClipsInit
  <1>2. Records /\ Clips /\ [Next]_vars => (Records /\ Clips)'
    BY RecordsStep, TurnsStep, TogetherStep DEF Clips
  <1>3. Records /\ Clips => InStep
    <2> SUFFICES ASSUME Records, Clips, Running(sound), Running(video), vpc = "idle"
                 PROVE  sound.time - video.time \in IF smp THEN -toggles..2 + toggles ELSE 0..1
      BY DEF InStep
    <2>1. sound \in Recording /\ video \in Recording
      BY DEF Records, Own
    <2>2. sound.time \in Nat /\ video.time \in Nat
      BY <2>1 DEF Recording
    <2>3. QED
      BY <2>2 DEF Clips, Turns, Together, Ahead, Owed, Skips
  <1>4. QED
    BY <1>1, <1>2, <1>3, PTL DEF Spec
=============================================================================
