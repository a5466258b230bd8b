------------------------------- MODULE Scripts -------------------------------
(***************************************************************************)
(* The scripts that drive the lamps of a cabinet: their interpreter        *)
(* (advance/osd/script.c), the conditions that start and stop them         *)
(* (advance/osd/hscript.c and video_command_event() in advance/osd/        *)
(* video.c), and the events of the game (SafeQuit).  In each frame all the *)
(* scripts play, in order, for the time of a frame; those that have to end *)
(* at a reset or at the end of the game are stopped and play for a second. *)
(*                                                                         *)
(* A script is the linked list of struct script_cmd that the parser makes; *)
(* a step is a call of script_run_step().                                  *)
(***************************************************************************)
EXTENDS SafeQuit, Integers, Sequences

CONSTANTS
    Script,         \* the scripts, the events that start them have their names
    Input,          \* those started by the input, the leds or the turbo
    Order,          \* the order of hardware_script_idle()
    Stmt,           \* the statements of all the scripts
    End,            \* the null pointer at the end of a list of statements
    first,          \* the first statement of each script
    cmd,            \* the statements: see Command
    level,          \* history: the blocks around each statement, and one
    owner,          \* history: the script of each statement
    MaxLevel,       \* SCRIPT_STATE_STACK_MAX
    Led,            \* the bits of the keyboard leds
    Unit,           \* the microseconds of a delay of one, SCRIPT_TIME_UNIT / SCRIPT_DELAY_UNIT
    FrameTime,      \* the microseconds of a frame
    Second,         \* SCRIPT_TIME_UNIT
    Ending          \* scripts without a loop that their condition doesn't end

Unset == -1
Nobody == "nobody"

\* The seven types, with what their expressions do: a condition, a number, or
\* a change of the leds.  The parser accepts no empty block.
Command ==
    [type : {"evaluate"}, effect : [SUBSET Led -> SUBSET Led], next : Stmt \union {End}]
    \union [type : {"wait"}, test : {"event", "noevent", "any"}, next : Stmt \union {End}]
    \union [type : {"delay"}, count : Nat, next : Stmt \union {End}]
    \union [type : {"repeat"}, count : Nat, body : Stmt, next : Stmt \union {End}]
    \union [type : {"loop", "inner"}, body : Stmt, next : Stmt \union {End}]
    \union [type : {"if", "while"}, test : {"event", "noevent", "any"}, body : Stmt,
            next : Stmt \union {End}]

Block == {"repeat", "loop", "inner", "if", "while"}

ASSUME EndAssumption == End \notin Stmt
ASSUME CommandAssumption == \A s \in Stmt : cmd[s] \in Command
ASSUME FirstAssumption == first \in [Script -> Stmt]
ASSUME LevelAssumption ==
    /\ MaxLevel \in Nat
    /\ level \in [Stmt -> 1..MaxLevel]
    /\ \A i \in Script : level[first[i]] = 1
    /\ \A s \in Stmt :
        /\ cmd[s].next \in Stmt => level[cmd[s].next] = level[s]
        /\ cmd[s].type \in Block => level[cmd[s].body] = level[s] + 1
\* Each script is parsed in its own tree.
ASSUME OwnerAssumption ==
    /\ Nobody \notin Script
    /\ owner \in [Stmt -> Script]
    /\ \A i \in Script : owner[first[i]] = i
    /\ \A s \in Stmt :
        /\ cmd[s].next \in Stmt => owner[cmd[s].next] = owner[s]
        /\ cmd[s].type \in Block => owner[cmd[s].body] = owner[s]

\* A frame, and the second of a script that has to end, is more than the shortest
\* delay, that is a millisecond.
ASSUME TimeAssumption ==
    Unit \in Nat \ {0} /\ FrameTime \in Nat /\ Second \in Nat /\ Unit < FrameTime /\ Unit < Second

VARIABLES
    cursor,         \* the stack of each script, the top first
    time_to_play,   \* of each script
    value,          \* the count of each delay and repeat, Unset if value_set is 0
    condition,      \* of each script
    event_mask_old, \* the events of the last frame
    kdb_state,      \* the leds that are on
    fastest_flag,   \* the startup at full speed, that the play script follows
    phase,          \* what the emulation is doing
    todo,           \* the scripts to play before it goes on
    current,        \* the script that is playing, or Nobody
    debt            \* history: the time given to each script that no delay has used

machine == <<cursor, time_to_play, value, debt>>
control == <<phase, todo, fastest_flag>>
vars == <<safeVars, machine, condition, event_mask_old, kdb_state, control, current>>

---------------------------------------------------------------------------
(* The stack of a script, and the statements that script_run_step() plays. *)

Top(i) == Head(cursor[i])
Type(i) == cmd[Top(i)].type

\* Deliberate bug: only one block is left.
UnrollOne(stack) == IF stack # <<>> /\ Head(stack) = End THEN Tail(stack) ELSE stack

\* The lists that have come to their end are popped.
Unroll(stack) ==
    IF \A k \in 1..Len(stack) : stack[k] = End THEN <<>>
    ELSE LET live == CHOOSE k \in 1..Len(stack) :
                        stack[k] # End /\ \A j \in 1..k - 1 : stack[j] = End
         IN  SubSeq(stack, live, Len(stack))

\* script_run_next()
NextCmd(i) == cursor' = [cursor EXCEPT ![i] = Unroll(<<cmd[Top(i)].next>> \o Tail(@))]

\* A block is pushed: over its statement, or in place of it.
Enter(i) == cursor' = [cursor EXCEPT ![i] = <<cmd[Top(i)].body>> \o @]
Leave(i) == cursor' = [cursor EXCEPT ![i] = <<cmd[Top(i)].body, cmd[Top(i)].next>> \o Tail(@)]

\* The values that a condition can have: event() is that of the script.
Test(i) ==
    CASE cmd[Top(i)].test = "event" -> {condition[i]}
      [] cmd[Top(i)].test = "noevent" -> {~condition[i]}
      [] cmd[Top(i)].test = "any" -> BOOLEAN

\* The count of the statement at the top: evaluated now, if it isn't kept.
Count(i) == IF value[Top(i)] = Unset THEN cmd[Top(i)].count ELSE value[Top(i)]

\* script_run_exp()
Evaluate(i) ==
    /\ Type(i) = "evaluate" /\ NextCmd(i)
    /\ kdb_state' = cmd[Top(i)].effect[kdb_state]
    /\ UNCHANGED <<time_to_play, value, debt>>

\* script_run_wait(): what remains of the time is lost.
Wait(i) ==
    /\ Type(i) = "wait"
    /\ \/ TRUE \in Test(i) /\ NextCmd(i) /\ UNCHANGED <<time_to_play, debt>>
       \/ /\ FALSE \in Test(i)
          /\ time_to_play' = [time_to_play EXCEPT ![i] = 0]
          /\ debt' = [debt EXCEPT ![i] = 0]
          /\ UNCHANGED cursor
    /\ UNCHANGED <<value, kdb_state>>

DelayGoesOn(i) ==
    /\ value' = [value EXCEPT ![Top(i)] = Count(i) - time_to_play[i] \div Unit]
    /\ time_to_play' = [time_to_play EXCEPT ![i] = @ % Unit]
    /\ UNCHANGED <<cursor, debt>>

DelayEnds(i) ==
    /\ NextCmd(i)
    /\ value' = [value EXCEPT ![Top(i)] = Unset]
    /\ time_to_play' = [time_to_play EXCEPT ![i] = @ - Count(i) * Unit]
    /\ debt' = [debt EXCEPT ![i] = @ - cmd[Top(i)].count * Unit]

\* Deliberate bug: what remains of the division is lost.
DelayRounded(i) ==
    /\ Type(i) = "delay"
    /\ IF time_to_play[i] < Count(i) * Unit
       THEN /\ value' = [value EXCEPT ![Top(i)] = Count(i) - time_to_play[i] \div Unit]
            /\ time_to_play' = [time_to_play EXCEPT ![i] = 0]
            /\ UNCHANGED <<cursor, debt>>
       ELSE DelayEnds(i)
    /\ UNCHANGED kdb_state

\* script_run_delay()
Delay(i) ==
    /\ Type(i) = "delay"
    /\ IF time_to_play[i] < Count(i) * Unit THEN DelayGoesOn(i) ELSE DelayEnds(i)
    /\ UNCHANGED kdb_state

\* script_run_repeat()
Repeat(i) ==
    /\ Type(i) = "repeat"
    /\ \/ /\ Count(i) > 0 /\ Enter(i)
          /\ value' = [value EXCEPT ![Top(i)] = Count(i) - 1]
       \/ /\ Count(i) = 0 /\ NextCmd(i)
          /\ value' = [value EXCEPT ![Top(i)] = Unset]
    /\ UNCHANGED <<time_to_play, kdb_state, debt>>

\* script_run_loop() and script_run_while()
LoopWhile(i) ==
    /\ \/ Type(i) = "loop" /\ Enter(i)
       \/ Type(i) = "while" /\ TRUE \in Test(i) /\ Enter(i)
       \/ Type(i) = "while" /\ FALSE \in Test(i) /\ NextCmd(i)
    /\ UNCHANGED <<time_to_play, value, kdb_state, debt>>

\* script_run_inner() and script_run_if()
InnerIf(i) ==
    /\ \/ Type(i) = "inner" /\ Leave(i)
       \/ Type(i) = "if" /\ TRUE \in Test(i) /\ Leave(i)
       \/ Type(i) = "if" /\ FALSE \in Test(i) /\ NextCmd(i)
    /\ UNCHANGED <<time_to_play, value, kdb_state, debt>>

\* The loop of script_run() goes on: script_run_step().
Plays(i) == current = i /\ cursor[i] # <<>> /\ time_to_play[i] > Unit

Step(i) ==
    /\ Plays(i)
    /\ Evaluate(i) \/ Wait(i) \/ Delay(i) \/ Repeat(i) \/ LoopWhile(i) \/ InnerIf(i)
    /\ UNCHANGED <<safeVars, condition, event_mask_old, control, current>>

---------------------------------------------------------------------------
(* hardware_script_start(), stop(), idle() and terminate(). *)

\* The scripts of a set are started: those that run go on, with their condition.
Restart(ids) ==
    /\ cursor' = [i \in Script |->
                    IF i \in ids /\ cursor[i] = <<>> THEN <<first[i]>> ELSE cursor[i]]
    /\ UNCHANGED <<time_to_play, value, debt>>

\* Deliberate bug: a script that has to end is given the time of a frame.
GiveFrame ==
    /\ current = Nobody /\ todo # <<>>
    /\ LET i == Head(todo)
           time == FrameTime
       IN  /\ todo' = Tail(todo)
           /\ condition' = IF phase = "frame" THEN condition ELSE [condition EXCEPT ![i] = FALSE]
           /\ IF cursor[i] = <<>> THEN UNCHANGED <<current, time_to_play, debt>>
              ELSE /\ current' = i
                   /\ time_to_play' = [time_to_play EXCEPT ![i] = @ + time]
                   /\ debt' = [debt EXCEPT ![i] = @ + time]
    /\ UNCHANGED <<safeVars, cursor, value, event_mask_old, kdb_state, phase, fastest_flag>>

\* hardware_script_idle_single(): time is given to the next script, that is
\* first stopped by hardware_script_terminate().  One that has ended plays
\* nothing, and its time is forgotten when it starts again.
Give ==
    /\ current = Nobody /\ todo # <<>>
    /\ LET i == Head(todo)
           time == IF phase = "frame" THEN FrameTime ELSE Second
       IN  /\ todo' = Tail(todo)
           /\ condition' = IF phase = "frame" THEN condition ELSE [condition EXCEPT ![i] = FALSE]
           /\ IF cursor[i] = <<>> THEN UNCHANGED <<current, time_to_play, debt>>
              ELSE /\ current' = i
                   /\ time_to_play' = [time_to_play EXCEPT ![i] = @ + time]
                   /\ debt' = [debt EXCEPT ![i] = @ + time]
    /\ UNCHANGED <<safeVars, cursor, value, event_mask_old, kdb_state, phase, fastest_flag>>

\* The loop of script_run() ends.
Return(i) ==
    /\ current = i /\ ~Plays(i)
    /\ current' = Nobody
    /\ IF cursor[i] # <<>> THEN UNCHANGED <<time_to_play, debt>>
       ELSE /\ time_to_play' = [time_to_play EXCEPT ![i] = 0]
            /\ debt' = [debt EXCEPT ![i] = 0]
    /\ UNCHANGED <<safeVars, cursor, value, condition, event_mask_old, kdb_state, control>>

---------------------------------------------------------------------------
(* The emulation. *)

Idle == current = Nobody /\ todo = <<>>

\* osd2_video_init() starts the video script; the machine is then reset.
Init ==
    /\ SafeInit
    /\ cursor = [i \in Script |-> IF i = "video" THEN <<first[i]>> ELSE <<>>]
    /\ time_to_play = [i \in Script |-> 0] /\ debt = [i \in Script |-> 0]
    /\ value = [s \in Stmt |-> Unset]
    /\ condition = [i \in Script |-> i = "video"]
    /\ event_mask_old = {}
    /\ kdb_state = {}
    /\ fastest_flag = FALSE
    /\ phase = "reset" /\ todo = <<"play", "emulation">> /\ current = Nobody

\* video_command_event(): the events that start or stop a script are those that
\* differ from the last frame.
Events(input) ==
    input \union {i \in Script \ Input : (i = "safequit" /\ CanExit) \/ i \in status}

\* Deliberate bug: an event that ends doesn't stop its script.
FrameStartsOnly ==
    /\ phase = "game"
    /\ \E input \in SUBSET Input :
        LET event_mask == Events(input)
        IN  /\ event_mask_old' = event_mask
            /\ Restart(event_mask \ event_mask_old)
            /\ condition' = [i \in Script |-> condition[i] \/ i \in event_mask]
    /\ phase' = "frame" /\ todo' = Order
    /\ UNCHANGED <<safeVars, kdb_state, fastest_flag, current>>

\* video_command(), at the start of a frame.
Frame ==
    /\ phase = "game"
    /\ \E input \in SUBSET Input :
        LET event_mask == Events(input)
        IN  /\ event_mask_old' = event_mask
            /\ Restart(event_mask \ event_mask_old)
            /\ condition' = [i \in Script |->
                   IF i \in event_mask \ event_mask_old THEN TRUE
                   ELSE IF i \in event_mask_old \ event_mask THEN FALSE
                   ELSE condition[i]]
    /\ phase' = "frame" /\ todo' = Order
    /\ UNCHANGED <<safeVars, kdb_state, fastest_flag, current>>

\* The rest of the frame: the startup may end, in video_command(), and the memory
\* of the game is read by advance_input_update().
FrameEnd ==
    /\ phase = "frame" /\ Idle
    /\ \/ UNCHANGED <<fastest_flag, machine, condition>>
       \/ /\ fastest_flag /\ fastest_flag' = FALSE
          /\ Restart({"play"})
          /\ condition' = [condition EXCEPT !["play"] = TRUE]
    /\ \E match \in SUBSET entry_map : SafeUpdate(match)
    /\ phase' = "game"
    /\ UNCHANGED <<event_mask_old, kdb_state, todo, current>>

\* osd_reset()
Reset ==
    /\ phase = "game"
    /\ phase' = "reset" /\ todo' = <<"play", "emulation">>
    /\ UNCHANGED <<safeVars, machine, condition, event_mask_old, kdb_state, fastest_flag, current>>

ResetEnd ==
    /\ phase = "reset" /\ Idle
    /\ \E fastest, measure \in BOOLEAN :
        LET ids == {"emulation"} \union (IF ~fastest \/ measure THEN {"play"} ELSE {})
        IN  /\ fastest_flag' = (fastest /\ ~measure)
            /\ Restart(ids)
            /\ condition' = [i \in Script |-> i \in ids \/ condition[i]]
    /\ phase' = "game"
    /\ UNCHANGED <<safeVars, event_mask_old, kdb_state, todo, current>>

\* osd2_video_done()
Done ==
    /\ phase = "game"
    /\ phase' = "done" /\ todo' = <<"play", "emulation", "video">>
    /\ UNCHANGED <<safeVars, machine, condition, event_mask_old, kdb_state, fastest_flag, current>>

DoneEnd ==
    /\ phase = "done" /\ Idle
    /\ phase' = "end"
    /\ UNCHANGED <<safeVars, machine, condition, event_mask_old, kdb_state, todo, fastest_flag, current>>

Ended == phase = "end" /\ UNCHANGED vars

Go == Give \/ (\E i \in Script : Step(i) \/ Return(i)) \/ Frame \/ FrameEnd \/ ResetEnd \/ DoneEnd

Next == Go \/ Reset \/ Done \/ Ended

\* The emulation goes on, unless it is closed, and however often it is reset its
\* machine computes frames.
Spec == Init /\ [][Next]_vars /\ WF_vars(Go) /\ SF_vars(Frame)

---------------------------------------------------------------------------
(* The stack of a script never exceeds the blocks of the script, that the  *)
(* parser doesn't count (script_run_cursor_push() does not either): the    *)
(* block at each place of the stack has that level, the end of a list is   *)
(* never executed, and only statements being executed keep a count.        *)
StackIsNesting ==
    /\ \A i \in Script :
        /\ cursor[i] # <<>> => Top(i) # End
        /\ \A k \in 1..Len(cursor[i]) :
            cursor[i][k] # End => level[cursor[i][k]] = Len(cursor[i]) - k + 1
    /\ \A s \in Stmt : value[s] # Unset =>
        \E i \in Script : \E k \in 1..Len(cursor[i]) : cursor[i][k] = s

(* Frames are not multiples of the unit of the delays, and a delay ends    *)
(* within a frame: none of the time given to a script is lost or used      *)
(* twice, and a delay in progress after the scripts have played still has  *)
(* something to wait for.                                                  *)
DelayIsExact ==
    \A i \in Script : cursor[i] # <<>> =>
        LET kept == Type(i) = "delay" /\ value[Top(i)] # Unset
        IN  /\ ~kept => debt[i] = time_to_play[i]
            /\ kept => debt[i] = time_to_play[i] + Unit * (cmd[Top(i)].count - value[Top(i)])
            /\ kept /\ current # i => debt[i] < Unit * cmd[Top(i)].count

(* A script whose event is over comes to its end, whatever the scripts     *)
(* before it do and however often it was started again before.             *)
StoppedEnds ==
    \A i \in Ending :
        <>[](i \notin event_mask_old) => <>(phase = "end" \/ [](cursor[i] = <<>>))

(* The scripts never keep the emulation from its next frame: a script that *)
(* waits gives up its time, and one that works uses it.                    *)
FramesGoOn == []<>(phase \in {"game", "end"})

ScriptsLetGo == StoppedEnds /\ FramesGoOn

\* The scripts that hardware_script_terminate() ends.  No event starts or stops them.
Stopped == {"play", "emulation", "video"}

\* Scripts for which a second is enough.  When its condition is over a statement and
\* those after it in its list need no more than need[s], the blocks around it no more
\* than around[s]: they don't wait for the event, and every loop ends with it.
Frugal(need, around) ==
    /\ need \in [Stmt -> Nat] /\ around \in [Stmt -> Nat]
    /\ Stopped \subseteq Script \ (Input \union Event)
    /\ \A s \in Stmt : owner[s] \in Stopped =>
        LET c == cmd[s]
            rest == IF c.next = End THEN 0 ELSE need[c.next]
            all == need[s] + around[s]
        IN  /\ all + Unit < Second
            /\ need[s] >= rest
            /\ c.next # End => around[c.next] >= around[s]
            /\ c.type # "loop"
            /\ c.type = "wait" => c.test = "noevent"
            /\ c.type = "delay" => need[s] >= c.count * Unit + rest
            /\ c.type = "while" => c.test = "event" /\ around[c.body] >= all
            /\ c.type = "repeat" =>
                /\ need[s] >= c.count * need[c.body] + rest
                /\ around[c.body] + need[c.body] >= all
            /\ c.type \in {"inner", "if"} =>
                /\ need[s] >= need[c.body] + rest
                /\ around[c.body] >= rest + around[s]

FrugalScripts == \E need, around : Frugal(need, around)

\* The default script_video: wait(!event()); set(kdb, 0);
DefaultVideo ==
    LET s == first["video"]
        t == cmd[s].next
    IN  /\ cmd[s].type = "wait" /\ cmd[s].test = "noevent" /\ t \in Stmt
        /\ cmd[t].type = "evaluate" /\ cmd[t].next = End
        /\ cmd[t].effect = [leds \in SUBSET Led |-> {}]

(* The second given by hardware_script_terminate() is enough: the script   *)
(* of the last game has ended when that of the next starts, and at the end *)
(* of the program no script is left and no led is on.                      *)
EndIsClean ==
    /\ phase \in {"reset", "done"} /\ Idle => cursor["play"] = <<>> /\ cursor["emulation"] = <<>>
    /\ phase = "end" => cursor["video"] = <<>> /\ kdb_state = {}
=============================================================================
