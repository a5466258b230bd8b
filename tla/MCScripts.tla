----------------------------- MODULE MCScripts -----------------------------
(* The default script_video, with others that use all the statements.        *)
EXTENDS Scripts, TLC

MCEventOf == "z" :> "zerocoin" @@ "d" :> "demomode" @@ "x" :> "event1"

MCGames == {{}, {"x"}, {"z", "d"}}

MCOrder == <<"video", "emulation", "play", "turbo", "safequit">>
MCScript == {MCOrder[k] : k \in DOMAIN MCOrder}

Evaluating(f(_), next) ==
    [type |-> "evaluate", effect |-> [leds \in SUBSET Led |-> f(leds)], next |-> next]
Off(led, next) == Evaluating(LAMBDA leds : leds \ {led}, next)
Toggle(led, next) ==
    Evaluating(LAMBDA leds : IF led \in leds THEN leds \ {led} ELSE leds \union {led}, next)
Clear(next) == Evaluating(LAMBDA leds : {}, next)
Waiting(test, next) == [type |-> "wait", test |-> test, next |-> next]
Delaying(n, next) == [type |-> "delay", count |-> n, next |-> next]
Repeating(n, body, next) == [type |-> "repeat", count |-> n, body |-> body, next |-> next]
Blocks(type, body, next) == [type |-> type, body |-> body, next |-> next]
Testing(type, test, body, next) == [type |-> type, test |-> test, body |-> body, next |-> next]

\* script_video: wait(!event()); set(kdb, 0);
VideoCmd == "v1" :> Waiting("noevent", "v2") @@ "v2" :> Clear(End)

\* script_emulation: wait(!event());
EmulationCmd == "e1" :> Waiting("noevent", End)

\* script_play: repeat(2) { if (get(...)) { delay(1); }
\*                          { while (event()) { toggle(kdb, 0b1); delay(2); } } }
PlayCmd ==
    "p1" :> Repeating(2, "p2", End) @@
    "p2" :> Testing("if", "any", "p3", "p4") @@ "p3" :> Delaying(1, End) @@
    "p4" :> Blocks("inner", "p5", End) @@
    "p5" :> Testing("while", "event", "p6", End) @@
    "p6" :> Toggle(1, "p7") @@ "p7" :> Delaying(2, End)

\* script_turbo: while (event()) { toggle(kdb, 0b100); delay(3); } off(kdb, 0b100);
TurboCmd ==
    "t1" :> Testing("while", "event", "t2", "t4") @@
    "t2" :> Toggle(3, "t3") @@ "t3" :> Delaying(3, End) @@ "t4" :> Off(3, End)

\* script_safequit: loop { wait(event()); wait(!event()); }
QuitCmd ==
    "q1" :> Blocks("loop", "q2", End) @@
    "q2" :> Waiting("event", "q3") @@ "q3" :> Waiting("noevent", End)

MCcmd == VideoCmd @@ EmulationCmd @@ PlayCmd @@ TurboCmd @@ QuitCmd
MCStmt == DOMAIN MCcmd
MCfirst ==
    "video" :> "v1" @@ "emulation" :> "e1" @@ "play" :> "p1" @@
    "turbo" :> "t1" @@ "safequit" :> "q1"
MCowner ==
    [s \in MCStmt |-> CASE s \in DOMAIN VideoCmd -> "video"
                        [] s \in DOMAIN EmulationCmd -> "emulation"
                        [] s \in DOMAIN PlayCmd -> "play"
                        [] s \in DOMAIN TurboCmd -> "turbo"
                        [] s \in DOMAIN QuitCmd -> "safequit"]
\* What the scripts that are stopped need to end: no more than two delays, that are
\* four microseconds here, in a second of sixteen.
MCneed ==
    [s \in MCStmt |-> CASE s \in {"p1", "p6", "p7"} -> 4 [] s \in {"p2", "p3"} -> 2 [] OTHER -> 0]
MCaround ==
    [s \in MCStmt |-> IF s \in DOMAIN PlayCmd \ {"p1"} THEN 2 ELSE 0]
MClevel ==
    [s \in MCStmt |-> CASE s \in {"p2", "p4", "t2", "t3", "q2", "q3"} -> 2
                        [] s \in {"p3", "p5"} -> 3
                        [] s \in {"p6", "p7"} -> 4
                        [] OTHER -> 1]

\* The hypotheses of the theorem about EndIsClean hold of these scripts.
ASSUME FrugalAssumption == Frugal(MCneed, MCaround) /\ DefaultVideo
=============================================================================
