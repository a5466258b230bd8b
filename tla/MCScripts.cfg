CONSTANTS
    Entry = {"z", "d", "x"}
    EventOf <- MCEventOf
    Games <- MCGames
    Fps = 2
    Script <- MCScript
    Input = {"turbo"}
    Order <- MCOrder
    Stmt <- MCStmt
    End = "end"
    first <- MCfirst
    cmd <- MCcmd
    level <- MClevel
    owner <- MCowner
    MaxLevel = 4
    Led = {1, 3}
    Unit = 2
    FrameTime = 3
    Second = 16
    Ending = {"turbo"}
SPECIFICATION Spec
INVARIANTS
    SafeAfterASecond
    StackIsNesting
    DelayIsExact
    EndIsClean
PROPERTIES
    ScriptsLetGo
