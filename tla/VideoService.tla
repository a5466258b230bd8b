--------------------------- MODULE VideoService ---------------------------
(***************************************************************************)
(* What the video thread promises to the emulation thread, whatever the    *)
(* locking: a server with one request at a time.  A request is performed   *)
(* exactly once, then released; no request is posted over another one.     *)
(***************************************************************************)
EXTENDS Naturals

VARIABLES
    request,    \* the request in hand, "none" when the server is free
    performed,  \* its effect has taken place
    posted,     \* the frames requested
    heard       \* the last frame performed

vars == <<request, performed, posted, heard>>

Init == request = "none" /\ performed = FALSE /\ posted = 0 /\ heard = 0

Post ==
    /\ request = "none"
    /\ request' \in {"frame", "done", "update"}
    /\ posted' = IF request' = "frame" THEN posted + 1 ELSE posted
    /\ UNCHANGED <<performed, heard>>

Perform ==
    /\ request # "none" /\ ~performed
    /\ performed' = TRUE
    /\ heard' = IF request = "frame" THEN posted ELSE heard
    /\ UNCHANGED <<request, posted>>

Release ==
    /\ performed
    /\ request' = "none" /\ performed' = FALSE
    /\ UNCHANGED <<posted, heard>>

Next == Post \/ Perform \/ Release

\* A frame is always performed, and what was performed is released.  (The thread
\* that performs a change of mode may have failed to start.)
Fairness == WF_vars(request = "frame" /\ Perform) /\ WF_vars(Release)

Spec == Init /\ [][Next]_vars /\ Fairness
=============================================================================
