---------------------------- MODULE ThreadDouble ----------------------------
(***************************************************************************)
(* advance/osd/thdouble.c: osd_parallelize() with one companion thread,    *)
(* that runs the second share of a call while the caller runs the first.   *)
(* A call made while another is in progress, by any of the two threads, is *)
(* not divided.                                                            *)
(*                                                                         *)
(* A step is what a thread does while it holds thread_mutex, or one access *)
(* to the state that is not protected by it.                               *)
(***************************************************************************)
EXTENDS Naturals, Sequences

CONSTANTS MaxCalls, MaxWide, MaxDepth, MaxShares   \* bounds, see ForkJoin

ASSUME BoundsAssumption == {MaxCalls, MaxWide, MaxDepth, MaxShares} \subseteq Nat
ASSUME SharesAssumption == MaxShares >= 2

VARIABLES
    size, begun, ended, back,   \* the history of the calls, see ForkJoin
    thread_func,    \* the call whose second share is to be run, or None
    thread_arg,     \* the argument of thread_func, or None
    thread_inuse, thread_exit,
    waiters,        \* the threads waiting on thread_cond
    pc, func,       \* the place of thread_proc() and the call it took
    work,           \* the share run by thread_proc(), or None
    stack           \* the calls each thread is in, the last one first

history == <<size, begun, ended, back>>
signals == <<thread_func, thread_arg, waiters>>
proc == <<pc, func, work>>
vars == <<history, signals, thread_inuse, thread_exit, proc, stack>>

Promise == INSTANCE ForkJoin

Thread == {"main", "companion"}
None == <<>>

Frame == [call : Promise!Call, n : 1..2, at : {"claim", "post", "func", "wait", "sleep", "free"}]

TypeOK ==
    /\ Promise!TypeOK
    /\ thread_func \in Promise!Call \union {None} /\ thread_arg \in Promise!Call \union {None}
    /\ thread_inuse \in BOOLEAN /\ thread_exit \in BOOLEAN
    /\ waiters \subseteq Thread
    /\ pc \in {"top", "sleep", "call", "func", "end", "exited"}
    /\ func \in Promise!Call \union {None}
    /\ work \in Promise!Share \union {None}
    /\ \A t \in Thread : Len(stack[t]) <= MaxDepth + 1 /\ \A i \in 1..Len(stack[t]) : stack[t][i] \in Frame

Init ==
    /\ Promise!Init
    /\ thread_func = None /\ thread_arg = None
    /\ thread_inuse = FALSE /\ thread_exit = FALSE
    /\ waiters = {}
    /\ pc = "top" /\ func = None /\ work = None
    /\ stack = [t \in Thread |-> <<>>]

\* The share a thread is running, None if it is in osd_parallelize() or idle.
Running(t) ==
    IF stack[t] # <<>>
    THEN IF Head(stack[t]).at = "func" THEN <<Head(stack[t]).call, 0>> ELSE None
    ELSE IF t = "companion" /\ pc = "func" THEN work ELSE None

At(t, place) == stack[t] # <<>> /\ Head(stack[t]).at = place
Go(t, place) == stack' = [stack EXCEPT ![t][1].at = place]
Push(t, c, n, place) ==
    stack' = [stack EXCEPT ![t] = <<[call |-> c, n |-> n, at |-> place]>> \o stack[t]]

\* pthread_cond_signal(): one of the waiters, if any, goes on.
Woken(w) == IF w = {} THEN {{}} ELSE {w \ {t} : t \in w}

---------------------------------------------------------------------------
(* osd_parallelize() *)

\* The calls a thread can make.
Callable(t) ==
    {c \in Promise!Call :
        /\ size[c] = 0
        /\ IF Promise!IsOuter(c)
           THEN /\ t = "main" /\ stack[t] = <<>> /\ ~thread_exit
                /\ \A r \in 1..c[1] - 1 : size[<<r, <<>>>>] # 0
           ELSE Running(t) # None /\ Promise!MayNest(Running(t)) /\ c = Promise!Inner(Running(t))}

\* The early returns of osd_parallelize().
Divided(active, max) == active /\ max > 1 /\ ~thread_inuse

Parallelize(t) ==
    /\ \E c \in Callable(t), active \in BOOLEAN, max \in 1..MaxShares :
        IF Divided(active, max)
        THEN /\ Push(t, c, 2, "claim")
             /\ size' = [size EXCEPT ![c] = 2] /\ UNCHANGED begun
        ELSE /\ Push(t, c, 1, "func")
             /\ size' = [size EXCEPT ![c] = 1] /\ begun' = begun \union {<<c, 0>>}
    /\ UNCHANGED <<ended, back, signals, thread_inuse, thread_exit, proc>>

Claim(t) ==
    /\ At(t, "claim") /\ Go(t, "post")
    /\ thread_inuse' = TRUE
    /\ UNCHANGED <<history, signals, thread_exit, proc>>

\* The companion is told of the call, then the first share begins.
Post(t) ==
    /\ At(t, "post") /\ Go(t, "func")
    /\ thread_func' = Head(stack[t]).call /\ thread_arg' = Head(stack[t]).call
    /\ waiters' \in Woken(waiters)
    /\ begun' = begun \union {<<Head(stack[t]).call, 0>>}
    /\ UNCHANGED <<size, ended, back, thread_inuse, thread_exit, proc>>

\* Func returns: so does the call, if it is not divided.
FuncEnds(t) ==
    /\ At(t, "func")
    /\ ended' = ended \union {Running(t)}
    /\ IF Head(stack[t]).n = 1
       THEN stack' = [stack EXCEPT ![t] = Tail(@)] /\ back' = back \union {Head(stack[t]).call}
       ELSE Go(t, "wait") /\ UNCHANGED back
    /\ UNCHANGED <<size, begun, signals, thread_inuse, thread_exit, proc>>

\* Deliberate bug: the caller does not wait for the companion.
WaitNever(t) ==
    /\ At(t, "wait") /\ Go(t, "free")
    /\ UNCHANGED <<history, signals, thread_inuse, thread_exit, proc>>

\* The end of the companion is waited for.
Wait(t) ==
    /\ At(t, "wait")
    /\ IF thread_func = None THEN Go(t, "free") /\ UNCHANGED waiters
       ELSE Go(t, "sleep") /\ waiters' = waiters \union {t}
    /\ UNCHANGED <<history, thread_func, thread_arg, thread_inuse, thread_exit, proc>>

Wake(t) ==
    /\ At(t, "sleep") /\ t \notin waiters /\ Go(t, "wait")
    /\ UNCHANGED <<history, signals, thread_inuse, thread_exit, proc>>

Free(t) ==
    /\ At(t, "free")
    /\ thread_inuse' = FALSE
    /\ stack' = [stack EXCEPT ![t] = Tail(@)] /\ back' = back \union {Head(stack[t]).call}
    /\ UNCHANGED <<size, begun, ended, signals, thread_exit, proc>>

---------------------------------------------------------------------------
(* thread_proc() *)

\* The loop waits for a call or for the exit.
ProcTop ==
    /\ pc = "top" \/ (pc = "sleep" /\ "companion" \notin waiters)
    /\ \/ /\ thread_exit
          /\ pc' = "exited" /\ UNCHANGED <<waiters, func>>
       \/ /\ ~thread_exit /\ thread_func # None
          /\ pc' = "call" /\ func' = thread_func /\ UNCHANGED waiters
       \/ /\ ~thread_exit /\ thread_func = None
          /\ pc' = "sleep" /\ waiters' = waiters \union {"companion"} /\ UNCHANGED func
    /\ UNCHANGED <<history, thread_func, thread_arg, thread_inuse, thread_exit, work, stack>>

\* Without the lock, the argument is read and the second share begins.
ProcCall ==
    /\ pc = "call"
    /\ pc' = "func" /\ work' = <<thread_arg, 1>> /\ begun' = begun \union {work'}
    /\ UNCHANGED <<size, ended, back, func, signals, thread_inuse, thread_exit, stack>>

ProcEnds ==
    /\ pc = "func" /\ stack["companion"] = <<>>
    /\ pc' = "end" /\ work' = None /\ ended' = ended \union {work}
    /\ UNCHANGED <<size, begun, back, func, signals, thread_inuse, thread_exit, stack>>

\* Deliberate bug: nobody is told that the share has ended.
ProcSignalsNobody ==
    /\ pc = "end"
    /\ thread_func' = None
    /\ IF thread_exit THEN pc' = "exited" /\ UNCHANGED waiters
       ELSE pc' = "sleep" /\ waiters' = waiters \union {"companion"}
    /\ UNCHANGED <<history, thread_arg, thread_inuse, thread_exit, func, work, stack>>

\* The caller is told, and the loop waits again without leaving the lock.
ProcSignals ==
    /\ pc = "end"
    /\ thread_func' = None
    /\ \E w \in Woken(waiters) :
        IF thread_exit THEN pc' = "exited" /\ waiters' = w
        ELSE pc' = "sleep" /\ waiters' = w \union {"companion"}
    /\ UNCHANGED <<history, thread_arg, thread_inuse, thread_exit, func, work, stack>>

\* A wait may end without a signal.
Spurious ==
    /\ \E t \in waiters : waiters' = waiters \ {t}
    /\ UNCHANGED <<history, thread_func, thread_arg, thread_inuse, thread_exit, proc, stack>>

\* thread_done(), before it joins the companion.
Done ==
    /\ ~thread_exit /\ stack["main"] = <<>>
    /\ thread_exit' = TRUE /\ waiters' \in Woken(waiters)
    /\ UNCHANGED <<history, thread_func, thread_arg, thread_inuse, proc, stack>>

Joined == thread_exit /\ pc = "exited" /\ UNCHANGED vars

Caller(t) == Claim(t) \/ Post(t) \/ FuncEnds(t) \/ Wait(t) \/ Wake(t) \/ Free(t)
Proc == ProcTop \/ ProcCall \/ ProcEnds \/ ProcSignals

Next ==
    \/ \E t \in Thread : Parallelize(t) \/ Caller(t)
    \/ Proc \/ Spurious \/ Done \/ Joined

Spec == Init /\ [][Next]_vars

\* Both threads are scheduled, and the functions end.
FairSpec == Spec /\ \A t \in Thread : WF_vars(Caller(t)) /\ WF_vars(Proc)

---------------------------------------------------------------------------
(* Each share of each call is run exactly once, the call returns after all *)
(* of them, and calls nest: see ForkJoin.                                  *)
Implements == Promise!Spec

(* Every call returns: no wakeup is lost on the condition that is used for *)
(* both the start and the end.                                             *)
CallsReturn == \A c \in Promise!Call : size[c] # 0 ~> c \in back

(* thread_done() does not wait for ever for the companion.                 *)
CompanionEnds == thread_exit ~> pc = "exited"

(* Neither the calls nor the end of the program hang. *)
NobodyHangs == CallsReturn /\ CompanionEnds
=============================================================================
