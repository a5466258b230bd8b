----------------------------- MODULE ThreadFifo -----------------------------
(***************************************************************************)
(* advance/osd/thfifo.c: osd_parallelize() for any number of processors.   *)
(* The shares of a call, but the first, are pushed in a fifo of works that *)
(* a set of threads empties; a share may divide a call in its turn, and a  *)
(* thread that waits for a call does not take other works: the divided     *)
(* calls are limited by the threads that are ready.                        *)
(*                                                                         *)
(* A step is what a thread does while it holds work_mutex or the mutex of  *)
(* a group.                                                                *)
(***************************************************************************)
EXTENDS Naturals, FiniteSets, Sequences

CONSTANTS
    MaxCalls, MaxWide, MaxDepth, MaxShares, \* bounds, see ForkJoin
    Workers,                \* the threads created by thread_init()
    Main,                   \* the thread of the emulation
    Processors              \* sysconf(_SC_NPROCESSORS_ONLN)

THREAD_EXTRA == 2
work_limit == Processors + 1
work_max == work_limit + THREAD_EXTRA

ASSUME BoundsAssumption == {MaxCalls, MaxWide, MaxDepth, MaxShares} \subseteq Nat
ASSUME ProcessorsAssumption == Processors \in Nat \ {0}
ASSUME WorkersAssumption == IsFiniteSet(Workers) /\ Cardinality(Workers) = work_max
ASSUME MainAssumption == Main \notin Workers

VARIABLES
    size, begun, ended, back,   \* the history of the calls, see ForkJoin
    work_fifo,      \* the shares to be run, the last pushed first
    work_running, work_ready,
    thread_exit,
    sleeping,       \* the workers waiting on work_notempty
    count,          \* the count of the group of each call
    pc,             \* the place of each worker
    work,           \* the share each worker runs, or None
    stack           \* the calls each thread is in, the last one first

history == <<size, begun, ended, back>>
load == <<work_running, work_ready>>
vars == <<history, work_fifo, load, thread_exit, sleeping, count, pc, work, stack>>

Promise == INSTANCE ForkJoin

Thread == Workers \union {Main}
None == <<>>

Frame == [call : Promise!Call, n : 1..MaxShares, next : 1..MaxShares,
          at : {"count", "push", "func", "leave", "wait", "sleep", "enter"}]

TypeOK ==
    /\ Promise!TypeOK
    /\ \A i \in 1..Len(work_fifo) : work_fifo[i] \in Promise!Share
    /\ work_running \in 0..1 + work_max /\ work_ready \in 0..work_max
    /\ thread_exit \in BOOLEAN
    /\ sleeping \subseteq Workers
    /\ count \in [Promise!Call -> 0..MaxShares]
    /\ pc \in [Workers -> {"top", "sleep", "func", "end", "exited"}]
    /\ work \in [Workers -> Promise!Share \union {None}]
    /\ \A t \in Thread : Len(stack[t]) <= MaxDepth + 1 /\ \A i \in 1..Len(stack[t]) : stack[t][i] \in Frame

\* thread_init()
Init ==
    /\ Promise!Init
    /\ work_fifo = <<>>
    /\ work_running = 1 + work_max /\ work_ready = 0
    /\ thread_exit = FALSE
    /\ sleeping = {}
    /\ count = [c \in Promise!Call |-> 0]
    /\ pc = [w \in Workers |-> "top"] /\ work = [w \in Workers |-> None]
    /\ stack = [t \in Thread |-> <<>>]

\* The share a thread is running, None if it is in osd_parallelize() or idle.
Running(t) ==
    IF stack[t] # <<>>
    THEN IF Head(stack[t]).at = "func" THEN <<Head(stack[t]).call, 0>> ELSE None
    ELSE IF t # Main /\ pc[t] = "func" THEN work[t] ELSE None

At(t, place) == stack[t] # <<>> /\ Head(stack[t]).at = place
Top(t) == Head(stack[t])
Go(t, place) == stack' = [stack EXCEPT ![t][1].at = place]

\* pthread_cond_signal() on work_notempty: one of the threads, if any, goes on.
Woken(w) == IF w = {} THEN {{}} ELSE {w \ {t} : t \in w}

---------------------------------------------------------------------------
(* osd_parallelize() *)

\* Bound on the calls of an outer call: a few, or a chain of last shares.
Bounded(c) ==
    LET made == {d \in Promise!Call : size[d] # 0} \union {c}
    IN  \/ \A d \in made : Len(d[2]) <= MaxWide
        \/ \A d \in made : \A i \in 1..Len(d[2]) : d[2][i] = MaxShares - 1

\* The calls a thread can make.
Callable(t) ==
    {c \in Promise!Call :
        /\ size[c] = 0 /\ Bounded(c)
        /\ IF Promise!IsOuter(c)
           THEN /\ t = Main /\ stack[t] = <<>> /\ ~thread_exit
                /\ \A r \in 1..c[1] - 1 : size[<<r, <<>>>>] # 0
           ELSE Running(t) # None /\ Promise!MayNest(Running(t)) /\ c = Promise!Inner(Running(t))}

\* work_free_get(): the shares for an optimal load.
work_free_get ==
    IF work_running >= work_limit THEN 1
    ELSE 1 + IF work_ready + work_running > work_limit THEN work_limit - work_running
             ELSE work_ready

\* As many shares as asked for, up to the threads suggested; all in the caller
\* if the threads are not active.
Parallelize(t) ==
    /\ \E c \in Callable(t), active \in BOOLEAN, max \in 1..MaxShares :
        LET n == IF ~active THEN 1 ELSE IF max > work_free_get THEN work_free_get ELSE max
        IN  /\ size' = [size EXCEPT ![c] = n]
            /\ stack' = [stack EXCEPT ![t] =
                  <<[call |-> c, n |-> n, next |-> 1, at |-> IF n = 1 THEN "func" ELSE "count"]>> \o @]
            /\ begun' = IF n = 1 THEN begun \union {<<c, 0>>} ELSE begun
    /\ UNCHANGED <<ended, back, work_fifo, load, thread_exit, sleeping, count, pc, work>>

\* group_put(): under the lock of the group ...
GroupCount(t) ==
    /\ At(t, "count") /\ Go(t, "push")
    /\ count' = [count EXCEPT ![Top(t).call] = @ + 1]
    /\ UNCHANGED <<history, work_fifo, load, thread_exit, sleeping, pc, work>>

\* ... then under the lock of the fifo; the first share begins after the last put.
GroupPush(t) ==
    /\ At(t, "push")
    /\ work_fifo' = <<<<Top(t).call, Top(t).next>>>> \o work_fifo
    /\ sleeping' \in Woken(sleeping)
    /\ IF Top(t).next + 1 < Top(t).n
       THEN /\ stack' = [stack EXCEPT ![t][1] = [Top(t) EXCEPT !.next = Top(t).next + 1, !.at = "count"]]
            /\ UNCHANGED begun
       ELSE Go(t, "func") /\ begun' = begun \union {<<Top(t).call, 0>>}
    /\ UNCHANGED <<size, ended, back, load, thread_exit, count, pc, work>>

FuncEnds(t) ==
    /\ At(t, "func")
    /\ ended' = ended \union {Running(t)}
    /\ IF Top(t).n = 1
       THEN stack' = [stack EXCEPT ![t] = Tail(@)] /\ back' = back \union {Top(t).call}
       ELSE Go(t, "leave") /\ UNCHANGED back
    /\ UNCHANGED <<size, begun, work_fifo, load, thread_exit, sleeping, count, pc, work>>

\* group_wait(): the thread is not counted as running while it waits.
GroupLeave(t) ==
    /\ At(t, "leave") /\ Go(t, "wait")
    /\ work_running' = work_running - 1
    /\ UNCHANGED <<history, work_fifo, work_ready, thread_exit, sleeping, count, pc, work>>

\* Deliberate bug: the works are not waited for.
GroupWaitNot(t) ==
    /\ At(t, "wait") /\ Go(t, "enter")
    /\ UNCHANGED <<history, work_fifo, load, thread_exit, sleeping, count, pc, work>>

GroupWait(t) ==
    /\ At(t, "wait")
    /\ Go(t, IF count[Top(t).call] = 0 THEN "enter" ELSE "sleep")
    /\ UNCHANGED <<history, work_fifo, load, thread_exit, sleeping, count, pc, work>>

GroupEnter(t) ==
    /\ At(t, "enter")
    /\ work_running' = work_running + 1
    /\ stack' = [stack EXCEPT ![t] = Tail(@)] /\ back' = back \union {Top(t).call}
    /\ UNCHANGED <<size, begun, ended, work_fifo, work_ready, thread_exit, sleeping, count, pc, work>>

---------------------------------------------------------------------------
(* group_func() *)

\* Deliberate bug: the work is left in the fifo when there are others.
PopKeeps(w) ==
    /\ work' = [work EXCEPT ![w] = work_fifo[Len(work_fifo)]]
    /\ work_fifo' = IF Len(work_fifo) = 1 THEN <<>> ELSE work_fifo
    /\ begun' = begun \union {work_fifo[Len(work_fifo)]}
    /\ pc' = [pc EXCEPT ![w] = "func"]

\* work_fifo_pop(): the first pushed.
Pop(w) ==
    /\ work' = [work EXCEPT ![w] = work_fifo[Len(work_fifo)]]
    /\ work_fifo' = SubSeq(work_fifo, 1, Len(work_fifo) - 1)
    /\ begun' = begun \union {work_fifo[Len(work_fifo)]}
    /\ pc' = [pc EXCEPT ![w] = "func"]

\* A thread without a work becomes ready and waits for one, then takes it.
WorkWait(w) ==
    /\ pc[w] = "top" /\ work_fifo = <<>> /\ ~thread_exit
    /\ work_running' = work_running - 1 /\ work_ready' = work_ready + 1
    /\ pc' = [pc EXCEPT ![w] = "sleep"] /\ sleeping' = sleeping \union {w}
    /\ UNCHANGED <<history, work_fifo, thread_exit, count, work, stack>>

WorkTake(w) ==
    /\ pc[w] = "top" /\ work_fifo # <<>> /\ ~thread_exit
    /\ Pop(w)
    /\ UNCHANGED <<size, ended, back, load, thread_exit, sleeping, count, stack>>

\* Deliberate bug: the thread is still counted as ready.
WorkWakeTakeReady(w) ==
    /\ pc[w] = "sleep" /\ w \notin sleeping /\ work_fifo # <<>> /\ ~thread_exit
    /\ work_running' = work_running + 1
    /\ Pop(w)
    /\ UNCHANGED <<size, ended, back, work_ready, thread_exit, sleeping, count, stack>>

WorkWakeTake(w) ==
    /\ pc[w] = "sleep" /\ w \notin sleeping /\ work_fifo # <<>> /\ ~thread_exit
    /\ work_running' = work_running + 1 /\ work_ready' = work_ready - 1
    /\ Pop(w)
    /\ UNCHANGED <<size, ended, back, thread_exit, sleeping, count, stack>>

WorkSleepAgain(w) ==
    /\ pc[w] = "sleep" /\ w \notin sleeping /\ work_fifo = <<>> /\ ~thread_exit
    /\ sleeping' = sleeping \union {w}
    /\ UNCHANGED <<history, work_fifo, load, thread_exit, count, pc, work, stack>>

WorkExit(w) ==
    /\ thread_exit
    /\ \/ pc[w] = "top" /\ UNCHANGED load
       \/ /\ pc[w] = "sleep" /\ w \notin sleeping
          /\ work_running' = work_running + 1 /\ work_ready' = work_ready - 1
    /\ pc' = [pc EXCEPT ![w] = "exited"]
    /\ UNCHANGED <<history, work_fifo, thread_exit, sleeping, count, work, stack>>

WorkEnds(w) ==
    /\ pc[w] = "func" /\ stack[w] = <<>>
    /\ ended' = ended \union {work[w]}
    /\ pc' = [pc EXCEPT ![w] = "end"]
    /\ UNCHANGED <<size, begun, back, work_fifo, load, thread_exit, sleeping, count, work, stack>>

\* Deliberate bug: the waiting thread is told before the last work.
WorkSignalsEarly(w) ==
    /\ pc[w] = "end"
    /\ count' = [count EXCEPT ![work[w][1]] = @ - 1]
    /\ stack' = [t \in Thread |->
          IF count[work[w][1]] = 0 /\ At(t, "sleep") /\ Top(t).call = work[w][1]
          THEN [stack[t] EXCEPT ![1].at = "wait"] ELSE stack[t]]
    /\ pc' = [pc EXCEPT ![w] = "top"] /\ work' = [work EXCEPT ![w] = None]
    /\ UNCHANGED <<history, work_fifo, load, thread_exit, sleeping>>

\* The last of the group tells the thread that waits for it.
WorkSignals(w) ==
    /\ pc[w] = "end"
    /\ LET c == work[w][1] IN
        /\ count' = [count EXCEPT ![c] = @ - 1]
        /\ stack' = [t \in Thread |->
              IF count'[c] = 0 /\ At(t, "sleep") /\ Top(t).call = c
              THEN [stack[t] EXCEPT ![1].at = "wait"] ELSE stack[t]]
    /\ pc' = [pc EXCEPT ![w] = "top"] /\ work' = [work EXCEPT ![w] = None]
    /\ UNCHANGED <<history, work_fifo, load, thread_exit, sleeping>>

\* A wait may end without a signal.
Spurious ==
    /\ \/ \E w \in sleeping : sleeping' = sleeping \ {w} /\ UNCHANGED stack
       \/ \E t \in Thread : At(t, "sleep") /\ Go(t, "wait") /\ UNCHANGED sleeping
    /\ UNCHANGED <<history, work_fifo, load, thread_exit, count, pc, work>>

---------------------------------------------------------------------------
\* thread_done(): the exit is set without the lock, then the threads are told.
Done ==
    /\ ~thread_exit /\ stack[Main] = <<>>
    /\ thread_exit' = TRUE
    /\ UNCHANGED <<history, work_fifo, load, sleeping, count, pc, work, stack>>

\* Deliberate bug: only the threads already told wake up.
BroadcastNone ==
    /\ thread_exit /\ sleeping # {}
    /\ UNCHANGED vars

Broadcast ==
    /\ thread_exit /\ sleeping # {}
    /\ sleeping' = {}
    /\ UNCHANGED <<history, work_fifo, load, thread_exit, count, pc, work, stack>>

Joined == thread_exit /\ (\A w \in Workers : pc[w] = "exited") /\ UNCHANGED vars

Caller(t) ==
    GroupCount(t) \/ GroupPush(t) \/ FuncEnds(t) \/ GroupLeave(t) \/ GroupWait(t) \/ GroupEnter(t)

Worker(w) ==
    \/ WorkWait(w) \/ WorkTake(w) \/ WorkWakeTake(w) \/ WorkSleepAgain(w) \/ WorkExit(w)
    \/ WorkEnds(w) \/ WorkSignals(w)

Next ==
    \/ \E t \in Thread : Parallelize(t) \/ Caller(t)
    \/ \E w \in Workers : Worker(w)
    \/ Spurious \/ Done \/ Broadcast \/ Joined

Spec == Init /\ [][Next]_vars

\* The threads are scheduled, the functions end and thread_done() goes on.
FairSpec ==
    /\ Spec
    /\ \A t \in Thread : WF_vars(Caller(t))
    /\ \A w \in Workers : WF_vars(Worker(w))
    /\ WF_vars(Broadcast)

---------------------------------------------------------------------------
(* Each share of each call is run exactly once, the call returns after all *)
(* of them, and calls nest: see ForkJoin.                                  *)
Implements == Promise!Spec

(* The group of a call, that lies in the stack of the caller, is used by   *)
(* nobody once the call has returned.                                      *)
GroupOutlivesWorks ==
    \A c \in back :
        /\ count[c] = 0
        /\ \A w \in Workers : work[w] # None => work[w][1] # c
        /\ \A i \in 1..Len(work_fifo) : work_fifo[i][1] # c

(* A thread that waits for its call takes no work, yet the works are never *)
(* left without a thread to run them: a worker divides a call only when    *)
(* another is ready, so one at least has divided no call.                  *)
SomebodyWorks ==
    \E w \in Workers : \A i \in 1..Len(stack[w]) : stack[w][i].n = 1

(* Every call returns: the threads always come to have no call in progress,*)
(* since the calls are limited.                                            *)
CallsReturn == []<>(\A c \in Promise!Call : size[c] # 0 => c \in back)

(* thread_done() does not wait for ever for a thread.                      *)
WorkersEnd == thread_exit ~> \A w \in Workers : pc[w] = "exited"
=============================================================================
