-------------------------- MODULE ThreadFifoProofs --------------------------
(***************************************************************************)
(* For any number of processors, calls and shares, and any depth of the    *)
(* calls within calls, the threads of ThreadFifo that wait for their calls *)
(* leave one to run the works.  A worker divides a call only if the count  *)
(* of the ready threads is not zero: that count has to be exact, and a     *)
(* ready thread to be in no call.                                          *)
(*                                                                         *)
(* The group of a call lies in the stack of its caller: the second part    *)
(* shows that no work touches it after the call, since its count is the    *)
(* number of the works that still may.                                     *)
(*                                                                         *)
(* The third part follows each share from the put to its end, and each     *)
(* call in the stack of its thread, and shows that ThreadFifo implements   *)
(* ForkJoin.                                                               *)
(***************************************************************************)
EXTENDS ThreadFifo, Integers, FiniteSetTheorems, SequenceTheorems, TLAPS

AnyFrame == [call : Promise!Call, n : Nat, next : Nat,
             at : {"count", "push", "func", "leave", "wait", "sleep", "enter"}]

Typing ==
    /\ pc \in [Workers -> {"top", "sleep", "func", "end", "exited"}]
    /\ stack \in [Thread -> Seq(AnyFrame)]
    /\ work_ready \in Nat /\ work_running \in Int

\* Only a worker that runs a share can be in a call.
IdleIsFree == \A w \in Workers : pc[w] # "func" => stack[w] = <<>>

Asleep == {w \in Workers : pc[w] = "sleep"}

ReadyIsExact == work_ready = Cardinality(Asleep)

\* A thread is in no divided call.
Whole(t) == \A i \in 1..Len(stack[t]) : stack[t][i].n = 1

SomebodyWhole == \E w \in Workers : Whole(w)

Inv == Typing /\ IdleIsFree /\ ReadyIsExact /\ SomebodyWhole

---------------------------------------------------------------------------
(* The workers that are asleep are finitely many.                          *)
LEMMA AsleepFinite == IsFiniteSet(Asleep)
  BY WorkersAssumption, FS_Subset DEF Asleep

(* A worker that falls asleep or wakes up changes the count by one.        *)
LEMMA FallsAsleep ==
  ASSUME NEW w \in Workers, Typing, ReadyIsExact, pc[w] # "sleep",
         pc' = [pc EXCEPT ![w] = "sleep"], work_ready' = work_ready + 1
  PROVE  ReadyIsExact'
  <1>1. Asleep' = Asleep \union {w}  BY DEF Asleep, Typing
  <1>2. w \notin Asleep  BY DEF Asleep
  <1>3. Cardinality(Asleep') = Cardinality(Asleep) + 1
    BY <1>1, <1>2, AsleepFinite, FS_AddElement
  <1> QED  BY <1>3 DEF ReadyIsExact

LEMMA WakesUp ==
  ASSUME NEW w \in Workers, NEW p \in {"func", "exited"}, Typing, ReadyIsExact, pc[w] = "sleep",
         pc' = [pc EXCEPT ![w] = p], work_ready' = work_ready - 1
  PROVE  ReadyIsExact' /\ work_ready' \in Nat
  <1>1. Asleep' = Asleep \ {w}  BY DEF Asleep, Typing
  <1>2. w \in Asleep  BY DEF Asleep
  <1>3. /\ IsFiniteSet(Asleep') /\ Cardinality(Asleep') = Cardinality(Asleep) - 1
    BY <1>1, <1>2, AsleepFinite, FS_RemoveElement
  <1>4. Cardinality(Asleep') \in Nat  BY <1>3, FS_CardinalityType
  <1> QED  BY <1>3, <1>4 DEF ReadyIsExact

LEMMA SameAsleep ==
  ASSUME ReadyIsExact, Asleep' = Asleep, work_ready' = work_ready
  PROVE  ReadyIsExact'
  BY DEF ReadyIsExact

(* A worker that finds the threads free for a divided call finds another   *)
(* one asleep.                                                             *)
LEMMA FreeHasSleeper ==
  ASSUME Inv, work_free_get > 1
  PROVE  \E w \in Workers : pc[w] = "sleep" /\ stack[w] = <<>>
  <1>1. work_ready # 0
    BY ProcessorsAssumption DEF Inv, Typing, work_free_get, work_limit
  <1>2. Asleep # {}
    BY <1>1, FS_EmptySet DEF Inv, ReadyIsExact
  <1> QED  BY <1>2 DEF Asleep, Inv, IdleIsFree

---------------------------------------------------------------------------
(* The steps that only move a call of a thread from place to place.        *)
LEMMA GoTyped ==
  ASSUME NEW t \in Thread, NEW p \in {"count", "push", "func", "leave", "wait", "sleep", "enter"},
         Typing, stack[t] # <<>>, Go(t, p)
  PROVE  /\ stack' \in [Thread -> Seq(AnyFrame)]
         /\ \A u \in Thread : Whole(u) => Whole(u)'
         /\ \A u \in Thread : stack[u] = <<>> => stack'[u] = <<>>
  <1> DEFINE f == [stack[t][1] EXCEPT !.at = p]
             s == [stack[t] EXCEPT ![1] = f]
  <1>1. stack[t] \in Seq(AnyFrame) /\ Len(stack[t]) \in Nat /\ 1 \in 1..Len(stack[t])
    BY DEF Typing
  <1>2. stack[t][1] \in AnyFrame  BY <1>1
  <1>3. f \in AnyFrame /\ f.n = stack[t][1].n  BY <1>2 DEF AnyFrame
  <1>4. /\ s \in Seq(AnyFrame) /\ Len(s) = Len(stack[t])
        /\ \A i \in 1..Len(s) : s[i].n = stack[t][i].n
    BY <1>1, <1>3
  <1>5. stack' = [stack EXCEPT ![t] = s]  BY DEF Go, Typing
  <1> HIDE DEF s
  <1>6. stack' \in [Thread -> Seq(AnyFrame)]  BY <1>4, <1>5 DEF Typing
  <1>7. ASSUME NEW u \in Thread, Whole(u) PROVE Whole(u)'
    <2>1. CASE u = t  BY <2>1, <1>4, <1>5, <1>7 DEF Whole, Typing
    <2>2. CASE u # t  BY <2>2, <1>5, <1>7 DEF Whole, Typing
    <2> QED  BY <2>1, <2>2
  <1>8. ASSUME NEW u \in Thread, stack[u] = <<>> PROVE stack'[u] = <<>>
    BY <1>5, <1>8 DEF Typing
  <1> QED  BY <1>6, <1>7, <1>8

(* The steps that leave a call.                                            *)
LEMMA PopTyped ==
  ASSUME NEW t \in Thread, Typing, stack[t] # <<>>, stack' = [stack EXCEPT ![t] = Tail(@)]
  PROVE  /\ stack' \in [Thread -> Seq(AnyFrame)]
         /\ \A u \in Thread : Whole(u) => Whole(u)'
         /\ \A u \in Thread : stack[u] = <<>> => stack'[u] = <<>>
  <1>1. stack[t] \in Seq(AnyFrame)  BY DEF Typing
  <1>2. /\ Tail(stack[t]) \in Seq(AnyFrame) /\ Len(Tail(stack[t])) = Len(stack[t]) - 1
        /\ \A i \in 1..Len(Tail(stack[t])) : Tail(stack[t])[i] = stack[t][i + 1]
    BY <1>1
  <1>3. stack' \in [Thread -> Seq(AnyFrame)]  BY <1>2 DEF Typing
  <1>4. ASSUME NEW u \in Thread, Whole(u) PROVE Whole(u)'
    <2>1. CASE u = t
      <3>1. stack'[u] = Tail(stack[t])  BY <2>1 DEF Typing
      <3>2. Len(stack[t]) \in Nat  BY <1>1
      <3> QED  BY <2>1, <3>1, <3>2, <1>2, <1>4 DEF Whole
    <2>2. CASE u # t  BY <2>2, <1>4 DEF Whole, Typing
    <2> QED  BY <2>1, <2>2
  <1>5. ASSUME NEW u \in Thread, stack[u] = <<>> PROVE stack'[u] = <<>>
    BY <1>5 DEF Typing
  <1> QED  BY <1>3, <1>4, <1>5

(* What is enough for a step that divides no call.                         *)
LEMMA Kept ==
  ASSUME Inv, Typing', ReadyIsExact',
         \A u \in Workers : Whole(u) => Whole(u)',
         \A u \in Workers : pc'[u] # "func" => stack'[u] = <<>>
  PROVE  Inv'
  BY DEF Inv, IdleIsFree, SomebodyWhole
---------------------------------------------------------------------------
LEMMA InitInv == Init => Inv
  <1> SUFFICES ASSUME Init PROVE Inv  OBVIOUS
  <1>1. Typing
    BY ProcessorsAssumption DEF Init, Typing, work_max, work_limit, THREAD_EXTRA, None
  <1>2. IdleIsFree  BY DEF Init, IdleIsFree, Thread
  <1>3. ReadyIsExact
    <2>1. Asleep = {}  BY DEF Init, Asleep
    <2> QED  BY <2>1, FS_EmptySet DEF Init, ReadyIsExact
  <1>4. SomebodyWhole
    <2>1. Workers # {}
      BY WorkersAssumption, ProcessorsAssumption, FS_EmptySet DEF work_max, work_limit, THREAD_EXTRA
    <2> QED  BY <2>1 DEF Init, SomebodyWhole, Whole, Thread
  <1> QED  BY <1>1, <1>2, <1>3, <1>4 DEF Inv

(* A new call: the only step that divides one.                             *)
LEMMA ParallelizeInv ==
  ASSUME NEW t \in Thread, Inv, Parallelize(t)
  PROVE  Inv'
  <1> PICK c \in Callable(t), active \in BOOLEAN, max \in 1..MaxShares :
        LET n == IF ~active THEN 1 ELSE IF max > work_free_get THEN work_free_get ELSE max
        IN  stack' = [stack EXCEPT ![t] =
              <<[call |-> c, n |-> n, next |-> 1, at |-> IF n = 1 THEN "func" ELSE "count"]>> \o @]
    BY DEF Parallelize
  <1> DEFINE n == IF ~active THEN 1 ELSE IF max > work_free_get THEN work_free_get ELSE max
             f == [call |-> c, n |-> n, next |-> 1, at |-> IF n = 1 THEN "func" ELSE "count"]
             s == <<f>> \o stack[t]
  <1>1. work_free_get \in Nat /\ work_free_get >= 1
    BY ProcessorsAssumption DEF Inv, Typing, work_free_get, work_limit
  <1>2. n \in Nat /\ n >= 1 /\ (n = 1 \/ work_free_get > 1)
    BY <1>1
  <1>3. f \in AnyFrame /\ f.n = n
    BY <1>2 DEF AnyFrame, Callable
  <1>4. stack[t] \in Seq(AnyFrame)  BY DEF Inv, Typing
  <1> HIDE DEF f
  <1>5. /\ s \in Seq(AnyFrame) /\ Len(s) = Len(stack[t]) + 1
        /\ s[1] = f /\ \A i \in 2..Len(s) : s[i] = stack[t][i - 1]
    BY <1>3, <1>4
  <1>6. stack' = [stack EXCEPT ![t] = s]  BY DEF f
  <1> HIDE DEF s
  <1>7. UNCHANGED <<pc, load>>  BY DEF Parallelize
  <1>8. Typing'  BY <1>5, <1>6, <1>7 DEF Inv, Typing, load
  <1>9. ReadyIsExact'
    BY <1>7 DEF Inv, ReadyIsExact, Asleep, load
  <1>10. t \in Workers => pc[t] = "func"
    <2> SUFFICES ASSUME t \in Workers, pc[t] # "func" PROVE FALSE  OBVIOUS
    <2>1. stack[t] = <<>>  BY DEF Inv, IdleIsFree
    <2>2. Running(t) = None /\ t # Main  BY <2>1, MainAssumption DEF Running
    <2> QED  BY <2>2 DEF Callable
  <1>11. IdleIsFree'
    <2> SUFFICES ASSUME NEW w \in Workers, pc'[w] # "func" PROVE stack'[w] = <<>>
      BY DEF IdleIsFree
    <2>1. w # t /\ stack[w] = <<>>  BY <1>7, <1>10 DEF Inv, IdleIsFree
    <2> QED  BY <2>1, <1>6 DEF Inv, Typing, Thread
  <1>12. SomebodyWhole'
    <2>1. CASE n = 1
      <3>1. ASSUME NEW u \in Workers, Whole(u) PROVE Whole(u)'
        <4>1. CASE u = t
          <5>1. stack'[u] = s  BY <4>1, <1>6 DEF Inv, Typing
          <5>2. Len(stack[t]) \in Nat  BY <1>4
          <5>3. \A i \in 1..Len(stack[t]) : stack[t][i].n = 1  BY <4>1, <3>1 DEF Whole
          <5>4. f.n = 1  BY <1>3, <2>1
          <5> HIDE DEF n
          <5>5. \A i \in 1..Len(s) : s[i].n = 1
            <6> SUFFICES ASSUME NEW i \in 1..Len(s) PROVE s[i].n = 1  OBVIOUS
            <6>1. CASE i = 1  BY <6>1, <1>5, <5>4
            <6>2. CASE i # 1
              <7>1. i \in 2..Len(s) /\ i - 1 \in 1..Len(stack[t])  BY <6>2, <1>5, <5>2
              <7> QED  BY <7>1, <1>5, <5>3
            <6> QED  BY <6>1, <6>2
          <5> QED  BY <5>1, <5>5 DEF Whole
        <4>2. CASE u # t
          BY <4>2, <1>6, <3>1 DEF Whole, Inv, Typing, Thread
        <4> QED  BY <4>1, <4>2
      <3> QED  BY <3>1 DEF Inv, SomebodyWhole
    <2>2. CASE work_free_get > 1
      <3>1. PICK w \in Workers : pc[w] = "sleep" /\ stack[w] = <<>>
        BY <2>2, FreeHasSleeper
      <3>2. w # t  BY <3>1, <1>10
      <3>3. stack'[w] = <<>>  BY <3>1, <3>2, <1>6 DEF Inv, Typing, Thread
      <3> QED  BY <3>3 DEF SomebodyWhole, Whole
    <2> QED  BY <2>1, <2>2, <1>2
  <1> QED  BY <1>8, <1>9, <1>11, <1>12 DEF Inv

(* The other steps of a call move it or end it.                            *)
LEMMA CallerInv ==
  ASSUME NEW t \in Thread, Inv, Caller(t)
  PROVE  Inv'
  <1>1. pc' = pc /\ work_ready' = work_ready /\ stack[t] # <<>>
    BY DEF Caller, GroupCount, GroupPush, FuncEnds, GroupLeave, GroupWait, GroupEnter, At, load
  <1>2. work_running' \in Int
    BY DEF Caller, GroupCount, GroupPush, FuncEnds, GroupLeave, GroupWait, GroupEnter, load, Inv, Typing
  <1>3. Typing  BY DEF Inv
  <1>4. /\ stack' \in [Thread -> Seq(AnyFrame)]
        /\ \A u \in Thread : Whole(u) => Whole(u)'
        /\ \A u \in Thread : stack[u] = <<>> => stack'[u] = <<>>
    <2>1. CASE GroupCount(t)
      <3>1. Go(t, "push")  BY <2>1 DEF GroupCount
      <3> QED  BY <3>1, <1>1, <1>3, GoTyped
    <2>2. CASE GroupPush(t) /\ Go(t, "func")
      BY <2>2, <1>1, <1>3, GoTyped
    <2>3. CASE /\ GroupPush(t)
               /\ stack' = [stack EXCEPT ![t][1] = [Top(t) EXCEPT !.next = Top(t).next + 1, !.at = "count"]]
      <3> DEFINE f == [stack[t][1] EXCEPT !.next = stack[t][1].next + 1, !.at = "count"]
                 s == [stack[t] EXCEPT ![1] = f]
      <3>1. stack[t] \in Seq(AnyFrame) /\ Len(stack[t]) \in Nat /\ 1 \in 1..Len(stack[t])
        BY <1>1, <1>3 DEF Typing
      <3>2. stack[t][1] \in AnyFrame  BY <3>1
      <3>3. f \in AnyFrame
        <4>1. stack[t][1].next + 1 \in Nat  BY <3>2 DEF AnyFrame
        <4> QED  BY <3>2, <4>1 DEF AnyFrame
      <3>9. f.n = stack[t][1].n  BY <3>2 DEF AnyFrame
      <3>4. /\ s \in Seq(AnyFrame) /\ Len(s) = Len(stack[t])
            /\ \A i \in 1..Len(s) : s[i].n = stack[t][i].n
        BY <3>1, <3>3, <3>9
      <3>5. stack' = [stack EXCEPT ![t] = s]
        BY <2>3, <3>1 DEF Top
      <3> HIDE DEF s
      <3>6. stack' \in [Thread -> Seq(AnyFrame)]  BY <3>4, <3>5, <1>3 DEF Typing
      <3>7. ASSUME NEW u \in Thread, Whole(u) PROVE Whole(u)'
        <4>1. CASE u = t  BY <4>1, <3>4, <3>5, <3>7, <1>3 DEF Whole, Typing
        <4>2. CASE u # t  BY <4>2, <3>5, <3>7, <1>3 DEF Whole, Typing
        <4> QED  BY <4>1, <4>2
      <3>8. ASSUME NEW u \in Thread, stack[u] = <<>> PROVE stack'[u] = <<>>
        BY <3>5, <3>8, <1>1, <1>3 DEF Typing
      <3> QED  BY <3>6, <3>7, <3>8
    <2>4. CASE FuncEnds(t) /\ Go(t, "leave")
      BY <2>4, <1>1, <1>3, GoTyped
    <2>5. CASE FuncEnds(t) /\ stack' = [stack EXCEPT ![t] = Tail(@)]
      BY <2>5, <1>1, <1>3, PopTyped
    <2>6. CASE GroupLeave(t)
      <3>1. Go(t, "wait")  BY <2>6 DEF GroupLeave
      <3> QED  BY <3>1, <1>1, <1>3, GoTyped
    <2>7. CASE GroupWait(t)
      <3>1. Go(t, "enter") \/ Go(t, "sleep")  BY <2>7 DEF GroupWait
      <3> QED  BY <3>1, <1>1, <1>3, GoTyped
    <2>8. CASE GroupEnter(t)
      <3>1. stack' = [stack EXCEPT ![t] = Tail(@)]  BY <2>8 DEF GroupEnter
      <3> QED  BY <3>1, <1>1, <1>3, PopTyped
    <2> QED  BY <2>1, <2>2, <2>3, <2>4, <2>5, <2>6, <2>7, <2>8
             DEF Caller, GroupPush, FuncEnds
  <1>5. Typing'  BY <1>1, <1>2, <1>3, <1>4 DEF Typing
  <1>6. ReadyIsExact'  BY <1>1 DEF Inv, ReadyIsExact, Asleep
  <1>7. \A u \in Workers : pc'[u] # "func" => stack'[u] = <<>>
    BY <1>1, <1>4 DEF Inv, IdleIsFree, Thread
  <1> QED  BY <1>4, <1>5, <1>6, <1>7, Kept DEF Thread
(* A worker falls asleep or takes a work only when it is in no call.       *)
LEMMA WorkerInv ==
  ASSUME NEW w \in Workers, Inv, Worker(w)
  PROVE  Inv'
  <1>1. Typing /\ IdleIsFree /\ ReadyIsExact  BY DEF Inv
  <1> USE DEF Pop, load
  <1>2. CASE WorkWait(w)
    <2>1. ReadyIsExact'  BY <1>1, <1>2, FallsAsleep DEF WorkWait
    <2>2. Typing'  BY <1>1, <1>2 DEF WorkWait, Typing
    <2> QED  BY <1>1, <1>2, <2>1, <2>2, Kept DEF WorkWait, Whole, IdleIsFree, Typing
  <1>3. CASE WorkTake(w)
    <2>1. Asleep' = Asleep  BY <1>1, <1>3 DEF WorkTake, Asleep, Typing
    <2>2. ReadyIsExact'  BY <1>1, <1>3, <2>1, SameAsleep DEF WorkTake
    <2>3. Typing'  BY <1>1, <1>3 DEF WorkTake, Typing
    <2> QED  BY <1>1, <1>3, <2>2, <2>3, Kept DEF WorkTake, Whole, IdleIsFree, Typing
  <1>4. CASE WorkWakeTake(w)
    <2>1. ReadyIsExact' /\ work_ready' \in Nat
      BY <1>1, <1>4, WakesUp DEF WorkWakeTake
    <2>2. Typing'  BY <1>1, <1>4, <2>1 DEF WorkWakeTake, Typing
    <2> QED  BY <1>1, <1>4, <2>1, <2>2, Kept DEF WorkWakeTake, Whole, IdleIsFree, Typing
  <1>5. CASE WorkSleepAgain(w)
    <2>1. Typing'  BY <1>1, <1>5 DEF WorkSleepAgain, Typing
    <2>2. ReadyIsExact'  BY <1>1, <1>5 DEF WorkSleepAgain, ReadyIsExact, Asleep
    <2> QED  BY <1>1, <1>5, <2>1, <2>2, Kept DEF WorkSleepAgain, Whole, IdleIsFree
  <1>6. CASE WorkExit(w)
    <2>1. ReadyIsExact' /\ work_ready' \in Nat
      <3>1. CASE pc[w] = "top" /\ UNCHANGED load
        <4>1. Asleep' = Asleep  BY <1>1, <1>6, <3>1 DEF WorkExit, Asleep, Typing
        <4> QED  BY <1>1, <3>1, <4>1, SameAsleep DEF Typing
      <3>2. CASE pc[w] = "sleep" /\ work_ready' = work_ready - 1
        BY <1>1, <1>6, <3>2, WakesUp DEF WorkExit
      <3> QED  BY <1>6, <3>1, <3>2 DEF WorkExit
    <2>2. Typing'  BY <1>1, <1>6, <2>1 DEF WorkExit, Typing
    <2>3. pc[w] # "func"  BY <1>6 DEF WorkExit
    <2> QED  BY <1>1, <1>6, <2>1, <2>2, <2>3, Kept DEF WorkExit, Whole, IdleIsFree, Typing
  <1>7. CASE WorkEnds(w)
    <2>1. Asleep' = Asleep  BY <1>1, <1>7 DEF WorkEnds, Asleep, Typing
    <2>2. ReadyIsExact'  BY <1>1, <1>7, <2>1, SameAsleep DEF WorkEnds
    <2>3. Typing'  BY <1>1, <1>7 DEF WorkEnds, Typing
    <2> QED  BY <1>1, <1>7, <2>2, <2>3, Kept DEF WorkEnds, Whole, IdleIsFree, Typing
  <1>8. CASE WorkSignals(w)
    <2>1. Asleep' = Asleep  BY <1>1, <1>8 DEF WorkSignals, Asleep, Typing
    <2>2. ReadyIsExact'  BY <1>1, <1>8, <2>1, SameAsleep DEF WorkSignals
    <2>3. \A t \in Thread : /\ stack'[t] \in Seq(AnyFrame)
                            /\ Whole(t) => Whole(t)'
                            /\ stack[t] = <<>> => stack'[t] = <<>>
      <3> SUFFICES ASSUME NEW t \in Thread
                   PROVE  /\ stack'[t] \in Seq(AnyFrame)
                          /\ Whole(t) => Whole(t)'
                          /\ stack[t] = <<>> => stack'[t] = <<>>
        OBVIOUS
      <3> DEFINE s == [stack[t] EXCEPT ![1].at = "wait"]
      <3>1. stack'[t] = stack[t] \/ (At(t, "sleep") /\ stack'[t] = s)
        BY <1>8 DEF WorkSignals
      <3>2. CASE stack'[t] = stack[t]
        BY <3>2, <1>1 DEF Whole, Typing
      <3>3. CASE At(t, "sleep") /\ stack'[t] = s
        <4>1. stack[t] \in Seq(AnyFrame) /\ Len(stack[t]) \in Nat /\ 1 \in 1..Len(stack[t])
          BY <1>1, <3>3 DEF Typing, At
        <4>2. stack[t][1] \in AnyFrame  BY <4>1
        <4>3. /\ [stack[t][1] EXCEPT !.at = "wait"] \in AnyFrame
              /\ [stack[t][1] EXCEPT !.at = "wait"].n = stack[t][1].n
          BY <4>2 DEF AnyFrame
        <4>4. /\ s \in Seq(AnyFrame) /\ Len(s) = Len(stack[t])
              /\ \A i \in 1..Len(s) : s[i].n = stack[t][i].n
          BY <4>1, <4>3
        <4> HIDE DEF s
        <4> QED  BY <3>3, <4>4 DEF Whole, At
      <3> QED  BY <3>1, <3>2, <3>3
    <2>4. stack' \in [Thread -> Seq(AnyFrame)]
      <3>1. stack' = [t \in Thread |-> stack'[t]]  BY <1>8 DEF WorkSignals
      <3> QED  BY <3>1, <2>3
    <2>5. Typing'  BY <1>1, <1>8, <2>4 DEF WorkSignals, Typing
    <2>6. \A u \in Workers : pc'[u] # "func" => stack'[u] = <<>>
      <3>1. pc[w] = "end" /\ pc' = [pc EXCEPT ![w] = "top"]  BY <1>8 DEF WorkSignals
      <3> QED  BY <1>1, <3>1, <2>3 DEF IdleIsFree, Typing, Thread
    <2> QED  BY <2>2, <2>3, <2>5, <2>6, Kept DEF Thread
  <1> QED  BY <1>2, <1>3, <1>4, <1>5, <1>6, <1>7, <1>8 DEF Worker

LEMMA SpuriousInv ==
  ASSUME Inv, Spurious
  PROVE  Inv'
  <1>1. Typing /\ IdleIsFree /\ ReadyIsExact  BY DEF Inv
  <1>2. ReadyIsExact'  BY <1>1 DEF Spurious, ReadyIsExact, Asleep, load
  <1>3. CASE UNCHANGED stack
    <2>1. Typing'  BY <1>1, <1>3 DEF Spurious, Typing, load
    <2> QED  BY <1>1, <1>2, <1>3, <2>1, Kept DEF Spurious, Whole, IdleIsFree
  <1>4. CASE \E t \in Thread : At(t, "sleep") /\ Go(t, "wait")
    <2>1. /\ stack' \in [Thread -> Seq(AnyFrame)]
          /\ \A u \in Thread : Whole(u) => Whole(u)'
          /\ \A u \in Thread : stack[u] = <<>> => stack'[u] = <<>>
      BY <1>1, <1>4, GoTyped DEF At
    <2>2. Typing'  BY <1>1, <2>1 DEF Spurious, Typing, load
    <2> QED  BY <1>1, <1>2, <2>1, <2>2, Kept DEF Spurious, IdleIsFree, Thread
  <1> QED  BY <1>3, <1>4 DEF Spurious

LEMMA SameInv ==
  ASSUME Inv, UNCHANGED <<load, pc, stack>>
  PROVE  Inv'
  <1>1. Typing' /\ ReadyIsExact'  BY DEF Inv, Typing, ReadyIsExact, Asleep, load
  <1> QED  BY <1>1, Kept DEF Inv, Whole, IdleIsFree

LEMMA NextInv == Inv /\ [Next]_vars => Inv'
  <1> SUFFICES ASSUME Inv, [Next]_vars PROVE Inv'  OBVIOUS
  <1>1. CASE \E t \in Thread : Parallelize(t)  BY <1>1, ParallelizeInv
  <1>2. CASE \E t \in Thread : Caller(t)  BY <1>2, CallerInv
  <1>3. CASE \E w \in Workers : Worker(w)  BY <1>3, WorkerInv
  <1>4. CASE Spurious  BY <1>4, SpuriousInv
  <1>5. CASE Done \/ Broadcast \/ Joined \/ UNCHANGED vars
    <2>1. UNCHANGED <<load, pc, stack>>  BY <1>5 DEF Done, Broadcast, Joined, vars
    <2> QED  BY <2>1, SameInv
  <1> QED  BY <1>1, <1>2, <1>3, <1>4, <1>5 DEF Next

LEMMA InvInv == Spec => []Inv
  BY InitInv, NextInv, PTL DEF Spec

(* One worker at least has divided no call, so that the threads waiting    *)
(* for their calls never block one another, however deep the calls nest.   *)
THEOREM SomebodyAlwaysWorks == Spec => []SomebodyWorks
  <1>1. Inv => SomebodyWorks  BY DEF Inv, SomebodyWhole, Whole, SomebodyWorks
  <1> QED  BY <1>1, InvInv, PTL

---------------------------------------------------------------------------
(***************************************************************************)
(* The ledger of the works: the count of a group is the number of its      *)
(* works that are about to be pushed, in the fifo or with a thread.        *)
(* A call is in one stack only, at one place, and its works are numbered   *)
(* below the next one to be put: so every work is counted once, and a call *)
(* leaves its stack only when there is none left.                          *)
(***************************************************************************)
Item == Promise!Call \X Nat

Places == {"count", "push", "func", "leave", "wait", "sleep", "enter"}

AllFrames == UNION {{stack[t][i] : i \in 1..Len(stack[t])} : t \in Thread}

Items(q) == {q[i] : i \in 1..Len(q)}
Distinct(q) == \A i, j \in 1..Len(q) : q[i] = q[j] => i = j

\* The works in the fifo, with a thread, and counted but not yet pushed.
Queued == Items(work_fifo)
Held == {work[w] : w \in {v \in Workers : work[v] # None}}
PutOf(F) == {<<f.call, f.next>> : f \in {g \in F : g.at = "push"}}
Put == PutOf(AllFrames)

Due(c) == {s \in Queued \union Held \union Put : s[1] = c}

ItemTypes ==
    /\ work_fifo \in Seq(Item)
    /\ work \in [Workers -> Item \union {None}]
    /\ count \in [Promise!Call -> Int]
    /\ size \in [Promise!Call -> Int]
    /\ back \subseteq Promise!Call

\* A call is at one place of one stack.
OneFrame ==
    \A t, u \in Thread : \A i \in 1..Len(stack[t]), j \in 1..Len(stack[u]) :
        stack[t][i].call = stack[u][j].call => t = u /\ i = j

\* A work is at one place.
Once ==
    /\ Distinct(work_fifo)
    /\ \A v, w \in Workers : work[v] = work[w] /\ work[v] # None => v = w
    /\ Queued \intersect Held = {}

HeldByPlace == \A w \in Workers : work[w] = None <=> pc[w] \notin {"func", "end"}

\* The calls in the stacks, and those of the works, were made and have not returned.
Open ==
    /\ \A f \in AllFrames : size[f.call] # 0 /\ f.call \notin back /\ (f.n = 1 => f.at = "func")
    /\ \A s \in Queued \union Held : size[s[1]] # 0 /\ s[1] \notin back
    /\ \A c \in back : size[c] # 0

\* The works of a call come before the next one to be put.
Behind ==
    \A f \in AllFrames : \A s \in Queued \union Held : s[1] = f.call =>
        /\ f.n # 1 /\ f.at # "enter"
        /\ f.at \in {"count", "push"} => s[2] < f.next

Counted ==
    \A c \in Promise!Call : IsFiniteSet(Due(c)) /\ count[c] = Cardinality(Due(c))

Ledger == ItemTypes /\ OneFrame /\ Once /\ HeldByPlace /\ Open /\ Behind /\ Counted

---------------------------------------------------------------------------
(* The sets of frames, and what the steps of a stack do to them.           *)
(* What a stack is.                                                        *)
LEMMA StackIs ==
  ASSUME NEW t \in Thread, Typing
  PROVE  /\ stack[t] \in Seq(AnyFrame) /\ Len(stack[t]) \in Nat
         /\ \A i \in 1..Len(stack[t]) : stack[t][i] \in AnyFrame /\ stack[t][i] \in AllFrames
         /\ stack[t] # <<>> => 1 \in 1..Len(stack[t])
  BY DEF Typing, AllFrames

(* Two frames of a call are the same one.                                  *)
LEMMA SamePlace ==
  ASSUME OneFrame, NEW u \in Thread, NEW v \in Thread,
         NEW i \in 1..Len(stack[u]), NEW j \in 1..Len(stack[v]),
         stack[u][i].call = stack[v][j].call
  PROVE  u = v /\ i = j
  BY DEF OneFrame

(* The frames after a step are those of the stacks after it.               *)
LEMMA NextFrames ==
  /\ \A u \in Thread : \A i \in 1..Len(stack'[u]) : stack'[u][i] \in AllFrames'
  /\ \A g \in AllFrames' : \E u \in Thread : \E i \in 1..Len(stack'[u]) : g = stack'[u][i]
  BY DEF AllFrames

(* A new call adds its frame.                                              *)
LEMMA PushFrames ==
  ASSUME NEW t \in Thread, NEW f \in AnyFrame, Typing, OneFrame,
         \A g \in AllFrames : g.call # f.call,
         stack' = [stack EXCEPT ![t] = <<f>> \o @]
  PROVE  AllFrames' = AllFrames \union {f} /\ OneFrame'
  <1> DEFINE s == <<f>> \o stack[t]
             Before(w, k) == IF w = t THEN k - 1 ELSE k
             After(w, k) == IF w = t THEN k + 1 ELSE k
  <1>1. stack[t] \in Seq(AnyFrame) /\ Len(stack[t]) \in Nat  BY StackIs
  <1>2. /\ Len(s) = Len(stack[t]) + 1 /\ s[1] = f
        /\ \A i \in 2..Len(s) : s[i] = stack[t][i - 1]
        /\ \A i \in 1..Len(stack[t]) : stack[t][i] = s[i + 1]
    BY <1>1
  <1>3. stack' = [stack EXCEPT ![t] = s]  OBVIOUS
  <1> HIDE DEF s
  <1>4. stack'[t] = s /\ \A u \in Thread : u # t => stack'[u] = stack[u]  BY <1>3 DEF Typing
  <1>5. ASSUME NEW u \in Thread, NEW i \in 1..Len(stack'[u])
        PROVE  \/ u = t /\ i = 1 /\ stack'[u][i] = f
               \/ /\ u # t \/ i # 1
                  /\ Before(u, i) \in 1..Len(stack[u])
                  /\ stack'[u][i] = stack[u][Before(u, i)]
    <2>1. CASE u # t  BY <2>1, <1>4
    <2>2. CASE u = t /\ i = 1  BY <2>2, <1>2, <1>4
    <2>3. CASE u = t /\ i # 1
      <3>1. i \in 2..Len(s) /\ i - 1 \in 1..Len(stack[t])  BY <2>3, <1>1, <1>2, <1>4
      <3>2. QED  BY <2>3, <3>1, <1>2, <1>4
    <2>4. QED  BY <2>1, <2>2, <2>3
  <1>6. ASSUME NEW u \in Thread, NEW i \in 1..Len(stack[u])
        PROVE  After(u, i) \in 1..Len(stack'[u]) /\ stack'[u][After(u, i)] = stack[u][i]
    <2>1. CASE u # t  BY <2>1, <1>4
    <2>2. CASE u = t
      <3>1. i + 1 \in 1..Len(s) /\ i \in 1..Len(stack[t])  BY <2>2, <1>1, <1>2
      <3>2. QED  BY <2>2, <3>1, <1>2, <1>4
    <2>3. QED  BY <2>1, <2>2
  <1>7. 1 \in 1..Len(stack'[t]) /\ stack'[t][1] = f  BY <1>1, <1>2, <1>4
  <1>8. \A u \in Thread : \A i \in 1..Len(stack[u]) : stack[u][i] \in AllFrames  BY StackIs
  <1>9. \A u \in Thread : \A i \in 1..Len(stack'[u]) : stack'[u][i] \in AllFrames'  BY NextFrames
  <1> HIDE DEF Before, After
  <1>10. AllFrames' \subseteq AllFrames \union {f}
    <2> SUFFICES ASSUME NEW g \in AllFrames' PROVE g \in AllFrames \union {f}  OBVIOUS
    <2>1. PICK u \in Thread : \E i \in 1..Len(stack'[u]) : g = stack'[u][i]  BY NextFrames
    <2>2. PICK i \in 1..Len(stack'[u]) : g = stack'[u][i]  BY <2>1
    <2>3. CASE u = t /\ i = 1 /\ stack'[u][i] = f  BY <2>2, <2>3
    <2>4. CASE Before(u, i) \in 1..Len(stack[u]) /\ stack'[u][i] = stack[u][Before(u, i)]
      BY <2>2, <2>4, <1>8
    <2>5. QED  BY <2>3, <2>4, <1>5
  <1>11. AllFrames \union {f} \subseteq AllFrames'
    <2> SUFFICES ASSUME NEW g \in AllFrames PROVE g \in AllFrames'  BY <1>7, <1>9
    <2>1. PICK u \in Thread : \E i \in 1..Len(stack[u]) : g = stack[u][i]  BY DEF AllFrames
    <2>2. PICK i \in 1..Len(stack[u]) : g = stack[u][i]  BY <2>1
    <2>3. After(u, i) \in 1..Len(stack'[u]) /\ stack'[u][After(u, i)] = g  BY <2>2, <1>6
    <2>4. QED  BY <2>3, <1>9
  <1>12. OneFrame'
    <2> SUFFICES ASSUME NEW u \in Thread, NEW v \in Thread,
                        NEW i \in 1..Len(stack'[u]), NEW j \in 1..Len(stack'[v]),
                        stack'[u][i].call = stack'[v][j].call
                 PROVE  u = v /\ i = j
      BY DEF OneFrame
    <2>1. CASE stack'[u][i] = stack[u][Before(u, i)] /\ Before(u, i) \in 1..Len(stack[u])
               /\ stack'[v][j] = stack[v][Before(v, j)] /\ Before(v, j) \in 1..Len(stack[v])
      <3>1. PICK k \in 1..Len(stack[u]), l \in 1..Len(stack[v]) :
              /\ k = Before(u, i) /\ l = Before(v, j)
              /\ stack[u][k].call = stack[v][l].call
        BY <2>1
      <3>2. u = v /\ Before(u, i) = Before(v, j)  BY <3>1, SamePlace
      <3>3. i \in Int /\ j \in Int  OBVIOUS
      <3>4. QED  BY ONLY <3>2, <3>3 DEF Before
    <2>2. CASE u = t /\ i = 1 /\ v = t /\ j = 1  BY <2>2
    <2>3. CASE /\ u = t /\ i = 1 /\ stack'[u][i] = f
               /\ stack'[v][j] = stack[v][Before(v, j)] /\ Before(v, j) \in 1..Len(stack[v])
      BY <2>3, <1>8
    <2>4. CASE /\ v = t /\ j = 1 /\ stack'[v][j] = f
               /\ stack'[u][i] = stack[u][Before(u, i)] /\ Before(u, i) \in 1..Len(stack[u])
      BY <2>4, <1>8
    <2>5. QED  BY <1>5, <2>1, <2>2, <2>3, <2>4
  <1>13. QED  BY <1>10, <1>11, <1>12

(* A step of a call replaces its frame.                                    *)
LEMMA SetFrames ==
  ASSUME NEW t \in Thread, NEW f \in AnyFrame, Typing, OneFrame, stack[t] # <<>>,
         f.call = stack[t][1].call, stack' = [stack EXCEPT ![t][1] = f]
  PROVE  AllFrames' = (AllFrames \ {stack[t][1]}) \union {f} /\ OneFrame'
  <1> DEFINE s == [stack[t] EXCEPT ![1] = f]
             top == stack[t][1]
  <1>1. stack[t] \in Seq(AnyFrame) /\ Len(stack[t]) \in Nat /\ 1 \in 1..Len(stack[t])  BY StackIs
  <1>2. /\ Len(s) = Len(stack[t]) /\ s[1] = f
        /\ \A i \in 1..Len(s) : i # 1 => s[i] = stack[t][i]
    BY <1>1
  <1>3. stack' = [stack EXCEPT ![t] = s]  OBVIOUS
  <1> HIDE DEF s
  <1>4. stack'[t] = s /\ \A u \in Thread : u # t => stack'[u] = stack[u]  BY <1>3 DEF Typing
  <1>5. ASSUME NEW u \in Thread
        PROVE  /\ Len(stack'[u]) = Len(stack[u])
               /\ \A i \in 1..Len(stack[u]) :
                    /\ stack'[u][i].call = stack[u][i].call
                    /\ \/ u = t /\ i = 1 /\ stack'[u][i] = f
                       \/ stack'[u][i] = stack[u][i] /\ stack[u][i] # top
    <2>1. CASE u = t  BY <2>1, <1>1, <1>2, <1>4 DEF OneFrame
    <2>2. CASE u # t  BY <2>2, <1>1, <1>4 DEF OneFrame
    <2>3. QED  BY <2>1, <2>2
  <1>6. OneFrame'  BY <1>5 DEF OneFrame
  <1>7. \A u \in Thread : \A i \in 1..Len(stack[u]) : stack[u][i] \in AllFrames  BY StackIs
  <1>8. \A u \in Thread : \A i \in 1..Len(stack'[u]) : stack'[u][i] \in AllFrames'  BY NextFrames
  <1> HIDE DEF top
  <1>9. AllFrames' \subseteq (AllFrames \ {top}) \union {f}
    <2> SUFFICES ASSUME NEW g \in AllFrames' PROVE g \in (AllFrames \ {top}) \union {f}  OBVIOUS
    <2>1. PICK u \in Thread : \E i \in 1..Len(stack'[u]) : g = stack'[u][i]  BY NextFrames
    <2>2. QED  BY <2>1, <1>5, <1>7
  <1>10. f \in AllFrames'  BY <1>1, <1>2, <1>4, <1>8
  <1>11. AllFrames \ {top} \subseteq AllFrames'
    <2> SUFFICES ASSUME NEW g \in AllFrames, g # top PROVE g \in AllFrames'  OBVIOUS
    <2>1. PICK u \in Thread : \E i \in 1..Len(stack[u]) : g = stack[u][i]  BY DEF AllFrames
    <2>2. PICK i \in 1..Len(stack[u]) : g = stack[u][i]  BY <2>1
    <2>3. u # t \/ i # 1  BY <2>2 DEF top
    <2>4. stack'[u][i] = g  BY <2>2, <2>3, <1>5
    <2>5. QED  BY <2>4, <1>5, <1>8
  <1>12. QED  BY <1>6, <1>9, <1>10, <1>11 DEF top

(* The end of a call removes its frame.                                    *)
LEMMA PopFrames ==
  ASSUME NEW t \in Thread, Typing, OneFrame, stack[t] # <<>>,
         stack' = [stack EXCEPT ![t] = Tail(@)]
  PROVE  AllFrames' = AllFrames \ {stack[t][1]} /\ OneFrame'
  <1> DEFINE s == Tail(stack[t])
             top == stack[t][1]
             After(w, k) == IF w = t THEN k + 1 ELSE k
             Before(w, k) == IF w = t THEN k - 1 ELSE k
  <1>1. stack[t] \in Seq(AnyFrame) /\ Len(stack[t]) \in Nat /\ 1 \in 1..Len(stack[t])  BY StackIs
  <1>2. /\ Len(s) = Len(stack[t]) - 1
        /\ \A i \in 1..Len(s) : s[i] = stack[t][i + 1]
    BY <1>1
  <1>3. stack' = [stack EXCEPT ![t] = s]  OBVIOUS
  <1> HIDE DEF s
  <1>4. stack'[t] = s /\ \A u \in Thread : u # t => stack'[u] = stack[u]  BY <1>3 DEF Typing
  <1>5. ASSUME NEW u \in Thread, NEW i \in 1..Len(stack'[u])
        PROVE  /\ After(u, i) \in 1..Len(stack[u])
               /\ stack'[u][i] = stack[u][After(u, i)]
               /\ u = t => After(u, i) # 1
    <2>1. CASE u # t  BY <2>1, <1>4
    <2>2. CASE u = t
      <3>1. i \in 1..Len(s) /\ i + 1 \in 1..Len(stack[t])  BY <2>2, <1>1, <1>2, <1>4
      <3>2. QED  BY <2>2, <3>1, <1>2, <1>4
    <2>3. QED  BY <2>1, <2>2
  <1>6. ASSUME NEW u \in Thread, NEW i \in 1..Len(stack[u]), u # t \/ i # 1
        PROVE  /\ Before(u, i) \in 1..Len(stack'[u])
               /\ stack'[u][Before(u, i)] = stack[u][i]
    <2>1. CASE u # t  BY <2>1, <1>4
    <2>2. CASE u = t
      <3>1. i - 1 \in 1..Len(s) /\ i - 1 + 1 = i  BY <2>2, <1>6, <1>1, <1>2
      <3>2. QED  BY <2>2, <3>1, <1>2, <1>4
    <2>3. QED  BY <2>1, <2>2
  <1>7. \A u \in Thread : \A i \in 1..Len(stack[u]) : stack[u][i] \in AllFrames  BY StackIs
  <1>8. \A u \in Thread : \A i \in 1..Len(stack'[u]) : stack'[u][i] \in AllFrames'  BY NextFrames
  <1>9. OneFrame'
    <2> HIDE DEF After
    <2> SUFFICES ASSUME NEW u \in Thread, NEW v \in Thread,
                        NEW i \in 1..Len(stack'[u]), NEW j \in 1..Len(stack'[v]),
                        stack'[u][i].call = stack'[v][j].call
                 PROVE  u = v /\ i = j
      BY DEF OneFrame
    <2>1. /\ After(u, i) \in 1..Len(stack[u]) /\ After(v, j) \in 1..Len(stack[v])
          /\ stack[u][After(u, i)].call = stack[v][After(v, j)].call
      BY <1>5
    <2>2. u = v /\ After(u, i) = After(v, j)  BY <2>1 DEF OneFrame
    <2>3. QED  BY <2>2 DEF After
  <1> HIDE DEF After, Before, top
  <1>10. AllFrames' \subseteq AllFrames \ {top}
    <2> SUFFICES ASSUME NEW g \in AllFrames' PROVE g \in AllFrames /\ g # top  OBVIOUS
    <2>1. PICK u \in Thread : \E i \in 1..Len(stack'[u]) : g = stack'[u][i]  BY NextFrames
    <2>2. PICK i \in 1..Len(stack'[u]) : g = stack'[u][i]  BY <2>1
    <2>3. g = stack[u][After(u, i)] /\ After(u, i) \in 1..Len(stack[u]) /\ (u = t => After(u, i) # 1)
      BY <2>2, <1>5
    <2>4. g # top  BY <2>3, <1>1 DEF OneFrame, top
    <2>5. QED  BY <2>3, <2>4, <1>7
  <1>11. AllFrames \ {top} \subseteq AllFrames'
    <2> SUFFICES ASSUME NEW g \in AllFrames, g # top PROVE g \in AllFrames'  OBVIOUS
    <2>1. PICK u \in Thread : \E i \in 1..Len(stack[u]) : g = stack[u][i]  BY DEF AllFrames
    <2>2. PICK i \in 1..Len(stack[u]) : g = stack[u][i]  BY <2>1
    <2>3. u # t \/ i # 1  BY <2>2 DEF top
    <2>4. QED  BY <2>2, <2>3, <1>6, <1>8
  <1>12. QED  BY <1>9, <1>10, <1>11 DEF top

(* A work is a pair, and never None.                                       *)
LEMMA ItemIsSome == \A s \in Item : s # None /\ s[1] \in Promise!Call /\ s[2] \in Nat /\ s = <<s[1], s[2]>>
  BY DEF Item, None

(* The works in the fifo and with the threads are works.                   *)
LEMMA ItemTyped == ItemTypes => Queued \subseteq Item /\ Held \subseteq Item
  BY DEF ItemTypes, Queued, Items, Held

(* What a push on a fifo adds.                                             *)
LEMMA ItemsAdd ==
  ASSUME NEW S, NEW q \in Seq(S), NEW s \in S \ Items(q), Distinct(q)
  PROVE  /\ Items(<<s>> \o q) = Items(q) \union {s} /\ <<s>> \o q \in Seq(S)
         /\ Distinct(<<s>> \o q)
  <1> DEFINE r == <<s>> \o q
  <1>1. Len(q) \in Nat  OBVIOUS
  <1>2. /\ r \in Seq(S) /\ Len(r) = Len(q) + 1 /\ r[1] = s
        /\ \A i \in 2..Len(r) : r[i] = q[i - 1]
        /\ \A i \in 1..Len(q) : q[i] = r[i + 1]
    OBVIOUS
  <1> HIDE DEF r
  <1>3. \A i \in 1..Len(q) : i + 1 \in 1..Len(r) /\ q[i] \in Items(q) /\ q[i] # s
    BY <1>1, <1>2 DEF Items
  <1>4. \A i \in 1..Len(r) :
            \/ i = 1 /\ r[i] = s
            \/ i # 1 /\ i - 1 \in 1..Len(q) /\ r[i] = q[i - 1]
    BY <1>1, <1>2
  <1>5. Items(r) \subseteq Items(q) \union {s}  BY <1>3, <1>4 DEF Items
  <1>6. Items(q) \subseteq Items(r)  BY <1>2, <1>3, SMTT(20) DEF Items
  <1>7. 1 \in 1..Len(r)  BY <1>1, <1>2
  <1>8. s \in Items(r)  BY <1>2, <1>7 DEF Items
  <1>9. Distinct(r)
    <2> SUFFICES ASSUME NEW i \in 1..Len(r), NEW j \in 1..Len(r), r[i] = r[j] PROVE i = j
      BY DEF Distinct
    <2>1. CASE i = 1 /\ j = 1  BY <2>1
    <2>2. CASE i # 1 /\ j # 1
      <3>1. i - 1 \in 1..Len(q) /\ j - 1 \in 1..Len(q) /\ q[i - 1] = q[j - 1]  BY <2>2, <1>4
      <3>2. i - 1 = j - 1  BY <3>1 DEF Distinct
      <3>3. QED  BY <3>2
    <2>3. CASE i = 1 /\ j # 1  BY <2>3, <1>3, <1>4
    <2>4. CASE i # 1 /\ j = 1  BY <2>4, <1>3, <1>4
    <2>5. QED  BY <2>1, <2>2, <2>3, <2>4
  <1>10. QED  BY <1>2, <1>5, <1>6, <1>8, <1>9 DEF r

(* What a pop from a fifo takes.                                           *)
LEMMA ItemsTake ==
  ASSUME NEW S, NEW q \in Seq(S), q # <<>>, Distinct(q)
  PROVE  LET r == SubSeq(q, 1, Len(q) - 1)
             s == q[Len(q)]
         IN  /\ s \in Items(q) /\ s \in S /\ Items(r) = Items(q) \ {s}
             /\ r \in Seq(S) /\ Distinct(r)
  <1> DEFINE n == Len(q)
             r == SubSeq(q, 1, n - 1)
  <1>0. Len(q) \in Nat /\ Len(q) # 0  OBVIOUS
  <1>1. n \in Nat /\ n \in 1..n  BY <1>0
  <1>2. r \in Seq(S) /\ Len(r) = n - 1 /\ \A i \in 1..n - 1 : r[i] = q[i]
    <2>1. \A i \in 1..n - 1 : q[i] \in S  BY <1>1
    <2>2. n \in Nat  BY <1>1
    <2> HIDE DEF n
    <2>3. n - 1 \in Int  BY <2>2
    <2>4. /\ r \in Seq(S) /\ Len(r) = IF 1 <= n - 1 THEN n - 1 - 1 + 1 ELSE 0
          /\ \A i \in 1..n - 1 - 1 + 1 : r[i] = q[1 + i - 1]
      BY <2>1, <2>3, SubSeqProperties
    <2> HIDE DEF r
    <2>5. \A i \in 1..n - 1 : 1 + i - 1 = i  OBVIOUS
    <2>6. n - 1 - 1 + 1 = n - 1  BY <2>2
    <2>7. n # 0  BY <1>0 DEF n
    <2>8. Len(r) = n - 1  BY <2>2, <2>4, <2>7
    <2>9. QED  BY <2>4, <2>5, <2>6, <2>8
  <1> HIDE DEF r
  <1>3. \A i \in 1..n : i = n \/ i \in 1..n - 1  BY <1>1
  <1>4. \A i \in 1..n - 1 : i # n /\ i \in 1..n  BY <1>1
  <1>5. \A i, j \in 1..n : q[i] = q[j] => i = j  BY DEF Distinct
  <1>6. Items(q) = {q[i] : i \in 1..n}  BY DEF Items
  <1> HIDE DEF n
  <1>7. Items(r) = {r[i] : i \in 1..n - 1}  BY <1>2 DEF Items
  <1>8. Items(r) \subseteq Items(q) \ {q[n]}  BY <1>1, <1>2, <1>4, <1>5, <1>6, <1>7
  <1>9. Items(q) \ {q[n]} \subseteq Items(r)  BY <1>2, <1>3, <1>6, <1>7
  <1>10. Distinct(r)  BY <1>2, <1>4, <1>5 DEF Distinct
  <1>11. q[n] \in Items(q) /\ q[n] \in S  BY <1>1, <1>6 DEF n
  <1>12. Items(r) = Items(q) \ {q[n]}  BY <1>8, <1>9
  <1>13. /\ q[n] \in Items(q) /\ q[n] \in S /\ Items(r) = Items(q) \ {q[n]}
         /\ r \in Seq(S) /\ Distinct(r)
    BY <1>2, <1>10, <1>11, <1>12
  <1>14. QED  BY <1>13, Zenon DEF r, n

(* A thread that takes a work holds one more.                              *)
LEMMA HeldAdd ==
  ASSUME ItemTypes, NEW w \in Workers, NEW s \in Item \ Held, work[w] = None,
         work' = [work EXCEPT ![w] = s],
         \A u, v \in Workers : work[u] = work[v] /\ work[u] # None => u = v
  PROVE  /\ Held' = Held \union {s} /\ work' \in [Workers -> Item \union {None}]
         /\ \A u, v \in Workers : work'[u] = work'[v] /\ work'[u] # None => u = v
  <1>1. work'[w] = s /\ s # None /\ \A v \in Workers : v # w => work'[v] = work[v]
    BY ItemIsSome DEF ItemTypes
  <1>2. work' \in [Workers -> Item \union {None}]  BY DEF ItemTypes
  <1>3. Held' = Held \union {s}  BY <1>1 DEF Held
  <1>4. \A v \in Workers : work[v] # None => work[v] # s  BY DEF Held
  <1>5. QED  BY <1>1, <1>2, <1>3, <1>4

(* A thread that ends a work holds one less.                               *)
LEMMA HeldDrop ==
  ASSUME ItemTypes, NEW w \in Workers, work[w] # None, work' = [work EXCEPT ![w] = None],
         \A u, v \in Workers : work[u] = work[v] /\ work[u] # None => u = v
  PROVE  /\ work[w] \in Held /\ work[w] \in Item
         /\ Held' = Held \ {work[w]} /\ work' \in [Workers -> Item \union {None}]
         /\ \A u, v \in Workers : work'[u] = work'[v] /\ work'[u] # None => u = v
  <1>1. work'[w] = None /\ \A v \in Workers : v # w => work'[v] = work[v]  BY DEF ItemTypes
  <1>2. work' \in [Workers -> Item \union {None}] /\ work[w] \in Item /\ work[w] \in Held
    BY DEF ItemTypes, Held
  <1>3. Held' = Held \ {work[w]}  BY <1>1 DEF Held
  <1>4. QED  BY <1>1, <1>2, <1>3

(* A call has one frame.                                                   *)
LEMMA OneCall ==
  ASSUME OneFrame, NEW f \in AllFrames, NEW g \in AllFrames, f.call = g.call
  PROVE  f = g
  <1>1. PICK t \in Thread : \E i \in 1..Len(stack[t]) : f = stack[t][i]  BY DEF AllFrames
  <1>2. PICK u \in Thread : \E i \in 1..Len(stack[u]) : g = stack[u][i]  BY DEF AllFrames
  <1>3. QED  BY <1>1, <1>2 DEF OneFrame

(* A call that goes to another place keeps the rest of its frame.          *)
LEMMA GoSets ==
  ASSUME NEW t \in Thread, NEW p \in Places, Typing, stack[t] # <<>>, Go(t, p)
  PROVE  LET f == [stack[t][1] EXCEPT !.at = p]
         IN  /\ f \in AnyFrame /\ f.call = stack[t][1].call /\ f.n = stack[t][1].n
             /\ f.next = stack[t][1].next /\ f.at = p
             /\ stack' = [stack EXCEPT ![t][1] = f]
  <1>1. stack[t][1] \in AnyFrame /\ 1 \in 1..Len(stack[t])  BY StackIs
  <1>2. stack' = [stack EXCEPT ![t][1] = [stack[t][1] EXCEPT !.at = p]]  BY <1>1 DEF Go, Typing
  <1>3. QED  BY <1>1, <1>2 DEF AnyFrame, Places

(* The call a thread is in is the first frame of its stack.                *)
LEMMA HeadIs ==
  ASSUME NEW t \in Thread, Typing, stack[t] # <<>>
  PROVE  /\ Top(t) = stack[t][1] /\ stack[t][1] \in AllFrames /\ stack[t][1] \in AnyFrame
         /\ \A p : At(t, p) <=> stack[t][1].at = p
  <1>1. Top(t) = stack[t][1]  BY StackIs DEF Top
  <1>2. QED  BY <1>1, StackIs DEF At, Top

(* The frames are frames.                                                  *)
LEMMA FramesTyped == Typing => AllFrames \subseteq AnyFrame  BY DEF Typing, AllFrames

(* A call that is not about to push a work changes nothing of those put.   *)
LEMMA PutSame ==
  ASSUME NEW F, NEW x, NEW y, x.at # "push", y.at # "push"
  PROVE  PutOf((F \ {x}) \union {y}) = PutOf(F) /\ PutOf(F \ {x}) = PutOf(F)
         /\ PutOf(F \union {y}) = PutOf(F)
  BY DEF PutOf

(* A call that has counted a work is about to push it.                     *)
LEMMA PutAdds ==
  ASSUME NEW F, NEW x, NEW y, x.at # "push", y.at = "push"
  PROVE  PutOf((F \ {x}) \union {y}) = PutOf(F) \union {<<y.call, y.next>>}
  BY DEF PutOf

(* A call that has pushed a work is about to push no other.                *)
LEMMA PutDrops ==
  ASSUME NEW F, NEW x \in F, NEW y, x.at = "push", y.at # "push",
         \A g \in F : g.call = x.call => g = x
  PROVE  PutOf((F \ {x}) \union {y}) = PutOf(F) \ {<<x.call, x.next>>}
  <1>1. PutOf((F \ {x}) \union {y}) = PutOf(F \ {x})  BY DEF PutOf
  <1>2. \A g \in F \ {x} : <<g.call, g.next>> # <<x.call, x.next>>  OBVIOUS
  <1>3. QED  BY <1>1, <1>2 DEF PutOf

(* A work that changes place is due as before.                             *)
LEMMA SameDue ==
  ASSUME NEW c, Queued' \union Held' \union Put' = Queued \union Held \union Put
  PROVE  Due(c)' = Due(c)
  BY DEF Due

(* The counts are right while the works due are the same.                  *)
LEMMA SameCount ==
  ASSUME Ledger, count' = count,
         Queued' \union Held' \union Put' = Queued \union Held \union Put
  PROVE  Counted'
  BY SameDue DEF Ledger, Counted

(* A count of zero leaves no work in the fifo or with a thread.            *)
LEMMA NoneDue ==
  ASSUME Ledger, Typing, NEW c \in Promise!Call, count[c] = 0
  PROVE  \A s \in Queued \union Held : s[1] # c
  <1>1. IsFiniteSet(Due(c)) /\ Cardinality(Due(c)) = 0  BY DEF Ledger, Counted
  <1>2. Due(c) = {}  BY <1>1, FS_EmptySet
  <1>3. QED  BY <1>2 DEF Due

(* A call that only goes to another place.                                 *)
LEMMA Moves ==
  ASSUME NEW t \in Thread, NEW p \in {"leave", "wait", "sleep", "enter"}, Inv, Ledger,
         stack[t] # <<>>, Go(t, p), stack[t][1].at \notin {"push"}, stack[t][1].n # 1,
         p = "enter" => count[stack[t][1].call] = 0,
         UNCHANGED <<size, back, count, work_fifo, work, pc>>
  PROVE  Ledger'
  <1> DEFINE x == stack[t][1]
             y == [x EXCEPT !.at = p]
  <1>1. Typing /\ OneFrame  BY DEF Inv, Ledger
  <1>2. /\ y \in AnyFrame /\ y.call = x.call /\ y.n = x.n /\ y.next = x.next /\ y.at = p
        /\ stack' = [stack EXCEPT ![t][1] = y]
    <2>1. p \in Places  BY DEF Places
    <2>2. QED  BY <2>1, <1>1, GoSets
  <1>3. x \in AllFrames /\ x \in AnyFrame  BY <1>1, HeadIs
  <1> HIDE DEF y
  <1>4. AllFrames' = (AllFrames \ {x}) \union {y} /\ OneFrame'  BY <1>1, <1>2, SetFrames
  <1> HIDE DEF x
  <1>5. Queued' = Queued /\ Held' = Held  BY DEF Queued, Held
  <1>6. Put' = Put
    <2>1. x.at # "push" /\ y.at # "push"  BY <1>2 DEF x
    <2>2. Put' = PutOf(AllFrames') /\ Put = PutOf(AllFrames)  BY DEF Put, PutOf
    <2>3. QED  BY <2>1, <2>2, <1>4, PutSame, ZenonT(30)
  <1>7. Counted'  BY <1>5, <1>6, SameCount
  <1>8. Open'
    <2>1. \A f \in AllFrames' : size[f.call] # 0 /\ f.call \notin back /\ (f.n = 1 => f.at = "func")
      BY <1>2, <1>3, <1>4 DEF Ledger, Open, x
    <2>2. QED  BY <2>1, <1>5 DEF Ledger, Open
  <1>9. Behind'
    <2> SUFFICES ASSUME NEW f \in AllFrames', NEW s \in Queued \union Held, s[1] = f.call
                 PROVE  /\ f.n # 1 /\ f.at # "enter"
                        /\ f.at \in {"count", "push"} => s[2] < f.next
      BY <1>5 DEF Behind
    <2>1. CASE f \in AllFrames  BY <2>1 DEF Ledger, Behind
    <2>2. CASE f = y
      <3>1. p # "enter"
        <4> SUFFICES ASSUME p = "enter" PROVE FALSE  OBVIOUS
        <4>1. x.call \in Promise!Call /\ count[x.call] = 0  BY <1>3 DEF AnyFrame, x
        <4>2. QED  BY <4>1, <1>1, <1>2, <2>2, NoneDue
      <3>2. QED  BY <2>2, <3>1, <1>2, <1>3 DEF x
    <2>3. QED  BY <2>1, <2>2, <1>4
  <1>10. ItemTypes' /\ Once' /\ HeldByPlace'  BY <1>5 DEF Ledger, ItemTypes, Once, HeldByPlace
  <1>11. QED  BY <1>4, <1>7, <1>8, <1>9, <1>10 DEF Ledger

(* A call that returns leaves no work behind.                              *)
LEMMA Returns ==
  ASSUME NEW t \in Thread, Inv, Ledger, stack[t] # <<>>,
         stack' = [stack EXCEPT ![t] = Tail(@)], back' = back \union {Top(t).call},
         Top(t).at \in {"func", "enter"}, Top(t).n = 1 \/ Top(t).at = "enter",
         UNCHANGED <<size, count, work_fifo, work, pc>>
  PROVE  Ledger'
  <1> DEFINE x == stack[t][1]
  <1>1. Typing /\ OneFrame  BY DEF Inv, Ledger
  <1>2. x \in AllFrames /\ x \in AnyFrame /\ Top(t) = x  BY <1>1, HeadIs
  <1>3. AllFrames' = AllFrames \ {x} /\ OneFrame'  BY <1>1, PopFrames
  <1> HIDE DEF x
  <1>4. Queued' = Queued /\ Held' = Held  BY DEF Queued, Held
  <1>5. Put' = Put
    <2>1. x.at # "push"  BY <1>2
    <2>2. Put' = PutOf(AllFrames') /\ Put = PutOf(AllFrames)  BY DEF Put, PutOf
    <2>3. QED  BY <2>1, <2>2, <1>3, PutSame
  <1>6. Counted'  BY <1>4, <1>5, SameCount
  <1>7. \A s \in Queued \union Held : s[1] # x.call  BY <1>2 DEF Ledger, Behind
  <1>8. \A f \in AllFrames' : f \in AllFrames /\ f.call # x.call  BY <1>2, <1>3, OneCall DEF Ledger
  <1>9. back' = back \union {x.call} /\ size[x.call] # 0 /\ x.call \in Promise!Call
    BY <1>2 DEF Ledger, Open, AnyFrame
  <1>10. Open'
    <2>1. \A f \in AllFrames' : size[f.call] # 0 /\ f.call \notin back' /\ (f.n = 1 => f.at = "func")
      BY <1>8, <1>9 DEF Ledger, Open
    <2>2. \A s \in Queued \union Held : size[s[1]] # 0 /\ s[1] \notin back'
      BY <1>7, <1>9 DEF Ledger, Open
    <2>3. \A c \in back' : size[c] # 0  BY <1>9 DEF Ledger, Open
    <2>4. QED  BY <2>1, <2>2, <2>3, <1>4 DEF Open
  <1>11. Behind'  BY <1>4, <1>8 DEF Ledger, Behind
  <1>12. ItemTypes' /\ Once' /\ HeldByPlace'  BY <1>4, <1>9 DEF Ledger, ItemTypes, Once, HeldByPlace
  <1>13. QED  BY <1>3, <1>6, <1>10, <1>11, <1>12 DEF Ledger

(* group_put(), the lock of the group: the work is counted.                *)
LEMMA CountLedger ==
  ASSUME NEW t \in Thread, Inv, Ledger, GroupCount(t)
  PROVE  Ledger'
  <1> DEFINE x == stack[t][1]
             y == [x EXCEPT !.at = "push"]
             s == <<x.call, x.next>>
  <1>1. Typing /\ OneFrame /\ stack[t] # <<>> /\ Go(t, "push")  BY DEF Inv, Ledger, GroupCount, At
  <1>2. /\ y \in AnyFrame /\ y.call = x.call /\ y.n = x.n /\ y.next = x.next /\ y.at = "push"
        /\ stack' = [stack EXCEPT ![t][1] = y]
    <2>1. "push" \in Places  BY DEF Places
    <2>2. QED  BY <2>1, <1>1, GoSets
  <1>3. x \in AllFrames /\ x \in AnyFrame /\ Top(t) = x /\ x.at = "count"
    BY <1>1, HeadIs DEF GroupCount
  <1>4. count' = [count EXCEPT ![x.call] = @ + 1] /\ UNCHANGED <<size, back, work_fifo, work, pc>>
    BY <1>3 DEF GroupCount, history
  <1> HIDE DEF y
  <1>5. AllFrames' = (AllFrames \ {x}) \union {y} /\ OneFrame'  BY <1>1, <1>2, SetFrames
  <1> HIDE DEF x
  <1>6. Queued' = Queued /\ Held' = Held  BY <1>4 DEF Queued, Held
  <1>7. Put' = Put \union {s}
    <2>1. Put' = PutOf(AllFrames') /\ Put = PutOf(AllFrames)  BY DEF Put, PutOf
    <2>2. PutOf((AllFrames \ {x}) \union {y}) = PutOf(AllFrames) \union {<<y.call, y.next>>}
      BY <1>2, <1>3, PutAdds
    <2>3. QED  BY <2>1, <2>2, <1>2, <1>5
  <1>8. x.n # 1 /\ x.call \in Promise!Call /\ x.next \in Nat  BY <1>3 DEF Ledger, Open, AnyFrame
  <1>9. s \notin Queued \union Held \union Put /\ s[1] = x.call
    <2>1. ASSUME s \in Queued \union Held PROVE FALSE
      <3>1. s[2] < x.next  BY <2>1, <1>3 DEF Ledger, Behind
      <3>2. QED  BY <3>1, <1>8
    <2>2. ASSUME s \in Put PROVE FALSE
      <3>1. PICK g \in AllFrames : g.at = "push" /\ s = <<g.call, g.next>>  BY <2>2 DEF Put, PutOf
      <3>2. g = x  BY <3>1, <1>1, <1>3, OneCall
      <3>3. QED  BY <3>1, <3>2, <1>3
    <2>3. QED  BY <2>1, <2>2
  <1>10. Counted'
    <2> SUFFICES ASSUME NEW c \in Promise!Call
                 PROVE  IsFiniteSet(Due(c)') /\ count'[c] = Cardinality(Due(c)')
      BY DEF Counted
    <2>1. IsFiniteSet(Due(c)) /\ count[c] = Cardinality(Due(c))  BY DEF Ledger, Counted
    <2>2. CASE c = x.call
      <3>1. Due(c)' = Due(c) \union {s} /\ s \notin Due(c)  BY <2>2, <1>6, <1>7, <1>9 DEF Due
      <3>2. IsFiniteSet(Due(c)') /\ Cardinality(Due(c)') = Cardinality(Due(c)) + 1
        BY <2>1, <3>1, FS_AddElement
      <3>3. count'[c] = count[c] + 1  BY <2>2, <1>4 DEF Ledger, ItemTypes
      <3>4. QED  BY <2>1, <3>2, <3>3
    <2>3. CASE c # x.call
      <3>1. Due(c)' = Due(c)  BY <2>3, <1>6, <1>7, <1>9 DEF Due
      <3>2. count'[c] = count[c]  BY <2>3, <1>4 DEF Ledger, ItemTypes
      <3>3. QED  BY <2>1, <3>1, <3>2
    <2>4. QED  BY <2>2, <2>3
  <1>11. Open'  BY <1>2, <1>3, <1>4, <1>5, <1>6, <1>8 DEF Ledger, Open
  <1>12. Behind'  BY <1>2, <1>3, <1>5, <1>6 DEF Ledger, Behind
  <1>13. ItemTypes'  BY <1>4, <1>8 DEF Ledger, ItemTypes
  <1>14. Once' /\ HeldByPlace'  BY <1>4, <1>6 DEF Ledger, Once, HeldByPlace
  <1>15. QED  BY <1>5, <1>10, <1>11, <1>12, <1>13, <1>14 DEF Ledger

(* group_put(), the lock of the fifo: the work counted is pushed.          *)
LEMMA PushLedger ==
  ASSUME NEW t \in Thread, Inv, Ledger, GroupPush(t)
  PROVE  Ledger'
  <1> DEFINE x == stack[t][1]
             s == <<x.call, x.next>>
  <1>1. Typing /\ OneFrame /\ stack[t] # <<>>  BY DEF Inv, Ledger, GroupPush, At
  <1>2. x \in AllFrames /\ x \in AnyFrame /\ Top(t) = x /\ x.at = "push"
    BY <1>1, HeadIs DEF GroupPush
  <1>3. PICK y \in AnyFrame :
          /\ y.call = x.call /\ y.n = x.n /\ y.at \in {"count", "func"}
          /\ y.at = "count" => y.next = x.next + 1
          /\ stack' = [stack EXCEPT ![t][1] = y]
    <2>1. CASE stack' = [stack EXCEPT ![t][1] = [Top(t) EXCEPT !.next = Top(t).next + 1, !.at = "count"]]
      <3> DEFINE y == [x EXCEPT !.next = x.next + 1, !.at = "count"]
      <3>1. x.next + 1 \in Nat  BY <1>2 DEF AnyFrame
      <3>2. y \in AnyFrame /\ y.call = x.call /\ y.n = x.n /\ y.at = "count" /\ y.next = x.next + 1
        BY <3>1, <1>2 DEF AnyFrame
      <3>3. stack' = [stack EXCEPT ![t][1] = y]  BY <2>1, <1>2
      <3>4. QED  BY <3>2, <3>3
    <2>2. CASE Go(t, "func")
      <3>1. "func" \in Places  BY DEF Places
      <3> DEFINE y == [x EXCEPT !.at = "func"]
      <3>2. /\ y \in AnyFrame /\ y.call = x.call /\ y.n = x.n /\ y.at = "func"
            /\ stack' = [stack EXCEPT ![t][1] = y]
        BY <2>2, <3>1, <1>1, GoSets
      <3>3. QED  BY <3>2
    <2>3. QED  BY <2>1, <2>2 DEF GroupPush
  <1>4. work_fifo' = <<s>> \o work_fifo /\ UNCHANGED <<size, back, count, work, pc>>
    BY <1>2 DEF GroupPush
  <1>5. AllFrames' = (AllFrames \ {x}) \union {y} /\ OneFrame'  BY <1>1, <1>3, SetFrames
  <1> HIDE DEF x
  <1>6. x.n # 1 /\ x.call \in Promise!Call /\ x.next \in Nat  BY <1>2 DEF Ledger, Open, AnyFrame
  <1>7. s \in Item /\ s \notin Queued /\ s \notin Held
    <2>1. ASSUME s \in Queued \union Held PROVE FALSE
      <3>1. s[2] < x.next  BY <2>1, <1>2 DEF Ledger, Behind
      <3>2. QED  BY <3>1, <1>6
    <2>2. QED  BY <2>1, <1>6 DEF Item
  <1>8. work_fifo \in Seq(Item) /\ Distinct(work_fifo) /\ s \in Item \ Items(work_fifo)
    BY <1>7 DEF Ledger, ItemTypes, Once, Queued
  <1>9. Queued' = Queued \union {s} /\ work_fifo' \in Seq(Item) /\ Distinct(work_fifo')
    <2> DEFINE q == <<s>> \o work_fifo
    <2>1. Items(q) = Items(work_fifo) \union {s} /\ q \in Seq(Item) /\ Distinct(q)
      BY <1>8, ItemsAdd
    <2>2. work_fifo' = q  BY <1>4
    <2> HIDE DEF q
    <2>3. QED  BY <2>1, <2>2 DEF Queued
  <1>10. Held' = Held  BY <1>4 DEF Held
  <1>11. Put' = Put \ {s}
    <2>1. Put' = PutOf(AllFrames') /\ Put = PutOf(AllFrames)  BY DEF Put, PutOf
    <2>2. \A g \in AllFrames : g.call = x.call => g = x  BY <1>1, <1>2, OneCall
    <2>3. y.at # "push"  BY <1>3
    <2>4. PutOf((AllFrames \ {x}) \union {y}) = PutOf(AllFrames) \ {s}
      BY <1>2, <2>2, <2>3, PutDrops
    <2>5. QED  BY <2>1, <2>4, <1>5
  <1>12. s \in Put  BY <1>2 DEF Put, PutOf
  <1>13. Counted'
    <2>1. Queued' \union Held' \union Put' = Queued \union Held \union Put
      BY <1>9, <1>10, <1>11, <1>12
    <2>2. QED  BY <2>1, <1>4, SameCount
  <1>14. Open'
    <2>1. size[x.call] # 0 /\ x.call \notin back /\ s[1] = x.call  BY <1>2 DEF Ledger, Open
    <2>2. \A f \in AllFrames' : size[f.call] # 0 /\ f.call \notin back /\ (f.n = 1 => f.at = "func")
      BY <2>1, <1>3, <1>5, <1>6 DEF Ledger, Open
    <2>3. \A v \in Queued' \union Held' : size[v[1]] # 0 /\ v[1] \notin back
      BY <2>1, <1>9, <1>10 DEF Ledger, Open
    <2>4. QED  BY <2>2, <2>3, <1>4 DEF Ledger, Open
  <1>15. Behind'
    <2> SUFFICES ASSUME NEW f \in AllFrames', NEW v \in Queued' \union Held', v[1] = f.call
                 PROVE  /\ f.n # 1 /\ f.at # "enter"
                        /\ f.at \in {"count", "push"} => v[2] < f.next
      BY DEF Behind
    <2>1. s[1] = x.call /\ s[2] = x.next  OBVIOUS
    <2>2. CASE f = y
      <3>1. f.n # 1 /\ f.at # "enter"  BY <2>2, <1>3, <1>6
      <3>2. v[2] \in Nat /\ (v = s \/ v[2] < x.next)
        <4>1. CASE v = s  BY <4>1, <2>1, <1>6
        <4>2. CASE v \in Queued \union Held
          <5>1. v \in Item  BY <4>2, ItemTyped DEF Ledger
          <5>2. QED  BY <5>1, <4>2, <2>2, <1>2, <1>3, ItemIsSome DEF Ledger, Behind
        <4>3. QED  BY <4>1, <4>2, <1>9, <1>10
      <3>3. f.at \in {"count", "push"} => v[2] < x.next + 1  BY <3>2, <2>1, <1>6
      <3>4. QED  BY <3>1, <3>3, <2>2, <1>3
    <2>3. CASE f \in AllFrames /\ f # x
      <3>1. f.call # x.call  BY <2>3, <1>1, <1>2, OneCall
      <3>2. v \in Queued \union Held  BY <3>1, <2>1, <1>9, <1>10
      <3>3. QED  BY <3>2, <2>3 DEF Ledger, Behind
    <2>4. QED  BY <2>2, <2>3, <1>5
  <1>16. ItemTypes'  BY <1>4, <1>9 DEF Ledger, ItemTypes
  <1>17. Once' /\ HeldByPlace'
    <2>1. Queued' \intersect Held' = {}  BY <1>7, <1>9, <1>10 DEF Ledger, Once
    <2>2. QED  BY <2>1, <1>4, <1>9 DEF Ledger, Once, HeldByPlace
  <1>18. QED  BY <1>5, <1>13, <1>14, <1>15, <1>16, <1>17 DEF Ledger

(* A new call has no work yet.                                             *)
LEMMA CallLedger ==
  ASSUME NEW t \in Thread, Inv, Ledger, Parallelize(t)
  PROVE  Ledger'
  <1>1. PICK c \in Callable(t), active \in BOOLEAN, max \in 1..MaxShares :
          LET n == IF ~active THEN 1 ELSE IF max > work_free_get THEN work_free_get ELSE max
          IN  /\ size' = [size EXCEPT ![c] = n]
              /\ stack' = [stack EXCEPT ![t] =
                    <<[call |-> c, n |-> n, next |-> 1, at |-> IF n = 1 THEN "func" ELSE "count"]>> \o @]
    BY DEF Parallelize
  <1> DEFINE n == IF ~active THEN 1 ELSE IF max > work_free_get THEN work_free_get ELSE max
             y == [call |-> c, n |-> n, next |-> 1, at |-> IF n = 1 THEN "func" ELSE "count"]
  <1>2. n \in Nat /\ n # 0
    <2>1. work_free_get \in Nat /\ work_free_get >= 1
      BY ProcessorsAssumption DEF Inv, Typing, work_free_get, work_limit
    <2>2. QED  BY <2>1
  <1>3. c \in Promise!Call /\ size[c] = 0  BY DEF Callable
  <1>4. size' = [size EXCEPT ![c] = n] /\ stack' = [stack EXCEPT ![t] = <<y>> \o @]  BY <1>1
  <1> HIDE DEF n
  <1>5. /\ y \in AnyFrame /\ y.call = c /\ y.n = n /\ y.at \in {"func", "count"}
        /\ y.n = 1 => y.at = "func"
    BY <1>2, <1>3 DEF AnyFrame
  <1> HIDE DEF y
  <1>6. Typing /\ OneFrame  BY DEF Inv, Ledger
  <1>7. UNCHANGED <<back, count, work_fifo, work, pc>>  BY DEF Parallelize
  <1>8. \A g \in AllFrames : g.call # c  BY <1>3 DEF Ledger, Open
  <1>9. AllFrames' = AllFrames \union {y} /\ OneFrame'  BY <1>4, <1>5, <1>6, <1>8, PushFrames
  <1>10. Queued' = Queued /\ Held' = Held  BY <1>7 DEF Queued, Held
  <1>11. Put' = Put
    <2>1. Put' = PutOf(AllFrames') /\ Put = PutOf(AllFrames)  BY DEF Put, PutOf
    <2>2. PutOf(AllFrames \union {y}) = PutOf(AllFrames)  BY <1>5 DEF PutOf
    <2>3. QED  BY <2>1, <2>2, <1>9
  <1>12. Counted'  BY <1>7, <1>10, <1>11, SameCount
  <1>13. \A s \in Queued \union Held : s[1] # c  BY <1>3 DEF Ledger, Open
  <1>14. c \notin back  BY <1>3 DEF Ledger, Open
  <1>15. size'[c] # 0 /\ \A d \in Promise!Call : size[d] # 0 => size'[d] # 0
    BY <1>2, <1>3, <1>4 DEF Ledger, ItemTypes
  <1>16. Open'
    <2>1. \A f \in AllFrames' : size'[f.call] # 0 /\ f.call \notin back /\ (f.n = 1 => f.at = "func")
      <3> SUFFICES ASSUME NEW f \in AllFrames'
                   PROVE  size'[f.call] # 0 /\ f.call \notin back /\ (f.n = 1 => f.at = "func")
        OBVIOUS
      <3>1. CASE f = y  BY <3>1, <1>5, <1>14, <1>15
      <3>2. CASE f \in AllFrames
        <4>1. f.call \in Promise!Call
          <5>1. f \in AnyFrame  BY <3>2, FramesTyped DEF Inv
          <5>2. QED  BY <5>1 DEF AnyFrame
        <4>2. QED  BY <3>2, <4>1, <1>15 DEF Ledger, Open
      <3>3. QED  BY <3>1, <3>2, <1>9
    <2>2. \A s \in Queued \union Held : size'[s[1]] # 0 /\ s[1] \notin back
      <3>1. \A s \in Queued \union Held : s[1] \in Promise!Call  BY ItemTyped, ItemIsSome DEF Ledger
      <3>2. QED  BY <3>1, <1>15 DEF Ledger, Open
    <2>3. \A d \in back : size'[d] # 0  BY <1>15 DEF Ledger, Open, ItemTypes
    <2>4. QED  BY <2>1, <2>2, <2>3, <1>7, <1>10 DEF Open
  <1>17. Behind'  BY <1>5, <1>9, <1>10, <1>13 DEF Ledger, Behind
  <1>18. ItemTypes' /\ Once' /\ HeldByPlace'
    <2>1. ItemTypes'
      <3>1. size' = [size EXCEPT ![c] = n]  BY <1>4
      <3>2. size \in [Promise!Call -> Int] /\ n \in Int  BY <1>2 DEF Ledger, ItemTypes
      <3>3. size' \in [Promise!Call -> Int]  BY ONLY <3>1, <3>2
      <3>4. QED  BY <3>3, <1>7 DEF Ledger, ItemTypes
    <2>2. Once' /\ HeldByPlace'  BY <1>7, <1>10 DEF Ledger, Once, HeldByPlace
    <2>3. QED  BY <2>1, <2>2
  <1>19. QED  BY <1>9, <1>12, <1>16, <1>17, <1>18 DEF Ledger

(* The steps of a call.                                                    *)
LEMMA CallerLedger ==
  ASSUME NEW t \in Thread, Inv, Ledger, Caller(t)
  PROVE  Ledger'
  <1>1. stack[t] # <<>>
    BY DEF Caller, GroupCount, GroupPush, FuncEnds, GroupLeave, GroupWait, GroupEnter, At
  <1>2. /\ Top(t) = stack[t][1] /\ stack[t][1] \in AllFrames
        /\ \A p : At(t, p) <=> stack[t][1].at = p
    BY <1>1, HeadIs DEF Inv
  <1>3. stack[t][1].n = 1 => stack[t][1].at = "func"  BY <1>2 DEF Ledger, Open
  <1>4. CASE GroupCount(t)  BY <1>4, CountLedger
  <1>5. CASE GroupPush(t)  BY <1>5, PushLedger
  <1>6. CASE FuncEnds(t)
    <2>1. stack[t][1].at = "func" /\ UNCHANGED <<size, count, work_fifo, work, pc>>
      BY <1>6, <1>2 DEF FuncEnds
    <2>2. CASE Top(t).n = 1  BY <1>1, <1>2, <1>6, <2>1, <2>2, Returns DEF FuncEnds
    <2>3. CASE Top(t).n # 1
      <3>1. Go(t, "leave") /\ back' = back  BY <1>6, <2>3 DEF FuncEnds
      <3>2. "leave" \in {"leave", "wait", "sleep", "enter"} /\ stack[t][1].at \notin {"push"}
        BY <2>1
      <3>3. QED  BY <1>1, <1>2, <2>1, <2>3, <3>1, <3>2, Moves
    <2>4. QED  BY <2>2, <2>3
  <1>7. CASE GroupLeave(t)
    <2>1. /\ stack[t][1].at = "leave" /\ UNCHANGED <<size, back, count, work_fifo, work, pc>>
          /\ Go(t, "wait")
      BY <1>7, <1>2 DEF GroupLeave, history
    <2>2. stack[t][1].n # 1 /\ stack[t][1].at \notin {"push"} /\ "wait" \in {"leave", "wait", "sleep", "enter"}
      BY <2>1, <1>3
    <2>3. QED  BY <1>1, <2>1, <2>2, Moves
  <1>8. CASE GroupWait(t)
    <2>1. stack[t][1].at = "wait" /\ UNCHANGED <<size, back, count, work_fifo, work, pc>>
      BY <1>8, <1>2 DEF GroupWait, history
    <2>2. stack[t][1].n # 1 /\ stack[t][1].at \notin {"push"}  BY <2>1, <1>3
    <2>3. PICK p \in {"sleep", "enter"} : Go(t, p) /\ (p = "enter" => count[stack[t][1].call] = 0)
      BY <1>8, <1>2 DEF GroupWait
    <2>4. QED  BY <1>1, <2>1, <2>2, <2>3, Moves
  <1>9. CASE GroupEnter(t)  BY <1>1, <1>2, <1>9, Returns DEF GroupEnter
  <1>10. QED  BY <1>4, <1>5, <1>6, <1>7, <1>8, <1>9 DEF Caller

(* The frames and the works due are the same.                              *)
LEMMA SameLedger ==
  ASSUME Ledger, UNCHANGED <<size, back, count, work_fifo, work, stack>>, HeldByPlace'
  PROVE  Ledger'
  <1>1. Queued' = Queued /\ Held' = Held  BY DEF Queued, Held
  <1>2. AllFrames' = AllFrames /\ Put' = Put /\ OneFrame'
    BY DEF Ledger, AllFrames, Put, PutOf, OneFrame
  <1>3. Counted'  BY <1>1, <1>2, SameCount
  <1>4. Open' /\ Behind'  BY <1>1, <1>2 DEF Ledger, Open, Behind
  <1>5. ItemTypes' /\ Once'  BY <1>1 DEF Ledger, ItemTypes, Once
  <1>6. QED  BY <1>2, <1>3, <1>4, <1>5 DEF Ledger

(* A work goes from the fifo to a thread.                                  *)
LEMMA PopLedger ==
  ASSUME NEW w \in Workers, Inv, Ledger, Pop(w), work_fifo # <<>>, pc[w] \in {"top", "sleep"},
         UNCHANGED <<size, back, count, stack>>
  PROVE  Ledger'
  <1> DEFINE s == work_fifo[Len(work_fifo)]
  <1>1. work_fifo \in Seq(Item) /\ Distinct(work_fifo) /\ Typing
    BY DEF Inv, Ledger, ItemTypes, Once
  <1>2. /\ s \in Queued /\ s \in Item /\ Queued' = Queued \ {s}
        /\ work_fifo' \in Seq(Item) /\ Distinct(work_fifo')
    <2> DEFINE q == SubSeq(work_fifo, 1, Len(work_fifo) - 1)
    <2>1. /\ s \in Items(work_fifo) /\ s \in Item /\ Items(q) = Items(work_fifo) \ {s}
          /\ q \in Seq(Item) /\ Distinct(q)
      BY <1>1, ItemsTake
    <2>2. work_fifo' = q  BY DEF Pop
    <2> HIDE DEF q, s
    <2>3. QED  BY <2>1, <2>2 DEF Queued
  <1>3. work' = [work EXCEPT ![w] = s] /\ pc' = [pc EXCEPT ![w] = "func"]  BY DEF Pop
  <1> HIDE DEF s
  <1>4. s \notin Held /\ work[w] = None  BY <1>2 DEF Ledger, Once, HeldByPlace
  <1>5. \A u, v \in Workers : work[u] = work[v] /\ work[u] # None => u = v  BY DEF Ledger, Once
  <1>6. /\ Held' = Held \union {s} /\ work' \in [Workers -> Item \union {None}]
        /\ \A u, v \in Workers : work'[u] = work'[v] /\ work'[u] # None => u = v
    <2>1. ItemTypes /\ s \in Item \ Held  BY <1>2, <1>4 DEF Ledger
    <2>2. QED  BY <2>1, <1>3, <1>4, <1>5, HeldAdd
  <1>7. Queued' \union Held' = Queued \union Held  BY <1>2, <1>6
  <1>8. AllFrames' = AllFrames /\ Put' = Put /\ OneFrame'
    BY DEF Ledger, AllFrames, Put, PutOf, OneFrame
  <1>9. Counted'  BY <1>7, <1>8, SameCount
  <1>10. Open' /\ Behind'  BY <1>7, <1>8 DEF Ledger, Open, Behind
  <1>11. ItemTypes'  BY <1>2, <1>6 DEF Ledger, ItemTypes
  <1>12. Once'
    <2>1. Queued' \intersect Held' = {}  BY <1>2, <1>6 DEF Ledger, Once
    <2>2. QED  BY <2>1, <1>2, <1>6 DEF Once
  <1>13. HeldByPlace'
    <2>1. s # None  BY <1>2, ItemIsSome
    <2>2. \A v \in Workers : v # w => work'[v] = work[v] /\ pc'[v] = pc[v]
      BY <1>1, <1>3 DEF Ledger, ItemTypes, Typing
    <2>3. work'[w] = s /\ pc'[w] = "func"  BY <1>1, <1>3 DEF Ledger, ItemTypes, Typing
    <2>4. QED  BY <2>1, <2>2, <2>3 DEF Ledger, HeldByPlace
  <1>14. QED  BY <1>8, <1>9, <1>10, <1>11, <1>12, <1>13 DEF Ledger

(* A work that ends tells at most one thread that waits for it.            *)
LEMMA SignalFrames ==
  ASSUME NEW w \in Workers, Inv, Ledger, WorkSignals(w)
  PROVE  \/ stack' = stack
         \/ \E t \in Thread : stack[t] # <<>> /\ stack[t][1].at = "sleep" /\ Go(t, "wait")
  <1> DEFINE c == work[w][1]
             Told(t) == count'[c] = 0 /\ At(t, "sleep") /\ Top(t).call = c
             s(t) == [stack[t] EXCEPT ![1].at = "wait"]
  <1>1. stack' = [t \in Thread |-> IF Told(t) THEN s(t) ELSE stack[t]]  BY DEF WorkSignals
  <1>2. Typing /\ OneFrame  BY DEF Inv, Ledger
  <1>3. CASE \A t \in Thread : ~Told(t)
    <2> HIDE DEF Told, s
    <2>1. stack' = [t \in Thread |-> stack[t]]  BY <1>1, <1>3
    <2>2. QED  BY <2>1, <1>2 DEF Typing
  <1>4. CASE \E t \in Thread : Told(t)
    <2>1. PICK t \in Thread : Told(t)  BY <1>4
    <2>2. stack[t] # <<>> /\ Top(t) = stack[t][1] /\ stack[t][1].at = "sleep"
      BY <2>1, <1>2, HeadIs DEF At
    <2>3. \A u \in Thread : Told(u) => u = t
      <3> SUFFICES ASSUME NEW u \in Thread, Told(u) PROVE u = t  OBVIOUS
      <3>1. stack[u] # <<>> /\ Top(u) = stack[u][1] /\ 1 \in 1..Len(stack[u])
        BY <1>2, HeadIs, StackIs DEF At
      <3>2. 1 \in 1..Len(stack[t]) /\ stack[t][1].call = stack[u][1].call
        BY <1>2, <2>1, <2>2, <3>1, StackIs
      <3>3. QED  BY <3>1, <3>2, <1>2 DEF OneFrame
    <2> HIDE DEF Told
    <2>4. stack' = [stack EXCEPT ![t] = s(t)]  BY <1>1, <1>2, <2>1, <2>3 DEF Typing
    <2>5. Go(t, "wait")  BY <2>4 DEF Go
    <2>6. QED  BY <2>2, <2>5
  <1>5. QED  BY <1>3, <1>4

(* The work that ends is counted no more.                                  *)
LEMMA SignalLedger ==
  ASSUME NEW w \in Workers, Inv, Ledger, WorkSignals(w)
  PROVE  Ledger'
  <1> DEFINE s == work[w]
  <1>1. Typing /\ OneFrame /\ ItemTypes  BY DEF Inv, Ledger
  <1>2. /\ count' = [count EXCEPT ![s[1]] = @ - 1] /\ work' = [work EXCEPT ![w] = None]
        /\ pc' = [pc EXCEPT ![w] = "top"] /\ pc[w] = "end" /\ UNCHANGED <<size, back, work_fifo>>
    BY DEF WorkSignals, history
  <1>3. s # None  BY <1>2 DEF Ledger, HeldByPlace
  <1>4. \A u, v \in Workers : work[u] = work[v] /\ work[u] # None => u = v  BY DEF Ledger, Once
  <1>5. /\ s \in Held /\ s \in Item /\ Held' = Held \ {s} /\ work' \in [Workers -> Item \union {None}]
        /\ \A u, v \in Workers : work'[u] = work'[v] /\ work'[u] # None => u = v
    BY <1>1, <1>2, <1>3, <1>4, HeldDrop
  <1>6. HeldByPlace'
    <2>1. \A v \in Workers : v # w => work'[v] = work[v] /\ pc'[v] = pc[v]
      BY <1>1, <1>2 DEF ItemTypes, Typing
    <2>2. work'[w] = None /\ pc'[w] = "top"  BY <1>1, <1>2 DEF ItemTypes, Typing
    <2>3. QED  BY <2>1, <2>2 DEF Ledger, HeldByPlace
  <1> HIDE DEF s
  <1>7. Queued' = Queued  BY <1>2 DEF Queued
  <1>8. /\ OneFrame' /\ Put' = Put
        /\ \A f \in AllFrames' : \E g \in AllFrames :
              /\ f.call = g.call /\ f.n = g.n
              /\ f = g \/ (g.at = "sleep" /\ f.at = "wait")
    <2>1. CASE stack' = stack
      <3>1. AllFrames' = AllFrames /\ Put' = Put /\ OneFrame'
        BY <2>1, <1>1 DEF AllFrames, Put, PutOf, OneFrame
      <3>2. \A f \in AllFrames' : f \in AllFrames /\ f.call = f.call /\ f.n = f.n /\ f = f  BY <3>1
      <3>3. QED  BY <3>1, <3>2
    <2>2. CASE \E t \in Thread : stack[t] # <<>> /\ stack[t][1].at = "sleep" /\ Go(t, "wait")
      <3>1. PICK t \in Thread : stack[t] # <<>> /\ stack[t][1].at = "sleep" /\ Go(t, "wait")
        BY <2>2
      <3> DEFINE x == stack[t][1]
                 y == [x EXCEPT !.at = "wait"]
      <3>2. /\ y \in AnyFrame /\ y.call = x.call /\ y.n = x.n /\ y.next = x.next /\ y.at = "wait"
            /\ stack' = [stack EXCEPT ![t][1] = y]
        <4>1. "wait" \in Places  BY DEF Places
        <4>2. QED  BY <4>1, <3>1, <1>1, GoSets
      <3>3. x \in AllFrames  BY <3>1, <1>1, HeadIs
      <3> HIDE DEF y
      <3>4. AllFrames' = (AllFrames \ {x}) \union {y} /\ OneFrame'  BY <3>1, <3>2, <1>1, SetFrames
      <3>5. x.at = "sleep"  BY <3>1
      <3>9. x.at # "push" /\ y.at # "push"  BY <3>2, <3>5
      <3> HIDE DEF x
      <3>6. Put' = Put
        <4>1. Put' = PutOf(AllFrames') /\ Put = PutOf(AllFrames)  BY DEF Put, PutOf
        <4>2. PutOf((AllFrames \ {x}) \union {y}) = PutOf(AllFrames)  BY <3>9, PutSame, ZenonT(30)
        <4>3. QED  BY <4>1, <4>2, <3>4
      <3>7. ASSUME NEW f \in AllFrames'
            PROVE  \E g \in AllFrames : /\ f.call = g.call /\ f.n = g.n
                                        /\ f = g \/ (g.at = "sleep" /\ f.at = "wait")
        <4>1. CASE f \in AllFrames  BY <4>1
        <4>2. CASE f = y  BY <4>2, <3>2, <3>3, <3>5
        <4>3. QED  BY <4>1, <4>2, <3>4
      <3>8. QED  BY <3>4, <3>6, <3>7
    <2>3. QED  BY <2>1, <2>2, SignalFrames
  <1>9. s \notin Queued /\ s \notin Put
    <2>1. s \notin Queued  BY <1>5 DEF Ledger, Once
    <2>2. ASSUME s \in Put PROVE FALSE
      <3>1. PICK g \in AllFrames : g.at = "push" /\ s = <<g.call, g.next>>  BY <2>2 DEF Put, PutOf
      <3>2. s[1] = g.call /\ s[2] = g.next /\ g.next \in Nat
        <4>1. g \in AnyFrame  BY <1>1, FramesTyped
        <4>2. QED  BY <3>1, <4>1 DEF AnyFrame
      <3>3. s[2] < g.next  BY <3>1, <3>2, <1>5 DEF Ledger, Behind
      <3>4. QED  BY <3>2, <3>3
    <2>3. QED  BY <2>1, <2>2
  <1>10. Counted'
    <2> SUFFICES ASSUME NEW c \in Promise!Call
                 PROVE  IsFiniteSet(Due(c)') /\ count'[c] = Cardinality(Due(c)')
      BY DEF Counted
    <2>1. IsFiniteSet(Due(c)) /\ count[c] = Cardinality(Due(c))  BY DEF Ledger, Counted
    <2>2. CASE c = s[1]
      <3>1. Due(c)' = Due(c) \ {s} /\ s \in Due(c)  BY <2>2, <1>5, <1>7, <1>8, <1>9 DEF Due
      <3>2. IsFiniteSet(Due(c)') /\ Cardinality(Due(c)') = Cardinality(Due(c)) - 1
        BY <2>1, <3>1, FS_RemoveElement
      <3>3. count'[c] = count[c] - 1  BY <2>2, <1>2 DEF Ledger, ItemTypes
      <3>4. QED  BY <2>1, <3>2, <3>3
    <2>3. CASE c # s[1]
      <3>1. Due(c)' = Due(c)  BY <2>3, <1>5, <1>7, <1>8, <1>9 DEF Due
      <3>2. count'[c] = count[c]  BY <2>3, <1>2 DEF Ledger, ItemTypes
      <3>3. QED  BY <2>1, <3>1, <3>2
    <2>4. QED  BY <2>2, <2>3
  <1>11. Open'
    <2>1. \A f \in AllFrames' : size[f.call] # 0 /\ f.call \notin back /\ (f.n = 1 => f.at = "func")
      <3> SUFFICES ASSUME NEW f \in AllFrames'
                   PROVE  size[f.call] # 0 /\ f.call \notin back /\ (f.n = 1 => f.at = "func")
        OBVIOUS
      <3>1. PICK g \in AllFrames : /\ f.call = g.call /\ f.n = g.n
                                   /\ f = g \/ (g.at = "sleep" /\ f.at = "wait")
        BY <1>8
      <3>2. size[g.call] # 0 /\ g.call \notin back /\ (g.n = 1 => g.at = "func")
        BY DEF Ledger, Open
      <3>3. QED  BY <3>1, <3>2
    <2>2. QED  BY <2>1, <1>2, <1>5, <1>7 DEF Ledger, Open
  <1>12. Behind'
    <2> SUFFICES ASSUME NEW f \in AllFrames', NEW v \in Queued' \union Held', v[1] = f.call
                 PROVE  /\ f.n # 1 /\ f.at # "enter"
                        /\ f.at \in {"count", "push"} => v[2] < f.next
      BY DEF Behind
    <2>1. PICK g \in AllFrames : /\ f.call = g.call /\ f.n = g.n
                                 /\ f = g \/ (g.at = "sleep" /\ f.at = "wait")
      BY <1>8
    <2>2. v \in Queued \union Held  BY <1>5, <1>7
    <2>3. /\ g.n # 1 /\ g.at # "enter"
          /\ g.at \in {"count", "push"} => v[2] < g.next
      BY <2>1, <2>2 DEF Ledger, Behind
    <2>4. QED  BY <2>1, <2>3
  <1>13. ItemTypes'
    <2>1. count' \in [Promise!Call -> Int]  BY <1>1, <1>2, <1>5, ItemIsSome DEF ItemTypes
    <2>2. QED  BY <2>1, <1>1, <1>2, <1>5 DEF ItemTypes
  <1>14. Once'
    <2>1. Queued' \intersect Held' = {}  BY <1>5, <1>7 DEF Ledger, Once
    <2>2. QED  BY <2>1, <1>2, <1>5 DEF Ledger, Once
  <1>15. QED  BY <1>6, <1>8, <1>10, <1>11, <1>12, <1>13, <1>14 DEF Ledger

(* The steps of a worker.                                                  *)
LEMMA WorkerLedger ==
  ASSUME NEW w \in Workers, Inv, Ledger, Worker(w)
  PROVE  Ledger'
  <1>1. Typing /\ HeldByPlace  BY DEF Inv, Ledger
  <1>2. CASE WorkTake(w)  BY <1>2, PopLedger DEF WorkTake
  <1>3. CASE WorkWakeTake(w)  BY <1>3, PopLedger DEF WorkWakeTake
  <1>4. CASE WorkSignals(w)  BY <1>4, SignalLedger
  <1>5. CASE WorkWait(w) \/ WorkSleepAgain(w) \/ WorkExit(w) \/ WorkEnds(w)
    <2>1. UNCHANGED <<size, back, count, work_fifo, work, stack>>
      BY <1>5 DEF WorkWait, WorkSleepAgain, WorkExit, WorkEnds, history
    <2>2. \/ pc' = pc
          \/ \E p \in {"sleep", "exited"} : pc[w] \in {"top", "sleep"} /\ pc' = [pc EXCEPT ![w] = p]
          \/ pc[w] = "func" /\ pc' = [pc EXCEPT ![w] = "end"]
      BY <1>5 DEF WorkWait, WorkSleepAgain, WorkExit, WorkEnds
    <2>3. HeldByPlace'  BY <1>1, <2>1, <2>2 DEF HeldByPlace, Typing
    <2>4. QED  BY <2>1, <2>3, SameLedger
  <1>6. QED  BY <1>2, <1>3, <1>4, <1>5 DEF Worker

(* A wait that ends by itself.                                             *)
LEMMA SpuriousLedger ==
  ASSUME Inv, Ledger, Spurious
  PROVE  Ledger'
  <1>1. UNCHANGED <<size, back, count, work_fifo, work, pc>>  BY DEF Spurious, history
  <1>2. CASE UNCHANGED stack
    <2>1. HeldByPlace'  BY <1>1 DEF Ledger, HeldByPlace
    <2>2. QED  BY <1>1, <1>2, <2>1, SameLedger
  <1>3. CASE \E t \in Thread : At(t, "sleep") /\ Go(t, "wait")
    <2>1. PICK t \in Thread : At(t, "sleep") /\ Go(t, "wait")  BY <1>3
    <2>2. stack[t] # <<>> /\ stack[t][1] \in AllFrames /\ stack[t][1].at = "sleep"
      BY <2>1, HeadIs DEF Inv, At
    <2>3. stack[t][1].n # 1 /\ stack[t][1].at \notin {"push"} /\ "wait" \in {"leave", "wait", "sleep", "enter"}
      BY <2>2 DEF Ledger, Open
    <2>4. QED  BY <1>1, <2>1, <2>2, <2>3, Moves
  <1>4. QED  BY <1>2, <1>3 DEF Spurious

(* At the start there is neither a call nor a work.                        *)
LEMMA InitLedger == Init => Ledger
  <1> SUFFICES ASSUME Init PROVE Ledger  OBVIOUS
  <1>1. \A t \in Thread : stack[t] = <<>>  BY DEF Init
  <1>2. AllFrames = {} /\ OneFrame  BY <1>1 DEF AllFrames, OneFrame
  <1>3. work_fifo = <<>> /\ Queued = {} /\ Distinct(work_fifo)  BY DEF Init, Queued, Items, Distinct
  <1>4. Held = {} /\ HeldByPlace  BY DEF Init, Held, HeldByPlace
  <1>5. Put = {}  BY <1>2 DEF Put, PutOf
  <1>6. Counted
    <2>1. \A c \in Promise!Call : Due(c) = {}  BY <1>3, <1>4, <1>5 DEF Due
    <2>2. QED  BY <2>1, FS_EmptySet DEF Counted, Init
  <1>7. back = {} /\ size \in [Promise!Call -> Int]  BY DEF Init, Promise!Init
  <1>8. ItemTypes  BY <1>3, <1>7 DEF ItemTypes, Init
  <1>9. Once  BY <1>3, <1>4 DEF Once, Init
  <1>10. Open /\ Behind  BY <1>2, <1>3, <1>4, <1>7 DEF Open, Behind
  <1>11. QED  BY <1>2, <1>4, <1>6, <1>8, <1>9, <1>10 DEF Ledger

(* Every step keeps the ledger.                                            *)
LEMMA NextLedger == Inv /\ Ledger /\ [Next]_vars => Ledger'
  <1> SUFFICES ASSUME Inv, Ledger, [Next]_vars PROVE Ledger'  OBVIOUS
  <1>1. CASE \E t \in Thread : Parallelize(t)  BY <1>1, CallLedger
  <1>2. CASE \E t \in Thread : Caller(t)  BY <1>2, CallerLedger
  <1>3. CASE \E w \in Workers : Worker(w)  BY <1>3, WorkerLedger
  <1>4. CASE Spurious  BY <1>4, SpuriousLedger
  <1>5. CASE Done \/ Broadcast \/ Joined \/ UNCHANGED vars
    <2>1. UNCHANGED <<size, back, count, work_fifo, work, pc, stack>>
      BY <1>5 DEF Done, Broadcast, Joined, vars, history
    <2>2. HeldByPlace'  BY <2>1 DEF Ledger, HeldByPlace
    <2>3. QED  BY <2>1, <2>2, SameLedger
  <1>6. QED  BY <1>1, <1>2, <1>3, <1>4, <1>5 DEF Next

(* The group of a call lies in the stack of its caller: when the call has  *)
(* returned, no work that would touch it is in the fifo or with a thread,  *)
(* and its count is zero.                                                  *)
THEOREM GroupsOutliveWorks == Spec => []GroupOutlivesWorks
  <1>1. Ledger => GroupOutlivesWorks
    <2> SUFFICES ASSUME Ledger, NEW c \in back
                 PROVE  /\ count[c] = 0
                        /\ \A w \in Workers : work[w] # None => work[w][1] # c
                        /\ \A i \in 1..Len(work_fifo) : work_fifo[i][1] # c
      BY DEF GroupOutlivesWorks
    <2>1. \A s \in Queued \union Held : s[1] # c  BY DEF Ledger, Open
    <2>2. \A s \in Put : s[1] # c  BY DEF Ledger, Open, Put, PutOf
    <2>3. Due(c) = {} /\ c \in Promise!Call  BY <2>1, <2>2 DEF Due, Ledger, ItemTypes
    <2>4. count[c] = 0  BY <2>3, FS_EmptySet DEF Ledger, Counted
    <2>5. QED  BY <2>1, <2>4 DEF Queued, Items, Held
  <1>2. QED  BY <1>1, InitLedger, NextLedger, InvInv, PTL DEF Spec
---------------------------------------------------------------------------
(***************************************************************************)
(* The history of the calls, that ForkJoin speaks of: a share is in the    *)
(* fifo before it begins, with a thread until it ends, and none is lost in *)
(* between, so that a call returns after all of its shares.  A call lies   *)
(* in the stack upon the share that made it: so a share ends after it.     *)
(***************************************************************************)
\* The shares that are somewhere, and those of a call that have been put.
Placed == Queued \union Held \union ended
Upto(f) == IF f.at \in {"count", "push"} THEN f.next ELSE f.n

HistoryTypes ==
    /\ size \in [Promise!Call -> 0..MaxShares]
    /\ begun \subseteq Item /\ ended \subseteq begun

\* Where a share is tells whether it has begun and ended.
Known ==
    /\ \A s \in begun \union Queued : s[2] < size[s[1]]
    /\ \A s \in Queued \union Held : s[2] >= 1
    /\ Queued \intersect begun = {}
    /\ \A w \in Workers : /\ pc[w] = "func" => work[w] \in begun \ ended
                          /\ pc[w] = "end" => work[w] \in ended

\* The place of a call tells of its own share, and its other shares are placed.
Right(f) ==
    /\ f.n = size[f.call] /\ f.n >= 1
    /\ f.at \in {"count", "push"} =>
          /\ 1 <= f.next /\ f.next < f.n
          /\ \A s \in begun : s[1] = f.call => 1 <= s[2] /\ s[2] < f.next
    /\ f.at = "func" => <<f.call, 0>> \in begun \ ended
    /\ f.at \in {"leave", "wait", "sleep", "enter"} => <<f.call, 0>> \in ended
    /\ \A k \in 1..Upto(f) - 1 : <<f.call, k>> \in Placed

AllRight == \A f \in AllFrames : Right(f)

\* A call that was made is in a stack until it returns.
Live == \A c \in Promise!Call : size[c] # 0 /\ c \notin back => \E f \in AllFrames : f.call = c

\* The share below a call in its stack, None below an outer call.
Parent(t, i) ==
    IF i < Len(stack[t]) THEN <<stack[t][i + 1].call, 0>>
    ELSE IF t = Main THEN None ELSE work[t]

\* The share below a call is the one that made it.
Nested ==
    \A t \in Thread : \A i \in 1..Len(stack[t]) :
        IF Parent(t, i) = None THEN Promise!IsOuter(stack[t][i].call)
        ELSE stack[t][i].call = Promise!Inner(Parent(t, i))

History == HistoryTypes /\ Known /\ AllRight /\ Live /\ Nested

---------------------------------------------------------------------------
(* The path of a call is a sequence.                                       *)
LEMMA PathIsSeq == \A c \in Promise!Call : c = <<c[1], c[2]>> /\ c[2] \in Seq(Int)
  <1> SUFFICES ASSUME NEW c \in Promise!Call PROVE c = <<c[1], c[2]>> /\ c[2] \in Seq(Int)
    OBVIOUS
  <1>1. c = <<c[1], c[2]>> /\ c[2] \in Promise!Path  BY DEF Promise!Call
  <1>2. MaxWide \in Nat /\ MaxDepth \in Nat /\ MaxShares \in Nat  BY BoundsAssumption
  <1>3. Promise!Number \subseteq Int  BY <1>2 DEF Promise!Number
  <1>4. \A d \in Nat : [1..d -> Int] \subseteq Seq(Int)  BY SeqDef
  <1>5. CASE \E d \in 0..MaxWide : c[2] \in [1..d -> Promise!Number]
    <2>1. PICK d \in 0..MaxWide : c[2] \in [1..d -> Promise!Number]  BY <1>5
    <2>2. d \in Nat /\ c[2] \in [1..d -> Int]
      <3>1. d \in Nat  BY <2>1, <1>2
      <3>2. [1..d -> Promise!Number] \subseteq [1..d -> Int]  BY <1>3
      <3>3. QED  BY <2>1, <3>1, <3>2
    <2>3. QED  BY <2>2, <1>1, <1>4
  <1>6. CASE \E d \in 0..MaxDepth : c[2] = [i \in 1..d |-> MaxShares - 1]
    <2>1. PICK d \in 0..MaxDepth : c[2] = [i \in 1..d |-> MaxShares - 1]  BY <1>6
    <2>2. d \in Nat /\ MaxShares - 1 \in Int  BY <1>2
    <2>3. c[2] \in [1..d -> Int]  BY <2>1, <2>2
    <2>4. QED  BY <2>2, <2>3, <1>1, <1>4
  <1>7. \/ \E d \in 0..MaxWide : c[2] \in [1..d -> Promise!Number]
        \/ \E d \in 0..MaxDepth : c[2] = [i \in 1..d |-> MaxShares - 1]
    BY <1>1, Zenon DEF Promise!Path
  <1>8. QED  BY <1>1, <1>5, <1>6, <1>7

(* Two shares do not make the same call, and none makes an outer one.      *)
LEMMA InnerIsOne ==
  /\ \A s, r \in Item : Promise!Inner(s) = Promise!Inner(r) => s = r
  /\ \A s \in Item : ~ Promise!IsOuter(Promise!Inner(s))
  <1>1. ASSUME NEW s \in Item PROVE Promise!Inner(s)[2] # <<>>
    <2>1. s[1][2] \in Seq(Int) /\ s[2] \in Int  BY PathIsSeq, ItemIsSome
    <2>2. Append(s[1][2], s[2]) # <<>>  BY <2>1
    <2>3. QED  BY <2>2 DEF Promise!Inner
  <1>2. ASSUME NEW s \in Item, NEW r \in Item, Promise!Inner(s) = Promise!Inner(r) PROVE s = r
    <2> DEFINE p == s[1][2]
               q == r[1][2]
               a == s[2]
               b == r[2]
    <2>1. p \in Seq(Int) /\ q \in Seq(Int) /\ a \in Int /\ b \in Int  BY PathIsSeq, ItemIsSome
    <2>2. s[1][1] = r[1][1] /\ Append(p, a) = Append(q, b)  BY <1>2 DEF Promise!Inner
    <2>3. p = q /\ a = b
      <3> HIDE DEF p, q, a, b
      <3>1. /\ Len(Append(p, a)) = Len(p) + 1 /\ Append(p, a)[Len(p) + 1] = a
            /\ \A i \in 1..Len(p) : Append(p, a)[i] = p[i]
        BY <2>1
      <3>2. /\ Len(Append(q, b)) = Len(q) + 1 /\ Append(q, b)[Len(q) + 1] = b
            /\ \A i \in 1..Len(q) : Append(q, b)[i] = q[i]
        BY <2>1
      <3>3. Len(p) = Len(q) /\ a = b  BY <2>1, <2>2, <3>1, <3>2
      <3>4. \A i \in 1..Len(p) : p[i] = q[i]  BY <2>2, <3>1, <3>2, <3>3
      <3>5. p = q  BY <2>1, <3>3, <3>4, SeqEqual
      <3>6. QED  BY <3>3, <3>5
    <2>4. s[1] = <<s[1][1], p>> /\ r[1] = <<r[1][1], q>> /\ s = <<s[1], a>> /\ r = <<r[1], b>>
      BY PathIsSeq, ItemIsSome
    <2> HIDE DEF p, q, a, b
    <2>5. QED  BY <2>2, <2>3, <2>4
  <1>3. QED  BY <1>1, <1>2 DEF Promise!IsOuter

(* What is right for a call stays right while others begin and end.        *)
LEMMA RightKept ==
  ASSUME NEW f \in AnyFrame, Right(f), size'[f.call] = size[f.call],
         begun \subseteq begun', ended \subseteq ended', Placed \subseteq Placed',
         \A s \in begun' \ begun : s[1] = f.call /\ f.at \in {"count", "push"} => 1 <= s[2] /\ s[2] < f.next,
         f.at = "func" => <<f.call, 0>> \notin ended' \ ended
  PROVE  Right(f)'
  <1>1. f.n = size'[f.call] /\ f.n >= 1  BY DEF Right
  <1>2. ASSUME f.at \in {"count", "push"}
        PROVE  /\ 1 <= f.next /\ f.next < f.n
               /\ \A s \in begun' : s[1] = f.call => 1 <= s[2] /\ s[2] < f.next
    BY <1>2 DEF Right
  <1>3. f.at = "func" => <<f.call, 0>> \in begun' \ ended'  BY DEF Right
  <1>4. f.at \in {"leave", "wait", "sleep", "enter"} => <<f.call, 0>> \in ended'  BY DEF Right
  <1>5. \A k \in 1..Upto(f) - 1 : <<f.call, k>> \in Placed'  BY DEF Right
  <1>6. Upto(f)' = Upto(f)  BY DEF Upto
  <1> HIDE DEF Placed
  <1>7. QED  BY <1>1, <1>2, <1>3, <1>4, <1>5, <1>6 DEF Right

(* A step that replaces the top of a stack keeps the calls in their place. *)
LEMMA SetCalls ==
  ASSUME NEW t \in Thread, NEW f \in AnyFrame, Typing, stack[t] # <<>>,
         f.call = stack[t][1].call, stack' = [stack EXCEPT ![t][1] = f]
  PROVE  \A u \in Thread : /\ Len(stack'[u]) = Len(stack[u])
                           /\ \A i \in 1..Len(stack[u]) : stack'[u][i].call = stack[u][i].call
  <1> DEFINE s == [stack[t] EXCEPT ![1] = f]
  <1>1. stack[t] \in Seq(AnyFrame) /\ Len(stack[t]) \in Nat /\ 1 \in 1..Len(stack[t])  BY StackIs
  <1>2. /\ Len(s) = Len(stack[t])
        /\ \A i \in 1..Len(s) : s[i].call = stack[t][i].call
    BY <1>1
  <1>3. stack' = [stack EXCEPT ![t] = s]  OBVIOUS
  <1> HIDE DEF s
  <1>4. stack'[t] = s /\ \A u \in Thread : u # t => stack'[u] = stack[u]  BY <1>3 DEF Typing
  <1>5. QED  BY <1>1, <1>2, <1>4

(* The calls in the same place nest as before.                             *)
LEMMA NestedKept ==
  ASSUME Nested,
         \A u \in Thread : /\ Len(stack'[u]) = Len(stack[u])
                           /\ \A i \in 1..Len(stack[u]) : stack'[u][i].call = stack[u][i].call,
         \A u \in Thread : u # Main /\ Len(stack[u]) # 0 => work'[u] = work[u],
         Typing
  PROVE  Nested'
  <1> SUFFICES ASSUME NEW u \in Thread, NEW i \in 1..Len(stack'[u])
               PROVE  IF Parent(u, i)' = None THEN Promise!IsOuter(stack'[u][i].call)
                      ELSE stack'[u][i].call = Promise!Inner(Parent(u, i)')
    BY DEF Nested
  <1>1. i \in 1..Len(stack[u]) /\ stack'[u][i].call = stack[u][i].call /\ Len(stack'[u]) = Len(stack[u])
    OBVIOUS
  <1>2. Len(stack[u]) \in Nat /\ Len(stack[u]) # 0
    <2>1. Len(stack[u]) \in Nat  BY StackIs
    <2>2. QED  BY <2>1, <1>1
  <1>3. Parent(u, i)' = Parent(u, i)
    <2>1. CASE i < Len(stack[u])
      <3>1. i + 1 \in 1..Len(stack[u])  BY <2>1, <1>1, <1>2
      <3>2. stack'[u][i + 1].call = stack[u][i + 1].call  BY <3>1
      <3>3. QED  BY <3>2, <2>1, <1>1 DEF Parent
    <2>2. CASE ~(i < Len(stack[u]))
      <3>1. u # Main => work'[u] = work[u]  BY <1>2
      <3>2. QED  BY <3>1, <2>2, <1>1 DEF Parent
    <2>3. QED  BY <2>1, <2>2
  <1>4. QED  BY <1>1, <1>3 DEF Nested

(* A call that goes on.                                                    *)
LEMMA SetHistory ==
  ASSUME NEW t \in Thread, NEW y \in AnyFrame, Inv, Ledger, History, stack[t] # <<>>,
         y.call = stack[t][1].call,
         stack' = [stack EXCEPT ![t][1] = y], UNCHANGED <<size, back>>,
         \A u \in Thread : u # Main /\ Len(stack[u]) # 0 => work'[u] = work[u],
         HistoryTypes', Known', Right(y)',
         begun \subseteq begun', ended \subseteq ended', Placed \subseteq Placed',
         \A s \in (begun' \ begun) \union (ended' \ ended) : s[1] = y.call
  PROVE  History'
  <1> DEFINE x == stack[t][1]
  <1>1. Typing /\ OneFrame  BY DEF Inv, Ledger
  <1>2. x \in AllFrames /\ x \in AnyFrame  BY <1>1, HeadIs
  <1>3. AllFrames' = (AllFrames \ {x}) \union {y}  BY <1>1, SetFrames
  <1>4. Nested'
    <2>1. \A u \in Thread : /\ Len(stack'[u]) = Len(stack[u])
                            /\ \A i \in 1..Len(stack[u]) : stack'[u][i].call = stack[u][i].call
      BY <1>1, SetCalls
    <2>2. QED  BY <2>1, <1>1, NestedKept DEF History
  <1> HIDE DEF x
  <1>5. AllRight'
    <2> SUFFICES ASSUME NEW f \in AllFrames' PROVE Right(f)'  BY DEF AllRight
    <2>1. CASE f = y  BY <2>1
    <2>2. CASE f \in AllFrames /\ f # x
      <3>1. f.call # y.call  BY <2>2, <1>1, <1>2, OneCall DEF x
      <3>2. Right(f) /\ f \in AnyFrame  BY <2>2, <1>1, FramesTyped DEF History, AllRight
      <3>3. <<f.call, 0>>[1] = f.call  OBVIOUS
      <3>4. <<f.call, 0>> \notin ended' \ ended
        <4> SUFFICES ASSUME <<f.call, 0>> \in ended' \ ended PROVE FALSE  OBVIOUS
        <4>1. <<f.call, 0>>[1] = y.call  OBVIOUS
        <4>2. QED  BY <4>1, <3>1, <3>3
      <3>5. QED  BY <3>1, <3>2, <3>4, RightKept
    <2>3. QED  BY <2>1, <2>2, <1>3
  <1>6. Live'
    <2>1. \A f \in AllFrames : \E g \in AllFrames' : g.call = f.call  BY <1>3 DEF x
    <2>2. QED  BY <2>1 DEF History, Live
  <1>7. QED  BY <1>4, <1>5, <1>6 DEF History

(* A call that goes to another place has a frame there.                    *)
LEMMA GoFrame ==
  ASSUME NEW t \in Thread, NEW p \in Places, Typing, stack[t] # <<>>, Go(t, p)
  PROVE  \E y \in AnyFrame :
            /\ y.call = stack[t][1].call /\ y.n = stack[t][1].n
            /\ y.next = stack[t][1].next /\ y.at = p
            /\ stack' = [stack EXCEPT ![t][1] = y]
  <1> DEFINE y == [stack[t][1] EXCEPT !.at = p]
  <1>1. /\ y \in AnyFrame /\ y.call = stack[t][1].call /\ y.n = stack[t][1].n
        /\ y.next = stack[t][1].next /\ y.at = p
        /\ stack' = [stack EXCEPT ![t][1] = y]
    BY GoSets
  <1>2. QED  BY <1>1

(* A call that only goes to another place after its own share.             *)
LEMMA MovesHistory ==
  ASSUME NEW t \in Thread, NEW p \in {"wait", "sleep", "enter"}, Inv, Ledger, History,
         stack[t] # <<>>, Go(t, p), stack[t][1].at \in {"leave", "wait", "sleep"},
         UNCHANGED history,
         \A u \in Thread : u # Main /\ Len(stack[u]) # 0 => work'[u] = work[u],
         HistoryTypes', Known', Placed \subseteq Placed'
  PROVE  History'
  <1> DEFINE x == stack[t][1]
  <1>1. Typing  BY DEF Inv
  <1>2. PICK y \in AnyFrame :
          /\ y.call = x.call /\ y.n = x.n /\ y.next = x.next /\ y.at = p
          /\ stack' = [stack EXCEPT ![t][1] = y]
    <2>1. p \in Places  BY DEF Places
    <2>2. QED  BY <2>1, <1>1, GoFrame
  <1>3. Right(x) /\ x.at \in {"leave", "wait", "sleep"}  BY <1>1, HeadIs DEF History, AllRight
  <1>4. y.call = stack[t][1].call /\ stack' = [stack EXCEPT ![t][1] = y]  BY <1>2
  <1> HIDE DEF x
  <1>5. UNCHANGED <<size, begun, ended, back>>  BY DEF history
  <1>7. Right(y)'
    <2>1. Upto(y)' = y.n /\ Upto(x) = x.n /\ y.at \in {"wait", "sleep", "enter"}  BY <1>2, <1>3 DEF Upto
    <2>2. \A k \in 1..y.n - 1 : <<y.call, k>> \in Placed'  BY <1>2, <1>3, <1>5, <2>1 DEF Right
    <2>3. y.n = size'[y.call] /\ y.n >= 1 /\ <<y.call, 0>> \in ended'  BY <1>2, <1>3, <1>5 DEF Right
    <2>4. QED  BY <2>1, <2>2, <2>3 DEF Right
  <1>8. QED  BY <1>2, <1>4, <1>5, <1>7, SetHistory

(* The same for a step that changes nothing else.                          *)
LEMMA OnlyMoves ==
  ASSUME NEW t \in Thread, NEW p \in {"wait", "sleep", "enter"}, Inv, Ledger, History,
         stack[t] # <<>>, Go(t, p), stack[t][1].at \in {"leave", "wait", "sleep"},
         UNCHANGED <<history, work_fifo, work, pc>>
  PROVE  History'
  <1>1. HistoryTypes' /\ Known' /\ Placed' = Placed
    BY DEF history, Placed, History, HistoryTypes, Known, Queued, Held, Items
  <1>2. QED  BY <1>1, MovesHistory

(* group_put(), the lock of the group.                                     *)
LEMMA CountHistory ==
  ASSUME NEW t \in Thread, Inv, Ledger, History, GroupCount(t)
  PROVE  History'
  <1> DEFINE x == stack[t][1]
  <1>1. Typing /\ stack[t] # <<>> /\ Go(t, "push")  BY DEF Inv, GroupCount, At
  <1>2. PICK y \in AnyFrame :
          /\ y.call = x.call /\ y.n = x.n /\ y.next = x.next /\ y.at = "push"
          /\ stack' = [stack EXCEPT ![t][1] = y]
    <2>1. "push" \in Places  BY DEF Places
    <2>2. QED  BY <2>1, <1>1, GoFrame
  <1>3. Right(x) /\ x.at = "count"  BY <1>1, HeadIs DEF History, AllRight, GroupCount
  <1>4. y.call = stack[t][1].call /\ stack' = [stack EXCEPT ![t][1] = y]  BY <1>2
  <1> HIDE DEF x
  <1>5. UNCHANGED <<size, begun, ended, back, work>> /\ Placed' = Placed
    BY DEF GroupCount, history, Placed, Queued, Held, Items
  <1>6. HistoryTypes' /\ Known'
    BY <1>5 DEF GroupCount, History, HistoryTypes, Known, Queued, Held, Items
  <1>7. Right(y)'  BY <1>2, <1>3, <1>5 DEF Right, Upto
  <1>8. QED  BY <1>1, <1>2, <1>4, <1>5, <1>6, <1>7, SetHistory

(* group_put(), the lock of the fifo: the last put begins the first share. *)
LEMMA PushHistory ==
  ASSUME NEW t \in Thread, Inv, Ledger, History, GroupPush(t)
  PROVE  History'
  <1> DEFINE x == stack[t][1]
             s == <<x.call, x.next>>
             z == <<x.call, 0>>
  <1>1. Typing /\ OneFrame /\ stack[t] # <<>>  BY DEF Inv, Ledger, GroupPush, At
  <1>2. x \in AllFrames /\ x \in AnyFrame /\ Top(t) = x /\ x.at = "push" /\ Right(x)
    BY <1>1, HeadIs DEF GroupPush, History, AllRight
  <1>3. PICK y \in AnyFrame :
          /\ y.call = x.call /\ y.n = x.n
          /\ \/ /\ y.at = "count" /\ y.next = x.next + 1 /\ x.next + 1 < x.n /\ begun' = begun
             \/ y.at = "func" /\ ~ x.next + 1 < x.n /\ begun' = begun \union {z}
          /\ stack' = [stack EXCEPT ![t][1] = y]
    <2>1. CASE Top(t).next + 1 < Top(t).n
      <3> DEFINE y == [x EXCEPT !.next = x.next + 1, !.at = "count"]
      <3>1. x.next + 1 \in Nat  BY <1>2 DEF AnyFrame
      <3>2. y \in AnyFrame /\ y.call = x.call /\ y.n = x.n /\ y.at = "count" /\ y.next = x.next + 1
        BY <3>1, <1>2 DEF AnyFrame
      <3>3. stack' = [stack EXCEPT ![t][1] = y] /\ begun' = begun  BY <2>1, <1>2 DEF GroupPush
      <3>4. QED  BY <2>1, <1>2, <3>2, <3>3
    <2>2. CASE ~ (Top(t).next + 1 < Top(t).n)
      <3>1. "func" \in Places /\ Go(t, "func") /\ begun' = begun \union {z}
        BY <2>2, <1>2 DEF Places, GroupPush
      <3> DEFINE y == [x EXCEPT !.at = "func"]
      <3>2. /\ y \in AnyFrame /\ y.call = x.call /\ y.n = x.n /\ y.at = "func"
            /\ stack' = [stack EXCEPT ![t][1] = y]
        BY <3>1, <1>1, GoSets
      <3>3. QED  BY <2>2, <1>2, <3>1, <3>2
    <2>3. QED  BY <2>1, <2>2
  <1>4. work_fifo' = <<s>> \o work_fifo /\ UNCHANGED <<size, ended, back, work, pc>>
    BY <1>2 DEF GroupPush
  <1>5. y.call = stack[t][1].call  BY <1>3
  <1> HIDE DEF x
  <1>6. /\ x.n \in Nat /\ x.next \in Nat /\ x.call \in Promise!Call /\ x.n = size[x.call]
        /\ 1 <= x.next /\ x.next < x.n
        /\ \A r \in begun : r[1] = x.call => 1 <= r[2] /\ r[2] < x.next
        /\ \A k \in 1..x.next - 1 : <<x.call, k>> \in Placed
    BY <1>2 DEF Right, AnyFrame, Upto
  <1>7. s \in Item /\ s[1] = x.call /\ s[2] = x.next /\ z \in Item /\ z[1] = x.call /\ z[2] = 0
    BY <1>6 DEF Item
  <1>8. s \notin begun /\ z \notin begun /\ z \notin ended /\ s # z
    BY <1>6, <1>7 DEF History, HistoryTypes
  <1> HIDE DEF s
  <1>9. Queued' = Queued \union {s} /\ Held' = Held
    <2>1. s \in Item \ Items(work_fifo) /\ work_fifo \in Seq(Item) /\ Distinct(work_fifo)
      <3>1. ASSUME s \in Queued PROVE FALSE
        <4>1. s[2] < x.next  BY <3>1, <1>2, <1>7 DEF Ledger, Behind
        <4>2. QED  BY <4>1, <1>6, <1>7
      <3>2. QED  BY <3>1, <1>7 DEF Ledger, ItemTypes, Once, Queued
    <2> DEFINE q == <<s>> \o work_fifo
    <2>2. Items(q) = Items(work_fifo) \union {s}  BY <2>1, ItemsAdd
    <2>3. work_fifo' = q  BY <1>4
    <2> HIDE DEF q
    <2>4. QED  BY <1>4, <2>2, <2>3 DEF Queued, Held
  <1> HIDE DEF z
  <1>10. Placed' = Placed \union {s}  BY <1>4, <1>9 DEF Placed
  <1>11. begun \subseteq begun' /\ begun' \subseteq begun \union {z}  BY <1>3
  <1>12. HistoryTypes'  BY <1>4, <1>7, <1>11 DEF History, HistoryTypes
  <1>13. Known'
    <2>1. s[2] < size[s[1]] /\ s[2] >= 1 /\ z[2] < size[z[1]]  BY <1>6, <1>7
    <2>2. z \notin Queued /\ z # s
      <3>1. ASSUME z \in Queued PROVE FALSE
        <4>1. z[2] >= 1  BY <3>1 DEF History, Known
        <4>2. QED  BY <4>1, <1>7
      <3>2. QED  BY <3>1, <1>8
    <2>3. Queued' \intersect begun' = {}  BY <2>2, <1>8, <1>9, <1>11 DEF History, Known
    <2>4. \A w \in Workers : /\ pc[w] = "func" => work[w] \in begun' \ ended
                             /\ pc[w] = "end" => work[w] \in ended
      BY <1>11 DEF History, Known
    <2>5. \A r \in begun' \union Queued' : r[2] < size[r[1]]  BY <2>1, <1>9, <1>11 DEF History, Known
    <2>6. \A r \in Queued' \union Held' : r[2] >= 1  BY <2>1, <1>9 DEF History, Known
    <2>7. QED  BY <2>3, <2>4, <2>5, <2>6, <1>4 DEF Known
  <1>14. Right(y)'
    <2>1. \A k \in 1..x.next : <<x.call, k>> \in Placed'
      <3> SUFFICES ASSUME NEW k \in 1..x.next PROVE <<x.call, k>> \in Placed'  OBVIOUS
      <3>1. CASE k = x.next  BY <3>1, <1>10 DEF s
      <3>2. CASE k # x.next
        <4>1. k \in 1..x.next - 1  BY <3>2, <1>6
        <4>2. QED  BY <4>1, <1>6, <1>10
      <3>3. QED  BY <3>1, <3>2
    <2>2. y.n = size'[y.call] /\ y.n >= 1  BY <1>3, <1>4, <1>6
    <2>3. CASE y.at = "count" /\ y.next = x.next + 1 /\ x.next + 1 < x.n /\ begun' = begun
      <3>1. Upto(y)' - 1 = x.next  BY <2>3, <1>6 DEF Upto
      <3>2. 1 <= y.next /\ y.next < y.n  BY <2>3, <1>3, <1>6
      <3>3. \A r \in begun' : r[1] = y.call => 1 <= r[2] /\ r[2] < y.next
        <4> SUFFICES ASSUME NEW r \in begun, r[1] = y.call PROVE 1 <= r[2] /\ r[2] < y.next
          BY <2>3
        <4>1. 1 <= r[2] /\ r[2] < x.next  BY <1>3, <1>6
        <4>2. r[2] \in Nat  BY ItemIsSome DEF History, HistoryTypes
        <4>3. QED  BY <4>1, <4>2, <2>3, <1>6
      <3>4. \A k \in 1..Upto(y)' - 1 : <<y.call, k>> \in Placed'  BY <3>1, <2>1, <1>3
      <3>5. QED  BY <3>2, <3>3, <3>4, <2>2, <2>3 DEF Right
    <2>4. CASE y.at = "func" /\ ~ x.next + 1 < x.n /\ begun' = begun \union {z}
      <3>1. Upto(y)' - 1 = x.next  BY <2>4, <1>3, <1>6 DEF Upto
      <3>2. <<y.call, 0>> \in begun' \ ended'  BY <2>4, <1>3, <1>4, <1>8 DEF z
      <3>3. \A k \in 1..Upto(y)' - 1 : <<y.call, k>> \in Placed'  BY <3>1, <2>1, <1>3
      <3>4. QED  BY <3>2, <3>3, <2>2, <2>4 DEF Right
    <2>5. QED  BY <2>3, <2>4, <1>3
  <1>15. \A r \in (begun' \ begun) \union (ended' \ ended) : r[1] = y.call
    BY <1>3, <1>4, <1>7, <1>11
  <1>16. stack' = [stack EXCEPT ![t][1] = y]  BY <1>3
  <1>17. begun \subseteq begun' /\ ended \subseteq ended' /\ Placed \subseteq Placed'
    BY <1>4, <1>10, <1>11
  <1>18. QED  BY <1>1, <1>4, <1>5, <1>12, <1>13, <1>14, <1>15, <1>16, <1>17, SetHistory

(* A share that a thread runs in a call of its own is in no other place.   *)
LEMMA OwnEnds ==
  ASSUME NEW z \in Item, History, Inv, z[2] = 0, ended' = ended \union {z}, z \in begun,
         UNCHANGED <<size, begun, work_fifo, work, pc>>
  PROVE  /\ HistoryTypes' /\ Known'
         /\ Placed \subseteq Placed' /\ ended \subseteq ended' /\ begun \subseteq begun'
  <1>1. Queued' = Queued /\ Held' = Held  BY DEF Queued, Held, Items
  <1>2. HistoryTypes'  BY DEF History, HistoryTypes
  <1>3. \A w \in Workers : /\ pc[w] = "func" => work[w] \in begun \ ended'
                           /\ pc[w] = "end" => work[w] \in ended'
    <2> SUFFICES ASSUME NEW w \in Workers
                 PROVE  /\ pc[w] = "func" => work[w] \in begun \ ended'
                        /\ pc[w] = "end" => work[w] \in ended'
      OBVIOUS
    <2>1. ASSUME pc[w] = "func" PROVE work[w] # z
      <3>1. work[w] \in begun  BY <2>1 DEF History, Known
      <3>2. work[w] # None  BY <3>1, ItemIsSome DEF History, HistoryTypes
      <3>3. work[w] \in Held  BY <3>2 DEF Held
      <3>4. work[w][2] >= 1  BY <3>3 DEF History, Known
      <3>5. QED  BY <3>4
    <2>2. QED  BY <2>1 DEF History, Known
  <1>4. Known'  BY <1>1, <1>3 DEF History, Known
  <1>5. QED  BY <1>1, <1>2, <1>4 DEF Placed

(* The first share of a divided call ends.                                 *)
LEMMA FuncHistory ==
  ASSUME NEW t \in Thread, Inv, Ledger, History, FuncEnds(t), Top(t).n # 1
  PROVE  History'
  <1> DEFINE x == stack[t][1]
  <1>1. Typing /\ stack[t] # <<>> /\ Go(t, "leave")  BY DEF Inv, FuncEnds, At
  <1>2. PICK y \in AnyFrame :
          /\ y.call = x.call /\ y.n = x.n /\ y.next = x.next /\ y.at = "leave"
          /\ stack' = [stack EXCEPT ![t][1] = y]
    <2>1. "leave" \in Places  BY DEF Places
    <2>2. QED  BY <2>1, <1>1, GoFrame
  <1>3. Right(x) /\ x.at = "func" /\ x \in AnyFrame /\ Top(t) = x
    BY <1>1, HeadIs DEF History, AllRight, FuncEnds
  <1>4. y.call = stack[t][1].call /\ stack' = [stack EXCEPT ![t][1] = y]  BY <1>2
  <1>5. PICK z \in Item : z = <<x.call, 0>>  BY <1>3 DEF Item, AnyFrame
  <1>6. Running(t) = z
    <2>1. Head(stack[t]).at = "func" /\ Head(stack[t]).call = x.call  BY <1>3 DEF Top
    <2>2. QED  BY <2>1, <1>1, <1>5 DEF Running
  <1> HIDE DEF x
  <1>7. ended' = ended \union {z} /\ UNCHANGED <<size, begun, back, work_fifo, work, pc>>
    BY <1>6 DEF FuncEnds
  <1>8. z[2] = 0 /\ z[1] = x.call /\ z \in begun  BY <1>3, <1>5 DEF Right
  <1>9. /\ HistoryTypes' /\ Known'
        /\ Placed \subseteq Placed' /\ ended \subseteq ended' /\ begun \subseteq begun'
    BY <1>7, <1>8, OwnEnds
  <1>10. Right(y)'
    <2>1. Upto(y)' = y.n /\ Upto(x) = x.n  BY <1>2, <1>3 DEF Upto
    <2>2. \A k \in 1..y.n - 1 : <<y.call, k>> \in Placed'  BY <1>2, <1>3, <1>9, <2>1 DEF Right
    <2>3. y.n = size'[y.call] /\ y.n >= 1 /\ <<y.call, 0>> \in ended'
      BY <1>2, <1>3, <1>5, <1>7 DEF Right
    <2>4. QED  BY <1>2, <2>1, <2>2, <2>3 DEF Right
  <1>11. \A r \in (begun' \ begun) \union (ended' \ ended) : r[1] = y.call
    BY <1>2, <1>7, <1>8
  <1>12. UNCHANGED <<size, back, work>>  BY <1>7
  <1>13. QED  BY <1>1, <1>4, <1>9, <1>10, <1>11, <1>12, SetHistory

(* A call leaves its stack: those under it nest as before.                 *)
LEMMA PopNested ==
  ASSUME NEW t \in Thread, Typing, Nested, stack[t] # <<>>, stack' = [stack EXCEPT ![t] = Tail(@)],
         work' = work
  PROVE  Nested'
  <1> DEFINE s == Tail(stack[t])
  <1>1. stack[t] \in Seq(AnyFrame) /\ Len(stack[t]) \in Nat /\ 1 \in 1..Len(stack[t])  BY StackIs
  <1>2. Len(s) = Len(stack[t]) - 1 /\ \A i \in 1..Len(s) : s[i] = stack[t][i + 1]  BY <1>1
  <1>3. stack' = [stack EXCEPT ![t] = s]  OBVIOUS
  <1> HIDE DEF s
  <1>4. stack'[t] = s /\ \A u \in Thread : u # t => stack'[u] = stack[u]  BY <1>3 DEF Typing
  <1> SUFFICES ASSUME NEW u \in Thread, NEW i \in 1..Len(stack'[u])
               PROVE  IF Parent(u, i)' = None THEN Promise!IsOuter(stack'[u][i].call)
                      ELSE stack'[u][i].call = Promise!Inner(Parent(u, i)')
    BY DEF Nested
  <1>5. CASE u # t
    <2>1. Parent(u, i)' = Parent(u, i) /\ stack'[u] = stack[u]  BY <1>4, <1>5 DEF Parent
    <2>2. QED  BY <2>1 DEF Nested
  <1>6. CASE u = t
    <2>1. i \in 1..Len(s) /\ i + 1 \in 1..Len(stack[t]) /\ s[i] = stack[t][i + 1]
      BY <1>1, <1>2, <1>4, <1>6
    <2>2. Parent(t, i)' = Parent(t, i + 1)
      <3>1. CASE i < Len(s)
        <4>1. i + 1 \in 1..Len(s)  BY <3>1, <2>1, <1>1, <1>2
        <4>2. s[i + 1] = stack[t][i + 2] /\ i + 1 < Len(stack[t]) /\ i + 1 + 1 = i + 2
          BY <4>1, <3>1, <1>1, <1>2
        <4>3. Parent(t, i)' = <<s[i + 1].call, 0>>  BY <3>1, <1>4 DEF Parent
        <4>4. Parent(t, i + 1) = <<stack[t][i + 2].call, 0>>  BY <4>2 DEF Parent
        <4>5. QED  BY <4>2, <4>3, <4>4
      <3>2. CASE ~ (i < Len(s))
        <4>1. ~ (i + 1 < Len(stack[t]))  BY <3>2, <2>1, <1>1, <1>2
        <4>2. Parent(t, i)' = IF t = Main THEN None ELSE work[t]  BY <3>2, <1>4 DEF Parent, None
        <4>3. Parent(t, i + 1) = IF t = Main THEN None ELSE work[t]  BY <4>1 DEF Parent
        <4>4. QED  BY <4>2, <4>3
      <3>3. QED  BY <3>1, <3>2
    <2>3. stack'[u][i] = stack[t][i + 1]  BY <2>1, <1>4, <1>6
    <2>4. IF Parent(t, i + 1) = None THEN Promise!IsOuter(stack[t][i + 1].call)
          ELSE stack[t][i + 1].call = Promise!Inner(Parent(t, i + 1))
      BY <2>1 DEF Nested
    <2>5. QED  BY <2>2, <2>3, <2>4, <1>6
  <1>7. QED  BY <1>5, <1>6

(* The call that returns was the only one in its stack.                    *)
LEMMA ReturnsHistory ==
  ASSUME NEW t \in Thread, Inv, Ledger, History, stack[t] # <<>>,
         stack' = [stack EXCEPT ![t] = Tail(@)], back' = back \union {Top(t).call},
         UNCHANGED <<size, work>>, HistoryTypes', Known',
         begun' = begun, ended \subseteq ended', Placed \subseteq Placed',
         \A s \in ended' \ ended : s = <<Top(t).call, 0>>
  PROVE  History'
  <1> DEFINE x == stack[t][1]
  <1>1. Typing /\ OneFrame  BY DEF Inv, Ledger
  <1>2. x \in AllFrames /\ Top(t) = x  BY <1>1, HeadIs
  <1>3. AllFrames' = AllFrames \ {x}  BY <1>1, PopFrames
  <1>4. Nested'  BY <1>1, PopNested DEF History
  <1> HIDE DEF x
  <1>5. AllRight'
    <2> SUFFICES ASSUME NEW f \in AllFrames' PROVE Right(f)'  BY DEF AllRight
    <2>1. f \in AllFrames /\ f # x  BY <1>3
    <2>2. f.call # x.call  BY <2>1, <1>1, <1>2, OneCall
    <2>3. Right(f) /\ f \in AnyFrame  BY <2>1, <1>1, FramesTyped DEF History, AllRight
    <2>4. <<f.call, 0>> \notin ended' \ ended
      <3> SUFFICES ASSUME <<f.call, 0>> \in ended' \ ended PROVE FALSE  OBVIOUS
      <3>1. <<f.call, 0>> = <<x.call, 0>>  BY <1>2
      <3>2. QED  BY <3>1, <2>2
    <2>5. QED  BY <2>3, <2>4, RightKept
  <1>6. Live'
    <2> SUFFICES ASSUME NEW c \in Promise!Call, size[c] # 0, c \notin back'
                 PROVE  \E f \in AllFrames' : f.call = c
      BY DEF Live
    <2>1. c \notin back /\ c # x.call  BY <1>2
    <2>2. QED  BY <2>1, <1>3 DEF History, Live
  <1>7. QED  BY <1>4, <1>5, <1>6 DEF History

(* The steps of a call.                                                    *)
LEMMA CallerHistory ==
  ASSUME NEW t \in Thread, Inv, Ledger, History, Caller(t)
  PROVE  History'
  <1>1. stack[t] # <<>>
    BY DEF Caller, GroupCount, GroupPush, FuncEnds, GroupLeave, GroupWait, GroupEnter, At
  <1>2. /\ Top(t) = stack[t][1] /\ stack[t][1] \in AllFrames /\ stack[t][1] \in AnyFrame
        /\ \A p : At(t, p) <=> stack[t][1].at = p
    BY <1>1, HeadIs DEF Inv
  <1>3. CASE GroupCount(t)  BY <1>3, CountHistory
  <1>4. CASE GroupPush(t)  BY <1>4, PushHistory
  <1>5. CASE FuncEnds(t)
    <2>1. CASE Top(t).n # 1  BY <1>5, <2>1, FuncHistory
    <2>2. CASE Top(t).n = 1
      <3>1. PICK z \in Item : z = <<Top(t).call, 0>>  BY <1>2 DEF Item, AnyFrame
      <3>2. Running(t) = z  BY <1>1, <1>5, <3>1 DEF FuncEnds, At, Running, Top
      <3>3. /\ ended' = ended \union {z} /\ UNCHANGED <<size, begun, work_fifo, work, pc>>
            /\ stack' = [stack EXCEPT ![t] = Tail(@)] /\ back' = back \union {Top(t).call}
        BY <1>5, <2>2, <3>2 DEF FuncEnds
      <3>4. z \in begun /\ z[2] = 0
        <4>1. Right(stack[t][1]) /\ stack[t][1].at = "func"
          BY <1>2, <1>5 DEF History, AllRight, FuncEnds
        <4>2. QED  BY <4>1, <1>2, <3>1 DEF Right
      <3>5. /\ HistoryTypes' /\ Known'
            /\ Placed \subseteq Placed' /\ ended \subseteq ended' /\ begun \subseteq begun'
        BY <3>3, <3>4, OwnEnds
      <3>6. \A s \in ended' \ ended : s = <<Top(t).call, 0>>  BY <3>1, <3>3
      <3>7. QED  BY <1>1, <3>3, <3>5, <3>6, ReturnsHistory
    <2>3. QED  BY <2>1, <2>2
  <1>6. CASE GroupLeave(t)
    <2>1. stack[t][1].at = "leave" /\ UNCHANGED <<history, work_fifo, work, pc>> /\ Go(t, "wait")
      BY <1>6, <1>2 DEF GroupLeave
    <2>2. "wait" \in {"wait", "sleep", "enter"} /\ stack[t][1].at \in {"leave", "wait", "sleep"}
      BY <2>1
    <2>3. QED  BY <1>1, <2>1, <2>2, OnlyMoves
  <1>7. CASE GroupWait(t)
    <2>1. stack[t][1].at = "wait" /\ UNCHANGED <<history, work_fifo, work, pc>>
      BY <1>7, <1>2 DEF GroupWait
    <2>2. PICK p \in {"wait", "sleep", "enter"} : Go(t, p)  BY <1>7 DEF GroupWait
    <2>3. stack[t][1].at \in {"leave", "wait", "sleep"}  BY <2>1
    <2>4. QED  BY <1>1, <2>1, <2>2, <2>3, OnlyMoves
  <1>8. CASE GroupEnter(t)
    <2>1. /\ UNCHANGED <<size, begun, ended, work_fifo, work, pc>>
          /\ stack' = [stack EXCEPT ![t] = Tail(@)] /\ back' = back \union {Top(t).call}
      BY <1>8 DEF GroupEnter
    <2>2. HistoryTypes' /\ Known' /\ Placed' = Placed
      BY <2>1 DEF History, HistoryTypes, Known, Placed, Queued, Held, Items
    <2>3. QED  BY <1>1, <2>1, <2>2, ReturnsHistory
  <1>9. QED  BY <1>3, <1>4, <1>5, <1>6, <1>7, <1>8 DEF Caller

(* A new call is made by the share that runs below it.                     *)
LEMMA PushNested ==
  ASSUME NEW t \in Thread, NEW f \in AnyFrame, Typing, Nested, stack' = [stack EXCEPT ![t] = <<f>> \o @],
         work' = work,
         \/ t = Main /\ stack[t] = <<>> /\ Promise!IsOuter(f.call)
         \/ Running(t) # None /\ f.call = Promise!Inner(Running(t))
  PROVE  Nested'
  <1> DEFINE s == <<f>> \o stack[t]
  <1>1. /\ stack[t] \in Seq(AnyFrame) /\ Len(stack[t]) \in Nat
        /\ stack[t] # <<>> => 1 \in 1..Len(stack[t]) /\ Top(t) = stack[t][1]
    BY StackIs, HeadIs
  <1>2. /\ Len(s) = Len(stack[t]) + 1 /\ s[1] = f
        /\ \A i \in 2..Len(s) : s[i] = stack[t][i - 1]
    BY <1>1
  <1>3. stack' = [stack EXCEPT ![t] = s]  OBVIOUS
  <1> HIDE DEF s
  <1>4. stack'[t] = s /\ \A u \in Thread : u # t => stack'[u] = stack[u]  BY <1>3 DEF Typing
  <1> SUFFICES ASSUME NEW u \in Thread, NEW i \in 1..Len(stack'[u])
               PROVE  IF Parent(u, i)' = None THEN Promise!IsOuter(stack'[u][i].call)
                      ELSE stack'[u][i].call = Promise!Inner(Parent(u, i)')
    BY DEF Nested
  <1>5. CASE u # t
    <2>1. Parent(u, i)' = Parent(u, i) /\ stack'[u] = stack[u]  BY <1>4, <1>5 DEF Parent
    <2>2. QED  BY <2>1 DEF Nested
  <1>6. CASE u = t /\ i = 1
    <2>1. CASE stack[t] = <<>>
      <3>1. Len(s) = 1  BY <2>1, <1>2
      <3>2. Parent(t, 1)' = IF t = Main THEN None ELSE work[t]  BY <3>1, <1>4, SMTT(20) DEF Parent, None
      <3>3. stack'[u][i] = f  BY <1>2, <1>4, <1>6
      <3>4. CASE t = Main
        <4>1. Running(t) = None  BY <3>4, <2>1 DEF Running
        <4>2. QED  BY <3>2, <3>3, <3>4, <4>1, <1>6
      <3>5. CASE t # Main
        <4>1. Running(t) = work[t] /\ work[t] # None  BY <3>5, <2>1 DEF Running
        <4>2. QED  BY <3>2, <3>3, <3>5, <4>1, <1>6
      <3>6. QED  BY <3>4, <3>5
    <2>2. CASE stack[t] # <<>>
      <3>1. 1 < Len(s) /\ 2 \in 2..Len(s) /\ 2 - 1 = 1 /\ 1 + 1 = 2  BY <2>2, <1>1, <1>2
      <3>2. s[2] = stack[t][1]  BY <3>1, <1>2
      <3>3. Parent(t, 1)' = <<stack[t][1].call, 0>>  BY <3>1, <3>2, <1>4 DEF Parent
      <3>4. Running(t) = <<stack[t][1].call, 0>>  BY <2>2, <1>1 DEF Running, Top
      <3>5. stack'[u][i] = f  BY <1>2, <1>4, <1>6
      <3>6. QED  BY <2>2, <3>3, <3>4, <3>5, <1>6
    <2>3. QED  BY <2>1, <2>2
  <1>7. CASE u = t /\ i # 1
    <2>1. i \in 2..Len(s) /\ i - 1 \in 1..Len(stack[t]) /\ s[i] = stack[t][i - 1]
      BY <1>1, <1>2, <1>4, <1>7
    <2>2. Parent(t, i)' = Parent(t, i - 1)
      <3>1. CASE i < Len(s)
        <4>1. i + 1 \in 2..Len(s) /\ i + 1 - 1 = i /\ i - 1 + 1 = i /\ i - 1 < Len(stack[t])
          BY <3>1, <2>1, <1>1, <1>2
        <4>2. s[i + 1] = stack[t][i]  BY <4>1, <1>2
        <4>3. Parent(t, i)' = <<s[i + 1].call, 0>>  BY <3>1, <1>4 DEF Parent
        <4>4. Parent(t, i - 1) = <<stack[t][i].call, 0>>  BY <4>1 DEF Parent
        <4>5. QED  BY <4>2, <4>3, <4>4
      <3>2. CASE ~ (i < Len(s))
        <4>1. ~ (i - 1 < Len(stack[t]))  BY <3>2, <2>1, <1>1, <1>2
        <4>2. Parent(t, i)' = IF t = Main THEN None ELSE work[t]  BY <3>2, <1>4 DEF Parent, None
        <4>3. Parent(t, i - 1) = IF t = Main THEN None ELSE work[t]  BY <4>1 DEF Parent
        <4>4. QED  BY <4>2, <4>3
      <3>3. QED  BY <3>1, <3>2
    <2>3. stack'[u][i] = stack[t][i - 1]  BY <2>1, <1>4, <1>7
    <2>4. IF Parent(t, i - 1) = None THEN Promise!IsOuter(stack[t][i - 1].call)
          ELSE stack[t][i - 1].call = Promise!Inner(Parent(t, i - 1))
      BY <2>1 DEF Nested
    <2>5. QED  BY <2>2, <2>3, <2>4, <1>7
  <1>8. QED  BY <1>5, <1>6, <1>7

(* What a new call is: undivided or not, none of its shares has begun.     *)
LEMMA CallIs ==
  ASSUME NEW t \in Thread, Inv, Parallelize(t)
  PROVE  \E c \in Callable(t), n \in 1..MaxShares, y \in AnyFrame :
            /\ size' = [size EXCEPT ![c] = n] /\ stack' = [stack EXCEPT ![t] = <<y>> \o @]
            /\ y.call = c /\ y.n = n /\ y.next = 1
            /\ \/ n = 1 /\ y.at = "func" /\ begun' = begun \union {<<c, 0>>}
               \/ n # 1 /\ y.at = "count" /\ begun' = begun
  <1>1. PICK c \in Callable(t), active \in BOOLEAN, max \in 1..MaxShares :
          LET n == IF ~active THEN 1 ELSE IF max > work_free_get THEN work_free_get ELSE max
          IN  /\ size' = [size EXCEPT ![c] = n]
              /\ stack' = [stack EXCEPT ![t] =
                    <<[call |-> c, n |-> n, next |-> 1, at |-> IF n = 1 THEN "func" ELSE "count"]>> \o @]
              /\ begun' = IF n = 1 THEN begun \union {<<c, 0>>} ELSE begun
    BY DEF Parallelize
  <1> DEFINE n == IF ~active THEN 1 ELSE IF max > work_free_get THEN work_free_get ELSE max
             y == [call |-> c, n |-> n, next |-> 1, at |-> IF n = 1 THEN "func" ELSE "count"]
  <1>2. n \in 1..MaxShares
    <2>1. work_free_get \in Nat /\ work_free_get >= 1
      BY ProcessorsAssumption DEF Inv, Typing, work_free_get, work_limit
    <2>2. MaxShares \in Nat  BY BoundsAssumption
    <2>3. QED  BY <2>1, <2>2
  <1>3. /\ size' = [size EXCEPT ![c] = n] /\ stack' = [stack EXCEPT ![t] = <<y>> \o @]
        /\ begun' = IF n = 1 THEN begun \union {<<c, 0>>} ELSE begun
    BY <1>1
  <1> HIDE DEF n
  <1>4. c \in Promise!Call /\ n \in Nat  BY <1>2, BoundsAssumption DEF Callable
  <1>5. y \in AnyFrame /\ y.call = c /\ y.n = n /\ y.next = 1 /\ y.at = IF n = 1 THEN "func" ELSE "count"
    BY <1>4 DEF AnyFrame
  <1> HIDE DEF y
  <1>6. QED  BY <1>2, <1>3, <1>5

(* A new call keeps what is known of the others.                           *)
LEMMA CallHistory ==
  ASSUME NEW t \in Thread, Inv, Ledger, History, Parallelize(t)
  PROVE  History'
  <1>1. PICK c \in Callable(t), n \in 1..MaxShares, y \in AnyFrame :
            /\ size' = [size EXCEPT ![c] = n] /\ stack' = [stack EXCEPT ![t] = <<y>> \o @]
            /\ y.call = c /\ y.n = n /\ y.next = 1
            /\ \/ n = 1 /\ y.at = "func" /\ begun' = begun \union {<<c, 0>>}
               \/ n # 1 /\ y.at = "count" /\ begun' = begun
    BY CallIs
  <1>2. c \in Promise!Call /\ size[c] = 0 /\ n \in Nat /\ n >= 1 /\ n \in 0..MaxShares /\ MaxShares \in Nat
    BY BoundsAssumption DEF Callable
  <1>3. UNCHANGED <<ended, back, work_fifo, work, pc>>  BY DEF Parallelize
  <1>4. Queued' = Queued /\ Held' = Held /\ Placed' = Placed
    BY <1>3 DEF Queued, Held, Placed
  <1>5. Typing /\ OneFrame  BY DEF Inv, Ledger
  <1>6. PICK z \in Item : z = <<c, 0>>  BY <1>2 DEF Item
  <1>7. \A s \in begun \union Queued : s \in Item /\ s[1] # c /\ s[2] < size[s[1]]
    <2> SUFFICES ASSUME NEW s \in begun \union Queued PROVE s \in Item /\ s[1] # c /\ s[2] < size[s[1]]
      OBVIOUS
    <2>1. s \in Item  BY ItemTyped DEF Ledger, History, HistoryTypes
    <2>2. s[2] < size[s[1]] /\ s[2] \in Nat  BY <2>1, ItemIsSome DEF History, Known
    <2>3. QED  BY <2>1, <2>2, <1>2
  <1>8. begun \subseteq begun' /\ begun' \subseteq begun \union {z}  BY <1>1, <1>6
  <1>9. /\ size' \in [Promise!Call -> 0..MaxShares] /\ size'[c] = n
        /\ \A d \in Promise!Call : d # c => size'[d] = size[d]
    <2>1. size \in [Promise!Call -> 0..MaxShares] /\ size' = [size EXCEPT ![c] = n]
      BY <1>1 DEF History, HistoryTypes
    <2>2. QED  BY ONLY <2>1, <1>2
  <1>10. HistoryTypes'  BY <1>3, <1>8, <1>9 DEF History, HistoryTypes
  <1>11. Known'
    <2>1. \A s \in begun' \union Queued' : s[2] < size'[s[1]]
      <3> SUFFICES ASSUME NEW s \in begun' \union Queued PROVE s[2] < size'[s[1]]  BY <1>4
      <3>1. CASE s = z  BY <3>1, <1>2, <1>6, <1>9
      <3>2. CASE s \in begun \union Queued  BY <3>2, <1>7, <1>9, ItemIsSome
      <3>3. QED  BY <3>1, <3>2, <1>8
    <2>2. Queued' \intersect begun' = {}
      <3>1. z \notin Queued  BY <1>6, <1>7
      <3>2. QED  BY <3>1, <1>4, <1>8 DEF History, Known
    <2>3. \A w \in Workers : /\ pc'[w] = "func" => work'[w] \in begun' \ ended'
                             /\ pc'[w] = "end" => work'[w] \in ended'
      BY <1>3, <1>8 DEF History, Known
    <2>4. QED  BY <2>1, <2>2, <2>3, <1>4 DEF History, Known
  <1>12. AllFrames' = AllFrames \union {y}
    <2>1. \A g \in AllFrames : g.call # y.call  BY <1>1, <1>2 DEF Ledger, Open
    <2>2. QED  BY <2>1, <1>1, <1>5, PushFrames
  <1>13. AllRight'
    <2> SUFFICES ASSUME NEW f \in AllFrames' PROVE Right(f)'  BY DEF AllRight
    <2>1. CASE f \in AllFrames
      <3>1. Right(f) /\ f \in AnyFrame /\ size[f.call] # 0
        BY <2>1, <1>5, FramesTyped DEF History, AllRight, Ledger, Open
      <3>2. size'[f.call] = size[f.call]  BY <3>1, <1>2, <1>9 DEF AnyFrame
      <3>3. \A s \in begun' \ begun : s[1] # f.call  BY <3>1, <1>2, <1>6, <1>8
      <3>4. QED  BY <3>1, <3>2, <3>3, <1>3, <1>4, <1>8, RightKept
    <2>2. CASE f = y
      <3>1. y.n = size'[y.call] /\ y.n >= 1  BY <1>1, <1>2, <1>9
      <3>2. CASE n = 1 /\ y.at = "func" /\ begun' = begun \union {<<c, 0>>}
        <4>1. z \notin ended  BY <1>6, <1>7 DEF History, HistoryTypes
        <4>2. <<y.call, 0>> \in begun' \ ended'  BY <3>2, <4>1, <1>1, <1>3, <1>6
        <4>3. Upto(y)' - 1 = 0  BY <3>2, <1>1 DEF Upto
        <4>4. QED  BY <3>1, <3>2, <4>2, <4>3, <2>2 DEF Right
      <3>3. CASE n # 1 /\ y.at = "count" /\ begun' = begun
        <4>1. Upto(y)' - 1 = 0  BY <3>3, <1>1 DEF Upto
        <4>2. 1 <= y.next /\ y.next < y.n  BY <3>3, <1>1, <1>2
        <4>3. \A s \in begun' : s[1] # y.call  BY <3>3, <1>1, <1>7
        <4>4. QED  BY <3>1, <3>3, <4>1, <4>2, <4>3, <2>2 DEF Right
      <3>4. QED  BY <3>2, <3>3, <1>1
    <2>3. QED  BY <2>1, <2>2, <1>12
  <1>14. Live'
    <2> SUFFICES ASSUME NEW d \in Promise!Call, size'[d] # 0, d \notin back
                 PROVE  \E f \in AllFrames' : f.call = d
      BY <1>3 DEF Live
    <2>1. CASE d = c  BY <2>1, <1>1, <1>12
    <2>2. CASE d # c  BY <2>2, <1>9, <1>12 DEF History, Live
    <2>3. QED  BY <2>1, <2>2
  <1>15. Nested'
    <2>1. \/ t = Main /\ stack[t] = <<>> /\ Promise!IsOuter(y.call)
          \/ Running(t) # None /\ y.call = Promise!Inner(Running(t))
      BY <1>1 DEF Callable
    <2>2. QED  BY <2>1, <1>1, <1>3, <1>5, PushNested DEF History
  <1>16. QED  BY <1>10, <1>11, <1>13, <1>14, <1>15 DEF History

(* The frames stay, works begin from the fifo and others end.              *)
LEMMA WorksHistory ==
  ASSUME Inv, Ledger, History, UNCHANGED <<size, back, stack>>,
         \A u \in Thread : u # Main /\ Len(stack[u]) # 0 => work'[u] = work[u],
         HistoryTypes', Known',
         begun \subseteq begun', ended \subseteq ended', Placed \subseteq Placed',
         begun' \ begun \subseteq Queued, \A s \in ended' \ ended : s[2] # 0
  PROVE  History'
  <1>1. Typing  BY DEF Inv
  <1>2. AllFrames' = AllFrames  BY DEF AllFrames
  <1>3. AllRight'
    <2> SUFFICES ASSUME NEW f \in AllFrames PROVE Right(f)'  BY <1>2 DEF AllRight
    <2>1. Right(f) /\ f \in AnyFrame  BY <1>1, FramesTyped DEF History, AllRight
    <2>2. \A s \in begun' \ begun : s[1] = f.call /\ f.at \in {"count", "push"} => 1 <= s[2] /\ s[2] < f.next
      <3> SUFFICES ASSUME NEW s \in begun' \ begun, s[1] = f.call, f.at \in {"count", "push"}
                   PROVE  1 <= s[2] /\ s[2] < f.next
        OBVIOUS
      <3>1. s \in Queued  OBVIOUS
      <3>2. s[2] >= 1 /\ s \in Item  BY <3>1, ItemTyped DEF History, Known, Ledger
      <3>3. s[2] < f.next  BY <3>1 DEF Ledger, Behind
      <3>4. QED  BY <3>2, <3>3, ItemIsSome
    <2>3. <<f.call, 0>> \notin ended' \ ended
      <3> SUFFICES ASSUME <<f.call, 0>> \in ended' \ ended PROVE FALSE  OBVIOUS
      <3>1. <<f.call, 0>>[2] = 0  OBVIOUS
      <3>2. QED  BY <3>1
    <2>4. QED  BY <2>1, <2>2, <2>3, RightKept
  <1>4. Live'  BY <1>2 DEF History, Live
  <1>5. Nested'  BY <1>1, NestedKept DEF History
  <1>6. QED  BY <1>3, <1>4, <1>5 DEF History

(* A worker that is in no call may change its work.                        *)
LEMMA IdleWork ==
  ASSUME NEW w \in Workers, NEW s, Inv, Ledger, stack[w] = <<>>, work' = [work EXCEPT ![w] = s]
  PROVE  \A u \in Thread : u # Main /\ Len(stack[u]) # 0 => work'[u] = work[u]
  <1> SUFFICES ASSUME NEW u \in Thread, u # Main, Len(stack[u]) # 0 PROVE work'[u] = work[u]
    OBVIOUS
  <1>1. u \in Workers /\ u # w  BY DEF Thread
  <1>2. QED  BY <1>1 DEF Ledger, ItemTypes

(* A work begins.                                                          *)
LEMMA PopHistory ==
  ASSUME NEW w \in Workers, Inv, Ledger, History, Pop(w), work_fifo # <<>>, pc[w] \in {"top", "sleep"},
         UNCHANGED <<size, ended, back, stack>>
  PROVE  History'
  <1> DEFINE s == work_fifo[Len(work_fifo)]
  <1>1. work_fifo \in Seq(Item) /\ Distinct(work_fifo) /\ Typing
    BY DEF Inv, Ledger, ItemTypes, Once
  <1>2. s \in Queued /\ s \in Item /\ Queued' = Queued \ {s}
    <2> DEFINE q == SubSeq(work_fifo, 1, Len(work_fifo) - 1)
    <2>1. s \in Items(work_fifo) /\ s \in Item /\ Items(q) = Items(work_fifo) \ {s}
      BY <1>1, ItemsTake
    <2>2. work_fifo' = q  BY DEF Pop
    <2> HIDE DEF q, s
    <2>3. QED  BY <2>1, <2>2 DEF Queued
  <1>3. /\ work' = [work EXCEPT ![w] = s] /\ pc' = [pc EXCEPT ![w] = "func"]
        /\ begun' = begun \union {s}
    BY DEF Pop
  <1> HIDE DEF s
  <1>4. s \notin Held /\ work[w] = None  BY <1>2 DEF Ledger, Once, HeldByPlace
  <1>5. Held' = Held \union {s}
    <2>1. ItemTypes /\ s \in Item \ Held  BY <1>2, <1>4 DEF Ledger
    <2>2. \A u, v \in Workers : work[u] = work[v] /\ work[u] # None => u = v  BY DEF Ledger, Once
    <2>3. QED  BY <2>1, <2>2, <1>3, <1>4, HeldAdd
  <1>6. Placed' = Placed  BY <1>2, <1>5 DEF Placed
  <1>7. stack[w] = <<>>  BY DEF Inv, IdleIsFree
  <1>8. s \notin begun /\ s \notin ended  BY <1>2 DEF History, Known, HistoryTypes
  <1>9. HistoryTypes'  BY <1>2, <1>3 DEF History, HistoryTypes
  <1>10. Known'
    <2>1. \A v \in Workers : v # w => work'[v] = work[v] /\ pc'[v] = pc[v]
      BY <1>1, <1>3 DEF Ledger, ItemTypes, Typing
    <2>2. work'[w] = s /\ pc'[w] = "func"  BY <1>1, <1>3 DEF Ledger, ItemTypes, Typing
    <2>3. \A v \in Workers : /\ pc'[v] = "func" => work'[v] \in begun' \ ended
                             /\ pc'[v] = "end" => work'[v] \in ended
      BY <2>1, <2>2, <1>3, <1>8 DEF History, Known
    <2>4. Queued' \intersect begun' = {}  BY <1>2, <1>3 DEF History, Known
    <2>5. \A r \in begun' \union Queued' : r[2] < size[r[1]]  BY <1>2, <1>3 DEF History, Known
    <2>6. \A r \in Queued' \union Held' : r[2] >= 1  BY <1>2, <1>5 DEF History, Known
    <2>7. QED  BY <2>3, <2>4, <2>5, <2>6 DEF Known
  <1>11. \A u \in Thread : u # Main /\ Len(stack[u]) # 0 => work'[u] = work[u]
    BY <1>3, <1>7, IdleWork
  <1>12. QED  BY <1>2, <1>3, <1>6, <1>9, <1>10, <1>11, WorksHistory

(* A work ends.                                                            *)
LEMMA EndsHistory ==
  ASSUME NEW w \in Workers, Inv, Ledger, History, WorkEnds(w)
  PROVE  History'
  <1> DEFINE s == work[w]
  <1>1. /\ ended' = ended \union {s} /\ pc' = [pc EXCEPT ![w] = "end"] /\ pc[w] = "func"
        /\ UNCHANGED <<size, begun, back, work_fifo, work, stack>>
    BY DEF WorkEnds
  <1>2. s \in begun /\ s \in Held /\ s[2] >= 1
    <2>1. s \in begun  BY <1>1 DEF History, Known
    <2>2. s # None  BY <2>1, ItemIsSome DEF History, HistoryTypes
    <2>3. s \in Held  BY <2>2 DEF Held
    <2>4. QED  BY <2>1, <2>3 DEF History, Known
  <1>3. \A v \in Workers : work[v] = s => v = w
    <2>1. s # None  BY <1>2, ItemIsSome DEF History, HistoryTypes
    <2>2. QED  BY <2>1 DEF Ledger, Once
  <1> HIDE DEF s
  <1>4. Queued' = Queued /\ Held' = Held  BY <1>1 DEF Queued, Held
  <1>5. HistoryTypes'  BY <1>1, <1>2 DEF History, HistoryTypes
  <1>6. Known'
    <2>1. \A v \in Workers : v # w => pc'[v] = pc[v]  BY <1>1 DEF Inv, Typing
    <2>2. pc'[w] = "end" /\ work[w] = s  BY <1>1 DEF Inv, Typing, s
    <2>3. \A v \in Workers : /\ pc'[v] = "func" => work[v] \in begun \ ended'
                             /\ pc'[v] = "end" => work[v] \in ended'
      BY <2>1, <2>2, <1>1, <1>3 DEF History, Known
    <2>4. QED  BY <2>3, <1>1, <1>4 DEF History, Known
  <1>7. Placed \subseteq Placed'  BY <1>1, <1>4 DEF Placed
  <1>8. \A r \in ended' \ ended : r[2] # 0  BY <1>1, <1>2
  <1>9. \A u \in Thread : u # Main /\ Len(stack[u]) # 0 => work'[u] = work[u]  BY <1>1
  <1>10. QED  BY <1>1, <1>5, <1>6, <1>7, <1>8, <1>9, WorksHistory

(* A work that has ended is dropped.                                       *)
LEMMA SignalHistory ==
  ASSUME NEW w \in Workers, Inv, Ledger, History, WorkSignals(w)
  PROVE  History'
  <1> DEFINE s == work[w]
  <1>1. /\ work' = [work EXCEPT ![w] = None] /\ pc' = [pc EXCEPT ![w] = "top"] /\ pc[w] = "end"
        /\ UNCHANGED <<history, work_fifo>>
    BY DEF WorkSignals
  <1>2. s \in ended /\ s # None /\ stack[w] = <<>>
    BY <1>1 DEF History, Known, Ledger, HeldByPlace, Inv, IdleIsFree
  <1>3. Held' = Held \ {s}
    <2>1. \A u, v \in Workers : work[u] = work[v] /\ work[u] # None => u = v  BY DEF Ledger, Once
    <2>2. QED  BY <2>1, <1>1, <1>2, HeldDrop DEF Ledger
  <1> HIDE DEF s
  <1>4. UNCHANGED <<size, begun, ended, back>> /\ Queued' = Queued  BY <1>1 DEF history, Queued
  <1>5. Placed' = Placed  BY <1>2, <1>3, <1>4 DEF Placed
  <1>6. HistoryTypes'  BY <1>4 DEF History, HistoryTypes
  <1>7. Known'
    <2>1. \A v \in Workers : v # w => work'[v] = work[v] /\ pc'[v] = pc[v]
      BY <1>1 DEF Ledger, ItemTypes, Inv, Typing
    <2>2. pc'[w] = "top"  BY <1>1 DEF Inv, Typing
    <2>3. QED  BY <2>1, <2>2, <1>3, <1>4 DEF History, Known
  <1>8. \A u \in Thread : u # Main /\ Len(stack[u]) # 0 => work'[u] = work[u]
    BY <1>1, <1>2, IdleWork
  <1>9. CASE stack' = stack
    <2>1. /\ begun \subseteq begun' /\ ended \subseteq ended' /\ Placed \subseteq Placed'
          /\ begun' \ begun \subseteq Queued /\ \A r \in ended' \ ended : r[2] # 0
      BY <1>4, <1>5
    <2>2. QED  BY <2>1, <1>4, <1>6, <1>7, <1>8, <1>9, WorksHistory
  <1>10. CASE \E t \in Thread : stack[t] # <<>> /\ stack[t][1].at = "sleep" /\ Go(t, "wait")
    <2>1. PICK t \in Thread : stack[t] # <<>> /\ stack[t][1].at = "sleep" /\ Go(t, "wait")
      BY <1>10
    <2>2. "wait" \in {"wait", "sleep", "enter"} /\ stack[t][1].at \in {"leave", "wait", "sleep"}
      BY <2>1
    <2>3. QED  BY <2>1, <2>2, <1>1, <1>5, <1>6, <1>7, <1>8, MovesHistory
  <1>11. QED  BY <1>9, <1>10, SignalFrames

(* The shares and the works are the same.                                  *)
LEMMA SameHistory ==
  ASSUME Inv, Ledger, History, UNCHANGED <<history, work_fifo, work, stack>>,
         \A w \in Workers : pc'[w] \in {"func", "end"} => pc'[w] = pc[w]
  PROVE  History'
  <1>1. UNCHANGED <<size, begun, ended, back>> /\ Queued' = Queued /\ Held' = Held
    BY DEF history, Queued, Held
  <1>2. HistoryTypes' /\ Known' /\ Placed' = Placed
    BY <1>1 DEF History, HistoryTypes, Known, Placed
  <1>3. \A u \in Thread : u # Main /\ Len(stack[u]) # 0 => work'[u] = work[u]  OBVIOUS
  <1>4. QED  BY <1>1, <1>2, <1>3, WorksHistory

(* The steps of a worker.                                                  *)
LEMMA WorkerHistory ==
  ASSUME NEW w \in Workers, Inv, Ledger, History, Worker(w)
  PROVE  History'
  <1>1. CASE WorkTake(w)  BY <1>1, PopHistory DEF WorkTake
  <1>2. CASE WorkWakeTake(w)  BY <1>2, PopHistory DEF WorkWakeTake
  <1>3. CASE WorkEnds(w)  BY <1>3, EndsHistory
  <1>4. CASE WorkSignals(w)  BY <1>4, SignalHistory
  <1>5. CASE WorkWait(w) \/ WorkSleepAgain(w) \/ WorkExit(w)
    <2>1. UNCHANGED <<history, work_fifo, work, stack>>
      BY <1>5 DEF WorkWait, WorkSleepAgain, WorkExit
    <2>2. pc' = pc \/ \E p \in {"sleep", "exited"} : pc' = [pc EXCEPT ![w] = p]
      BY <1>5 DEF WorkWait, WorkSleepAgain, WorkExit
    <2>3. \A v \in Workers : pc'[v] \in {"func", "end"} => pc'[v] = pc[v]
      BY <2>2 DEF Inv, Typing
    <2>4. QED  BY <2>1, <2>3, SameHistory
  <1>6. QED  BY <1>1, <1>2, <1>3, <1>4, <1>5 DEF Worker

(* A wait that ends by itself.                                             *)
LEMMA SpuriousHistory ==
  ASSUME Inv, Ledger, History, Spurious
  PROVE  History'
  <1>1. UNCHANGED <<history, work_fifo, work, pc>>  BY DEF Spurious
  <1>2. CASE UNCHANGED stack  BY <1>1, <1>2, SameHistory
  <1>3. CASE \E t \in Thread : At(t, "sleep") /\ Go(t, "wait")
    <2>1. PICK t \in Thread : At(t, "sleep") /\ Go(t, "wait")  BY <1>3
    <2>2. stack[t] # <<>> /\ stack[t][1].at \in {"leave", "wait", "sleep"}
      BY <2>1, HeadIs DEF Inv, At
    <2>3. "wait" \in {"wait", "sleep", "enter"}  OBVIOUS
    <2>4. QED  BY <1>1, <2>1, <2>2, <2>3, OnlyMoves
  <1>4. QED  BY <1>2, <1>3 DEF Spurious

(* At the start there is no call.                                          *)
LEMMA InitHistory == Init => History
  <1> SUFFICES ASSUME Init PROVE History  OBVIOUS
  <1>1. /\ \A t \in Thread : stack[t] = <<>>
        /\ begun = {} /\ ended = {} /\ size = [c \in Promise!Call |-> 0]
        /\ work_fifo = <<>> /\ \A w \in Workers : pc[w] = "top"
    BY DEF Init, Promise!Init
  <1>2. AllFrames = {} /\ Queued = {}  BY <1>1 DEF AllFrames, Queued, Items
  <1>3. Held = {}  BY DEF Init, Held
  <1>4. HistoryTypes  BY <1>1, BoundsAssumption DEF HistoryTypes
  <1>5. Known  BY <1>1, <1>2, <1>3 DEF Known
  <1>6. AllRight /\ Live  BY <1>1, <1>2 DEF AllRight, Live
  <1>7. Nested  BY <1>1 DEF Nested
  <1>8. QED  BY <1>4, <1>5, <1>6, <1>7 DEF History

(* Every step keeps the history.                                           *)
LEMMA NextHistory == Inv /\ Ledger /\ History /\ [Next]_vars => History'
  <1> SUFFICES ASSUME Inv, Ledger, History, [Next]_vars PROVE History'  OBVIOUS
  <1>1. CASE \E t \in Thread : Parallelize(t)  BY <1>1, CallHistory
  <1>2. CASE \E t \in Thread : Caller(t)  BY <1>2, CallerHistory
  <1>3. CASE \E w \in Workers : Worker(w)  BY <1>3, WorkerHistory
  <1>4. CASE Spurious  BY <1>4, SpuriousHistory
  <1>5. CASE Done \/ Broadcast \/ Joined \/ UNCHANGED vars
    <2>1. UNCHANGED <<history, work_fifo, work, stack, pc>>
      BY <1>5 DEF Done, Broadcast, Joined, vars
    <2>2. QED  BY <2>1, SameHistory
  <1>6. QED  BY <1>1, <1>2, <1>3, <1>4, <1>5 DEF Next

(* Below a call there is the share that made it.                           *)
LEMMA ParentIs ==
  ASSUME NEW u \in Thread, NEW i \in 1..Len(stack[u]), Inv, Ledger
  PROVE  Parent(u, i) \in Item \/ (Parent(u, i) = None /\ u = Main)
  <1>1. Len(stack[u]) \in Nat /\ \A j \in 1..Len(stack[u]) : stack[u][j] \in AnyFrame
    BY StackIs DEF Inv
  <1>2. CASE i < Len(stack[u])
    <2>1. i + 1 \in 1..Len(stack[u])  BY <1>1, <1>2
    <2>2. QED  BY <2>1, <1>1, <1>2 DEF Parent, Item, AnyFrame
  <1>3. CASE ~ (i < Len(stack[u])) /\ u = Main  BY <1>3 DEF Parent
  <1>4. CASE ~ (i < Len(stack[u])) /\ u # Main
    <2>1. u \in Workers /\ stack[u] # <<>>  BY <1>1, <1>4 DEF Thread
    <2>2. work[u] \in Item  BY <2>1 DEF Inv, IdleIsFree, Ledger, HeldByPlace, ItemTypes
    <2>3. QED  BY <2>2, <1>4 DEF Parent
  <1>5. QED  BY <1>2, <1>3, <1>4

(* The call made by a share that no call lies upon has returned.           *)
LEMMA InnerIsBack ==
  ASSUME Inv, Ledger, History, NEW s \in Item,
         \A u \in Thread : \A i \in 1..Len(stack[u]) : Parent(u, i) # s
  PROVE  Promise!MayNest(s) /\ size[Promise!Inner(s)] # 0 => Promise!Inner(s) \in back
  <1> SUFFICES ASSUME Promise!MayNest(s), size[Promise!Inner(s)] # 0, Promise!Inner(s) \notin back
               PROVE  FALSE
    OBVIOUS
  <1>1. PICK f \in AllFrames : f.call = Promise!Inner(s)  BY DEF Promise!MayNest, History, Live
  <1>2. PICK u \in Thread : \E i \in 1..Len(stack[u]) : f = stack[u][i]  BY DEF AllFrames
  <1>3. PICK i \in 1..Len(stack[u]) : f = stack[u][i]  BY <1>2
  <1>4. CASE Parent(u, i) = None
    <2>1. Promise!IsOuter(Promise!Inner(s))  BY <1>1, <1>3, <1>4 DEF History, Nested
    <2>2. QED  BY <2>1, InnerIsOne
  <1>5. CASE Parent(u, i) # None
    <2>1. Promise!Inner(Parent(u, i)) = Promise!Inner(s)  BY <1>1, <1>3, <1>5 DEF History, Nested
    <2>2. Parent(u, i) \in Item  BY <1>5, ParentIs
    <2>3. QED  BY <2>1, <2>2, InnerIsOne
  <1>6. QED  BY <1>4, <1>5

(* What ForkJoin asks of the share that ends in a call of a thread.        *)
LEMMA OwnMayEnd ==
  ASSUME NEW t \in Thread, Inv, Ledger, History, At(t, "func")
  PROVE  LET s == <<Top(t).call, 0>>
         IN  /\ s = Running(t) /\ s \in Promise!Share /\ s \in begun \ ended
             /\ Promise!MayNest(s) /\ size[Promise!Inner(s)] # 0 => Promise!Inner(s) \in back
  <1> DEFINE s == <<Top(t).call, 0>>
             x == stack[t][1]
  <1>1. /\ stack[t] # <<>> /\ Top(t) = x /\ x \in AllFrames /\ x \in AnyFrame /\ x.at = "func"
        /\ 1 \in 1..Len(stack[t])
    BY HeadIs, StackIs DEF Inv, At
  <1>2. s = Running(t)  BY <1>1 DEF Running, Top
  <1>3. s \in Item /\ s[1] = x.call /\ s[2] = 0  BY <1>1 DEF Item, AnyFrame
  <1>4. s \in begun \ ended  BY <1>1 DEF History, AllRight, Right
  <1>5. s \in Promise!Share
    <2>1. 0 \in Promise!Number
      <3>1. size[x.call] \in 0..MaxShares /\ s[2] < size[x.call] /\ MaxShares \in Nat
        BY <1>1, <1>3, <1>4, BoundsAssumption DEF History, HistoryTypes, Known, AnyFrame
      <3>2. QED  BY <3>1, <1>3 DEF Promise!Number
    <2>2. QED  BY <2>1, <1>1 DEF Promise!Share, AnyFrame
  <1>6. \A u \in Thread : \A i \in 1..Len(stack[u]) : Parent(u, i) # s
    <2> SUFFICES ASSUME NEW u \in Thread, NEW i \in 1..Len(stack[u]), Parent(u, i) = s PROVE FALSE
      OBVIOUS
    <2>1. Len(stack[u]) \in Nat  BY StackIs DEF Inv
    <2>2. CASE i < Len(stack[u])
      <3>1. i + 1 \in 1..Len(stack[u])  BY <2>1, <2>2
      <3>2. stack[u][i + 1].call = x.call  BY <2>2, <1>1 DEF Parent
      <3>3. i + 1 = 1  BY <3>1, <3>2, <1>1, SamePlace DEF Ledger
      <3>4. QED  BY <3>3
    <2>3. CASE ~ (i < Len(stack[u]))
      <3>1. s # None  BY <1>3, ItemIsSome
      <3>2. u \in Workers /\ work[u] = s  BY <3>1, <2>3 DEF Parent, Thread
      <3>3. s \in Held  BY <3>1, <3>2 DEF Held
      <3>4. s[2] >= 1  BY <3>3 DEF History, Known
      <3>5. QED  BY <3>4, <1>3
    <2>4. QED  BY <2>2, <2>3
  <1> HIDE DEF s
  <1>7. Promise!MayNest(s) /\ size[Promise!Inner(s)] # 0 => Promise!Inner(s) \in back
    BY <1>3, <1>6, InnerIsBack
  <1>8. QED  BY <1>2, <1>4, <1>5, <1>7 DEF s

(* ... and in a worker.                                                    *)
LEMMA WorkMayEnd ==
  ASSUME NEW w \in Workers, Inv, Ledger, History, pc[w] = "func"
  PROVE  /\ work[w] \in Promise!Share /\ work[w] \in begun \ ended
         /\ stack[w] = <<>> /\ Promise!MayNest(work[w]) /\ size[Promise!Inner(work[w])] # 0
              => Promise!Inner(work[w]) \in back
  <1> DEFINE s == work[w]
  <1>1. s \in begun \ ended  BY DEF History, Known
  <1>2. s \in Item /\ s # None /\ s \in Promise!Call \X Nat
    BY <1>1, ItemIsSome DEF History, HistoryTypes, Item
  <1>3. s \in Held /\ s[2] >= 1
    <2>1. s \in Held  BY <1>2 DEF Held
    <2>2. QED  BY <2>1 DEF History, Known
  <1>4. s \in Promise!Share
    <2>1. size[s[1]] \in 0..MaxShares /\ s[2] < size[s[1]] /\ MaxShares \in Nat
      BY <1>1, <1>2, BoundsAssumption DEF History, HistoryTypes, Known
    <2>2. s[2] \in Promise!Number  BY <2>1, <1>2 DEF Promise!Number
    <2>3. QED  BY <2>2, <1>2 DEF Promise!Share
  <1>5. ASSUME stack[w] = <<>>
        PROVE  \A u \in Thread : \A i \in 1..Len(stack[u]) : Parent(u, i) # s
    <2> SUFFICES ASSUME NEW u \in Thread, NEW i \in 1..Len(stack[u]), Parent(u, i) = s PROVE FALSE
      OBVIOUS
    <2>1. CASE i < Len(stack[u])
      <3>1. Parent(u, i)[2] = 0  BY <2>1 DEF Parent
      <3>2. QED  BY <3>1, <1>3
    <2>2. CASE ~ (i < Len(stack[u]))
      <3>1. u \in Workers /\ work[u] = s  BY <2>2, <1>2 DEF Parent, Thread
      <3>2. u = w  BY <3>1, <1>2 DEF Ledger, Once
      <3>3. QED  BY <3>2, <1>5
    <2>3. QED  BY <2>1, <2>2
  <1> HIDE DEF s
  <1>6. stack[w] = <<>> /\ Promise!MayNest(s) /\ size[Promise!Inner(s)] # 0 => Promise!Inner(s) \in back
    BY <1>2, <1>5, InnerIsBack
  <1>7. QED  BY <1>1, <1>4, <1>6 DEF s

(* The calls are made as ForkJoin asks: the outer ones one at a time, the  *)
(* others by a share that runs.                                            *)
LEMMA CallableMayCall ==
  ASSUME NEW t \in Thread, Inv, Ledger, History, NEW c \in Callable(t)
  PROVE  Promise!MayCall(c)
  <1>1. size[c] = 0 /\ c \in Promise!Call  BY DEF Callable
  <1>2. CASE Promise!IsOuter(c)
    <2>1. stack[Main] = <<>> /\ \A r \in 1..c[1] - 1 : size[<<r, <<>>>>] # 0  BY <1>2 DEF Callable
    <2>2. ASSUME NEW r \in 1..c[1] - 1 PROVE <<r, <<>>>> \in back
      <3> DEFINE d == <<r, <<>>>>
      <3>1. d \in Promise!Call
        <4>1. c[1] \in 1..MaxCalls /\ c[2] = <<>> /\ c[2] \in Promise!Path
          BY <1>1, <1>2 DEF Promise!Call, Promise!IsOuter
        <4>2. r \in 1..MaxCalls  BY <4>1, BoundsAssumption
        <4>3. QED  BY <4>1, <4>2 DEF Promise!Call
      <3>2. size[d] # 0 /\ Promise!IsOuter(d)  BY <2>1 DEF Promise!IsOuter
      <3> HIDE DEF d
      <3>3. SUFFICES ASSUME d \notin back PROVE FALSE  BY DEF d
      <3>4. PICK f \in AllFrames : f.call = d  BY <3>1, <3>2, <3>3 DEF History, Live
      <3>5. PICK u \in Thread : \E i \in 1..Len(stack[u]) : f = stack[u][i]  BY DEF AllFrames
      <3>6. PICK i \in 1..Len(stack[u]) : f = stack[u][i]  BY <3>5
      <3>7. CASE Parent(u, i) \in Item
        <4>1. d = Promise!Inner(Parent(u, i))  BY <3>4, <3>6, <3>7, ItemIsSome DEF History, Nested
        <4>2. QED  BY <4>1, <3>2, <3>7, InnerIsOne
      <3>8. CASE u = Main  BY <3>8, <2>1
      <3>9. QED  BY <3>7, <3>8, ParentIs
    <2>3. QED  BY <2>2, <1>1, <1>2 DEF Promise!MayCall
  <1>3. CASE ~ Promise!IsOuter(c)
    <2>1. Running(t) # None /\ Promise!MayNest(Running(t)) /\ c = Promise!Inner(Running(t))
      BY <1>3 DEF Callable
    <2>2. Running(t) \in begun \ ended
      <3>1. CASE stack[t] # <<>>
        <4>1. At(t, "func")  BY <2>1, <3>1 DEF Running, At
        <4>2. QED  BY <4>1, OwnMayEnd
      <3>2. CASE stack[t] = <<>>
        <4>1. t \in Workers /\ pc[t] = "func" /\ Running(t) = work[t]
          BY <2>1, <3>2 DEF Running, Thread
        <4>2. QED  BY <4>1, WorkMayEnd
      <3>3. QED  BY <3>1, <3>2
    <2>3. QED  BY <2>1, <2>2, <1>1, <1>3 DEF Promise!MayCall
  <1>4. QED  BY <1>2, <1>3

(* Each step is one of ForkJoin or changes nothing of what it sees.        *)
LEMMA CallStep ==
  ASSUME NEW t \in Thread, Inv, Ledger, History, Parallelize(t)
  PROVE  Promise!Next
  <1>1. PICK c \in Callable(t), n \in 1..MaxShares, y \in AnyFrame :
            /\ size' = [size EXCEPT ![c] = n] /\ stack' = [stack EXCEPT ![t] = <<y>> \o @]
            /\ y.call = c /\ y.n = n /\ y.next = 1
            /\ \/ n = 1 /\ y.at = "func" /\ begun' = begun \union {<<c, 0>>}
               \/ n # 1 /\ y.at = "count" /\ begun' = begun
    BY CallIs
  <1>2. Promise!MayCall(c) /\ c \in Promise!Call  BY CallableMayCall DEF Callable
  <1>3. UNCHANGED <<ended, back>>  BY DEF Parallelize
  <1>4. Promise!EnterBegin(c) \/ Promise!Enter(c, n)
    BY <1>1, <1>2, <1>3 DEF Promise!EnterBegin, Promise!Enter
  <1>5. QED  BY <1>2, <1>4 DEF Promise!Next

(* The last put of a call begins its first share.                          *)
LEMMA PushStep ==
  ASSUME NEW t \in Thread, Inv, Ledger, History, GroupPush(t)
  PROVE  [Promise!Next]_Promise!vars
  <1> DEFINE x == stack[t][1]
             z == <<x.call, 0>>
  <1>1. x \in AllFrames /\ x \in AnyFrame /\ Top(t) = x /\ x.at = "push"
    BY HeadIs DEF Inv, GroupPush, At
  <1>2. /\ x.n = size[x.call] /\ x.n >= 1 /\ x.n \in Nat
        /\ \A s \in begun : s[1] = x.call => 1 <= s[2]
    BY <1>1 DEF History, AllRight, Right, AnyFrame
  <1>3. UNCHANGED <<size, ended, back>> /\ (begun' = begun \/ begun' = begun \union {z})
    BY <1>1 DEF GroupPush
  <1>4. z[1] = x.call /\ z[2] = 0 /\ z \notin begun  BY <1>2
  <1>5. z \in Promise!Share
    <2>1. MaxShares \in Nat /\ x.n \in 0..MaxShares /\ x.call \in Promise!Call
      BY <1>1, <1>2, BoundsAssumption DEF History, HistoryTypes, AnyFrame
    <2>2. 0 \in Promise!Number  BY <2>1, <1>2 DEF Promise!Number
    <2>3. QED  BY <2>1, <2>2 DEF Promise!Share
  <1>6. z[2] < size[z[1]]  BY <1>2, <1>4
  <1> HIDE DEF z, x
  <1>7. CASE begun' = begun  BY <1>3, <1>7 DEF Promise!vars
  <1>8. CASE begun' = begun \union {z}
    <2>1. Promise!Begin(z)  BY <1>3, <1>4, <1>6, <1>8 DEF Promise!Begin
    <2>2. QED  BY <2>1, <1>5 DEF Promise!Next
  <1>9. QED  BY <1>3, <1>7, <1>8

(* The first share ends, and the call with it when it is not divided.      *)
LEMMA FuncStep ==
  ASSUME NEW t \in Thread, Inv, Ledger, History, FuncEnds(t)
  PROVE  Promise!Next
  <1> DEFINE s == <<Top(t).call, 0>>
  <1>1. At(t, "func")  BY DEF FuncEnds
  <1>2. /\ s = Running(t) /\ s \in Promise!Share /\ s \in begun \ ended
        /\ Promise!MayNest(s) /\ size[Promise!Inner(s)] # 0 => Promise!Inner(s) \in back
    BY <1>1, OwnMayEnd
  <1>3. /\ Top(t) \in AllFrames /\ Top(t) \in AnyFrame /\ s[1] = Top(t).call
    BY <1>1, HeadIs DEF Inv, At
  <1>4. Top(t).n = size[s[1]] /\ s[1] \notin back
    BY <1>3 DEF History, AllRight, Right, Ledger, Open
  <1>5. ended' = ended \union {s} /\ UNCHANGED <<size, begun>>  BY <1>2 DEF FuncEnds
  <1>6. CASE Top(t).n = 1
    <2>1. back' = back \union {s[1]}  BY <1>3, <1>6 DEF FuncEnds
    <2>2. Promise!Shares(s[1]) \subseteq ended'
      <3>1. 0..size[s[1]] - 1 = {0}  BY <1>4, <1>6
      <3>2. Promise!Shares(s[1]) = {<<s[1], 0>>}  BY <3>1 DEF Promise!Shares
      <3>3. QED  BY <3>2, <1>3, <1>5
    <2>3. Promise!EndReturn(s)  BY <1>2, <1>4, <1>5, <2>1, <2>2 DEF Promise!EndReturn
    <2>4. QED  BY <2>3, <1>2 DEF Promise!Next
  <1>7. CASE Top(t).n # 1
    <2>1. back' = back  BY <1>7 DEF FuncEnds
    <2>2. Promise!End(s)  BY <1>2, <1>5, <2>1 DEF Promise!End
    <2>3. QED  BY <2>2, <1>2 DEF Promise!Next
  <1>8. QED  BY <1>6, <1>7

(* A divided call returns: all of its shares have ended.                   *)
LEMMA EnterStep ==
  ASSUME NEW t \in Thread, Inv, Ledger, History, GroupEnter(t)
  PROVE  Promise!Next
  <1> DEFINE x == stack[t][1]
             c == x.call
  <1>1. x \in AllFrames /\ x \in AnyFrame /\ Top(t) = x /\ x.at = "enter"
    BY HeadIs DEF Inv, GroupEnter, At
  <1>2. c \in Promise!Call /\ size[c] # 0 /\ c \notin back
    BY <1>1 DEF Ledger, Open, AnyFrame
  <1>3. /\ x.n = size[c] /\ <<c, 0>> \in ended /\ x.n \in Nat
        /\ \A k \in 1..x.n - 1 : <<c, k>> \in Placed
    BY <1>1 DEF History, AllRight, Right, Upto, AnyFrame
  <1>4. \A k \in 1..x.n - 1 : <<c, k>> \in ended
    <2> SUFFICES ASSUME NEW k \in 1..x.n - 1, <<c, k>> \in Queued \union Held PROVE FALSE
      BY <1>3 DEF Placed
    <2>1. <<c, k>>[1] = x.call  OBVIOUS
    <2>2. QED  BY <2>1, <1>1 DEF Ledger, Behind
  <1>5. Promise!Shares(c) \subseteq ended
    <2> SUFFICES ASSUME NEW k \in 0..x.n - 1 PROVE <<c, k>> \in ended
      BY <1>3 DEF Promise!Shares
    <2>1. k = 0 \/ k \in 1..x.n - 1  BY <1>3
    <2>2. QED  BY <2>1, <1>3, <1>4
  <1>6. back' = back \union {c} /\ UNCHANGED <<size, begun, ended>>  BY <1>1 DEF GroupEnter
  <1> HIDE DEF c
  <1>7. Promise!Return(c)  BY <1>2, <1>5, <1>6 DEF Promise!Return
  <1>8. QED  BY <1>2, <1>7 DEF Promise!Next

(* A worker begins a share.                                                *)
LEMMA PopStep ==
  ASSUME NEW w \in Workers, Inv, Ledger, History, Pop(w), work_fifo # <<>>,
         UNCHANGED <<size, ended, back>>
  PROVE  Promise!Next
  <1> DEFINE s == work_fifo[Len(work_fifo)]
  <1>1. s \in Queued /\ s \in Item
    <2>1. work_fifo \in Seq(Item) /\ Distinct(work_fifo)  BY DEF Ledger, ItemTypes, Once
    <2>2. QED  BY <2>1, ItemsTake DEF Queued
  <1>2. begun' = begun \union {s}  BY DEF Pop
  <1> HIDE DEF s
  <1>3. s \notin begun /\ s[2] < size[s[1]]  BY <1>1 DEF History, Known
  <1>4. s \in Promise!Share
    <2>1. size[s[1]] \in 0..MaxShares /\ MaxShares \in Nat /\ s \in Promise!Call \X Nat
      BY <1>1, BoundsAssumption DEF History, HistoryTypes, Item
    <2>2. s[2] \in Promise!Number  BY <2>1, <1>3 DEF Promise!Number
    <2>3. QED  BY <2>1, <2>2 DEF Promise!Share
  <1>5. Promise!Begin(s)  BY <1>2, <1>3 DEF Promise!Begin
  <1>6. QED  BY <1>4, <1>5 DEF Promise!Next

(* So every step, with what is known of the state before it.               *)
LEMMA NextSteps == Inv /\ Ledger /\ History /\ [Next]_vars => [Promise!Next]_Promise!vars
  <1> SUFFICES ASSUME Inv, Ledger, History, [Next]_vars PROVE [Promise!Next]_Promise!vars
    OBVIOUS
  <1>1. CASE \E t \in Thread : Parallelize(t)  BY <1>1, CallStep
  <1>2. CASE \E t \in Thread : Caller(t)
    <2>1. PICK t \in Thread : Caller(t)  BY <1>2
    <2>2. CASE GroupPush(t)  BY <2>2, PushStep
    <2>3. CASE FuncEnds(t)  BY <2>3, FuncStep
    <2>4. CASE GroupEnter(t)  BY <2>4, EnterStep
    <2>5. CASE GroupCount(t) \/ GroupLeave(t) \/ GroupWait(t)
      BY <2>5 DEF GroupCount, GroupLeave, GroupWait, history, Promise!vars
    <2>6. QED  BY <2>1, <2>2, <2>3, <2>4, <2>5 DEF Caller
  <1>3. CASE \E w \in Workers : Worker(w)
    <2>1. PICK w \in Workers : Worker(w)  BY <1>3
    <2>2. CASE WorkTake(w) \/ WorkWakeTake(w)  BY <2>2, PopStep DEF WorkTake, WorkWakeTake
    <2>3. CASE WorkEnds(w)
      <3>1. Promise!End(work[w]) /\ work[w] \in Promise!Share
        BY <2>3, WorkMayEnd DEF WorkEnds, Promise!End
      <3>2. QED  BY <3>1 DEF Promise!Next
    <2>4. CASE WorkWait(w) \/ WorkSleepAgain(w) \/ WorkExit(w) \/ WorkSignals(w)
      BY <2>4 DEF WorkWait, WorkSleepAgain, WorkExit, WorkSignals, history, Promise!vars
    <2>5. QED  BY <2>1, <2>2, <2>3, <2>4 DEF Worker
  <1>4. CASE Spurious \/ Done \/ Broadcast \/ Joined \/ UNCHANGED vars
    BY <1>4 DEF Spurious, Done, Broadcast, Joined, vars, history, Promise!vars
  <1>5. QED  BY <1>1, <1>2, <1>3, <1>4 DEF Next

(* Each share of each call is run exactly once, by a worker or by the      *)
(* caller; a call returns after all of its shares, and before the share    *)
(* that made it ends: ThreadFifo implements ForkJoin.                      *)
THEOREM FifoImplements == Spec => Implements
  <1>1. Init => Promise!Init  BY DEF Init
  <1>2. QED
    BY <1>1, InitInv, NextInv, InitLedger, NextLedger, InitHistory, NextHistory, NextSteps, PTL
    DEF Spec, Implements, Promise!Spec
=============================================================================
