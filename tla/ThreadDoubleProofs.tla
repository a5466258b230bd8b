------------------------- MODULE ThreadDoubleProofs -------------------------
(***************************************************************************)
(* The proof that thdouble.c does what ForkJoin promises, for any calls    *)
(* and levels.  At most one call is divided, and it is in the stack of the *)
(* emulation; its place there and the place of the companion tell together *)
(* what thread_func is, and where both shares are.  The other calls are    *)
(* run by their callers.                                                   *)
(***************************************************************************)
EXTENDS ThreadDouble, Integers, SequenceTheorems, TLAPS

Item == Promise!Call \X Nat

Types ==
    /\ stack \in [Thread -> Seq(Frame)]
    /\ thread_func \in Promise!Call \union {None} /\ thread_arg \in Promise!Call \union {None}
    /\ thread_inuse \in BOOLEAN
    /\ pc \in {"top", "sleep", "call", "func", "end", "exited"}
    /\ work \in Item \union {None}
    /\ size \in [Promise!Call -> 0..MaxShares]
    /\ begun \subseteq Item /\ ended \subseteq begun

\* No call is in two places, and a call that was made is in a stack until it
\* returns.
OneFrame ==
    \A t, u \in Thread : \A i \in 1..Len(stack[t]), j \in 1..Len(stack[u]) :
        stack[t][i].call = stack[u][j].call => t = u /\ i = j

Live ==
    /\ \A t \in Thread : \A i \in 1..Len(stack[t]) : stack[t][i].call \notin back
    /\ \A c \in back : size[c] # 0
    /\ \A c \in Promise!Call : size[c] # 0 /\ c \notin back =>
          \E t \in Thread : \E i \in 1..Len(stack[t]) : stack[t][i].call = c

\* Only the last call is not in its share, and one call at most is divided.
OneDivided ==
    /\ \A t \in Thread : \A i \in 1..Len(stack[t]) :
          /\ i # 1 \/ stack[t][i].n = 1 => stack[t][i].at = "func"
          /\ stack[t][i].n = 2 => t = "main"
    /\ \A i, j \in 1..Len(stack["main"]) : stack["main"][i].n = 2 /\ stack["main"][j].n = 2 => i = j

\* The share below a call in its stack, None below an outer call.
Parent(t, i) ==
    IF i < Len(stack[t]) THEN <<stack[t][i + 1].call, 0>>
    ELSE IF t = "main" THEN None ELSE work

\* The share below a call is the one that made it.
Nested ==
    \A t \in Thread : \A i \in 1..Len(stack[t]) :
        IF Parent(t, i) = None THEN Promise!IsOuter(stack[t][i].call)
        ELSE stack[t][i].call = Promise!Inner(Parent(t, i))

Places == OneFrame /\ Live /\ OneDivided /\ Nested

\* The place of a call tells where its shares are.
Right(f) ==
    /\ f.n = size[f.call]
    /\ f.at \in {"claim", "post"} => \A s \in begun : s[1] # f.call
    /\ f.at = "func" => <<f.call, 0>> \in begun \ ended
    /\ f.at \in {"wait", "sleep", "free"} => <<f.call, 0>> \in ended
    /\ f.n = 2 =>
          /\ f.at \in {"claim", "post", "free"} => thread_func = None
          /\ f.at \in {"func", "wait", "sleep", "free"} =>
                thread_func = f.call \/ <<f.call, 1>> \in ended
          /\ ~thread_inuse => f.at = "claim"

AllRight == \A t \in Thread : \A i \in 1..Len(stack[t]) : Right(stack[t][i])

\* The place of the companion tells where the second share is.
Second ==
    /\ \A s \in begun : s[2] < size[s[1]]
    /\ pc \in {"top", "sleep", "exited"} => thread_func = None \/ <<thread_func, 1>> \notin begun
    /\ pc = "call" => <<thread_func, 1>> \notin begun
    /\ pc = "func" => work = <<thread_func, 1>> /\ work \in begun \ ended
    /\ pc = "end" => <<thread_func, 1>> \in ended
    /\ pc \in {"call", "func", "end"} => thread_func # None
    /\ pc # "func" => work = None /\ stack["companion"] = <<>>
    /\ thread_func # None =>
          /\ thread_arg = thread_func
          /\ \E i \in 1..Len(stack["main"]) :
                /\ stack["main"][i].call = thread_func /\ stack["main"][i].n = 2
                /\ stack["main"][i].at \in {"func", "wait", "sleep"}

Halves == Types /\ Places /\ AllRight /\ Second

---------------------------------------------------------------------------
(* What a stack is, and what the three ways to change it do.               *)
LEMMA StackIs ==
  ASSUME NEW t \in Thread, Types
  PROVE  /\ stack[t] \in Seq(Frame) /\ Len(stack[t]) \in Nat
         /\ \A i \in 1..Len(stack[t]) :
               /\ stack[t][i] \in Frame /\ stack[t][i].call \in Promise!Call /\ stack[t][i].n \in {1, 2}
               /\ stack[t][i].at \in {"claim", "post", "func", "wait", "sleep", "free"}
         /\ stack[t] # <<>> => 1 \in 1..Len(stack[t]) /\ Head(stack[t]) = stack[t][1]
  <1>1. stack[t] \in Seq(Frame)  BY DEF Types
  <1>2. \A f \in Frame : /\ f.call \in Promise!Call /\ f.n \in {1, 2}
                         /\ f.at \in {"claim", "post", "func", "wait", "sleep", "free"}
    BY DEF Frame
  <1>3. QED  BY <1>1, <1>2

(* A call goes to another place.                                           *)
LEMMA GoIs ==
  ASSUME NEW t \in Thread, NEW p \in {"claim", "post", "func", "wait", "sleep", "free"},
         Types, stack[t] # <<>>, Go(t, p)
  PROVE  /\ stack' \in [Thread -> Seq(Frame)]
         /\ \A u \in Thread :
               /\ Len(stack'[u]) = Len(stack[u])
               /\ \A i \in 1..Len(stack[u]) :
                     /\ stack'[u][i].call = stack[u][i].call /\ stack'[u][i].n = stack[u][i].n
                     /\ stack'[u][i].at = IF u = t /\ i = 1 THEN p ELSE stack[u][i].at
                     /\ stack'[u][i] \in Frame /\ ((u = t /\ i = 1) \/ stack'[u][i] = stack[u][i])
  <1> DEFINE f == [stack[t][1] EXCEPT !.at = p]
             s == [stack[t] EXCEPT ![1] = f]
  <1>1. stack[t] \in Seq(Frame) /\ Len(stack[t]) \in Nat /\ 1 \in 1..Len(stack[t]) /\ stack[t][1] \in Frame
    BY StackIs
  <1>2. f \in Frame /\ f.call = stack[t][1].call /\ f.n = stack[t][1].n /\ f.at = p
    BY <1>1 DEF Frame
  <1>3. stack' = [stack EXCEPT ![t] = s]  BY DEF Go, Types
  <1> HIDE DEF f
  <1>4. /\ s \in Seq(Frame) /\ Len(s) = Len(stack[t]) /\ s[1] = f
        /\ \A i \in 1..Len(s) : i # 1 => s[i] = stack[t][i]
    BY <1>1, <1>2
  <1> HIDE DEF s
  <1>5. stack'[t] = s /\ \A u \in Thread : u # t => stack'[u] = stack[u]  BY <1>3 DEF Types
  <1>6. stack' \in [Thread -> Seq(Frame)]  BY <1>3, <1>4 DEF Types
  <1>7. ASSUME NEW u \in Thread
        PROVE  /\ Len(stack'[u]) = Len(stack[u])
               /\ \A i \in 1..Len(stack[u]) :
                     /\ stack'[u][i].call = stack[u][i].call /\ stack'[u][i].n = stack[u][i].n
                     /\ stack'[u][i].at = IF u = t /\ i = 1 THEN p ELSE stack[u][i].at
                     /\ stack'[u][i] \in Frame /\ ((u = t /\ i = 1) \/ stack'[u][i] = stack[u][i])
    <2>1. \A i \in 1..Len(stack[u]) : stack[u][i] \in Frame  BY StackIs
    <2>2. CASE u = t  BY <2>1, <2>2, <1>2, <1>4, <1>5
    <2>3. CASE u # t  BY <2>1, <2>3, <1>5
    <2>4. QED  BY <2>2, <2>3
  <1>8. QED  BY <1>6, <1>7

(* A call returns.                                                         *)
LEMMA PopIs ==
  ASSUME NEW t \in Thread, Types, stack[t] # <<>>, stack' = [stack EXCEPT ![t] = Tail(@)]
  PROVE  /\ stack' \in [Thread -> Seq(Frame)]
         /\ \A u \in Thread : u # t => stack'[u] = stack[u]
         /\ Len(stack'[t]) = Len(stack[t]) - 1
         /\ \A i \in 1..Len(stack'[t]) : i + 1 \in 1..Len(stack[t]) /\ stack'[t][i] = stack[t][i + 1]
  <1> DEFINE s == Tail(stack[t])
  <1>1. stack[t] \in Seq(Frame) /\ Len(stack[t]) \in Nat /\ 1 \in 1..Len(stack[t])  BY StackIs
  <1>2. /\ s \in Seq(Frame) /\ Len(s) = Len(stack[t]) - 1
        /\ \A i \in 1..Len(s) : i + 1 \in 1..Len(stack[t]) /\ s[i] = stack[t][i + 1]
    BY <1>1
  <1>3. stack' = [stack EXCEPT ![t] = s]  OBVIOUS
  <1> HIDE DEF s
  <1>4. stack' \in [Thread -> Seq(Frame)] /\ stack'[t] = s /\ \A u \in Thread : u # t => stack'[u] = stack[u]
    BY <1>2, <1>3 DEF Types
  <1>5. QED  BY <1>2, <1>4

(* A call begins.                                                          *)
LEMMA PushIs ==
  ASSUME NEW t \in Thread, NEW y \in Frame, Types, stack' = [stack EXCEPT ![t] = <<y>> \o stack[t]]
  PROVE  /\ stack' \in [Thread -> Seq(Frame)]
         /\ \A u \in Thread : u # t => stack'[u] = stack[u]
         /\ Len(stack'[t]) = Len(stack[t]) + 1 /\ stack'[t][1] = y
         /\ \A i \in 2..Len(stack'[t]) : i - 1 \in 1..Len(stack[t]) /\ stack'[t][i] = stack[t][i - 1]
         /\ \A i \in 1..Len(stack[t]) : i + 1 \in 1..Len(stack'[t]) /\ stack'[t][i + 1] = stack[t][i]
  <1> DEFINE s == <<y>> \o stack[t]
  <1>1. stack[t] \in Seq(Frame) /\ Len(stack[t]) \in Nat  BY StackIs
  <1>2. /\ s \in Seq(Frame) /\ Len(s) = Len(stack[t]) + 1 /\ s[1] = y
        /\ \A i \in 2..Len(s) : i - 1 \in 1..Len(stack[t]) /\ s[i] = stack[t][i - 1]
        /\ \A i \in 1..Len(stack[t]) : i + 1 \in 1..Len(s) /\ s[i + 1] = stack[t][i]
    BY <1>1
  <1>3. stack' = [stack EXCEPT ![t] = s]  OBVIOUS
  <1> HIDE DEF s
  <1>4. stack' \in [Thread -> Seq(Frame)] /\ stack'[t] = s /\ \A u \in Thread : u # t => stack'[u] = stack[u]
    BY <1>2, <1>3 DEF Types
  <1>5. QED  BY <1>2, <1>4

---------------------------------------------------------------------------
(* The places of the calls, after each of these changes.                   *)

(* The same calls at the same places nest as before.                       *)
LEMMA NestedKept ==
  ASSUME Types, Nested,
         \A u \in Thread : /\ Len(stack'[u]) = Len(stack[u])
                           /\ \A i \in 1..Len(stack[u]) : stack'[u][i].call = stack[u][i].call,
         work' = work \/ stack["companion"] = <<>>
  PROVE  Nested'
  <1> SUFFICES ASSUME NEW u \in Thread, NEW i \in 1..Len(stack'[u])
               PROVE  IF Parent(u, i)' = None THEN Promise!IsOuter(stack'[u][i].call)
                      ELSE stack'[u][i].call = Promise!Inner(Parent(u, i)')
    BY DEF Nested
  <1>1. /\ i \in 1..Len(stack[u]) /\ stack'[u][i].call = stack[u][i].call /\ Len(stack'[u]) = Len(stack[u])
        /\ Len(stack[u]) \in Nat
    BY StackIs
  <1>2. Parent(u, i)' = Parent(u, i)
    <2>1. CASE i < Len(stack[u])
      <3>1. i + 1 \in 1..Len(stack[u])  BY <2>1, <1>1
      <3>2. stack'[u][i + 1].call = stack[u][i + 1].call  BY <3>1
      <3>3. QED  BY <3>2, <2>1, <1>1 DEF Parent
    <2>2. CASE ~(i < Len(stack[u]))
      <3>1. u # "main" => work' = work
        <4>1. ASSUME u # "main" PROVE stack["companion"] # <<>>
          <5>1. u = "companion"  BY <4>1 DEF Thread
          <5>2. Len(stack["companion"]) # 0  BY <5>1, <1>1
          <5>3. QED  BY <5>2
        <4>2. QED  BY <4>1
      <3>2. QED  BY <3>1, <2>2, <1>1 DEF Parent, None
    <2>3. QED  BY <2>1, <2>2
  <1>3. QED  BY <1>1, <1>2 DEF Nested

(* Nothing moves.                                                          *)
LEMMA SamePlaces ==
  ASSUME Types, Places, UNCHANGED <<stack, size, back>>, work' = work \/ stack["companion"] = <<>>
  PROVE  Places'
  <1>1. Nested'  BY NestedKept DEF Places
  <1>2. OneFrame' /\ Live' /\ OneDivided'  BY DEF Places, OneFrame, Live, OneDivided
  <1>3. QED  BY <1>1, <1>2 DEF Places

(* The last call goes to another place.                                    *)
LEMMA GoPlaces ==
  ASSUME NEW t \in Thread, NEW p \in {"claim", "post", "func", "wait", "sleep", "free"},
         Types, Places, stack[t] # <<>>, Go(t, p), stack[t][1].n = 2, UNCHANGED <<size, back, work>>
  PROVE  Places'
  <1>1. \A u \in Thread :
           /\ Len(stack'[u]) = Len(stack[u]) /\ Len(stack[u]) \in Nat
           /\ \A i \in 1..Len(stack[u]) :
                 /\ stack'[u][i].call = stack[u][i].call /\ stack'[u][i].n = stack[u][i].n
                 /\ stack'[u][i].at = IF u = t /\ i = 1 THEN p ELSE stack[u][i].at
    BY GoIs, StackIs
  <1>2. OneFrame'  BY <1>1 DEF Places, OneFrame
  <1>3. Live'
    <2>1. \A u \in Thread : \A i \in 1..Len(stack'[u]) : stack'[u][i].call \notin back'
      BY <1>1 DEF Places, Live
    <2>2. ASSUME NEW c \in Promise!Call, size[c] # 0, c \notin back
          PROVE  \E u \in Thread : \E i \in 1..Len(stack'[u]) : stack'[u][i].call = c
      <3>1. PICK u \in Thread : \E i \in 1..Len(stack[u]) : stack[u][i].call = c  BY <2>2 DEF Places, Live
      <3>2. QED  BY <3>1, <1>1
    <2>3. QED  BY <2>1, <2>2 DEF Live, Places
  <1>4. OneDivided'
    <2>1. \A u \in Thread : \A i \in 1..Len(stack'[u]) :
             /\ i # 1 \/ stack'[u][i].n = 1 => stack'[u][i].at = "func"
             /\ stack'[u][i].n = 2 => u = "main"
      BY <1>1 DEF Places, OneDivided
    <2>2. "main" \in Thread  BY DEF Thread
    <2>3. \A i, j \in 1..Len(stack'["main"]) : stack'["main"][i].n = 2 /\ stack'["main"][j].n = 2 => i = j
      BY <2>2, <1>1 DEF Places, OneDivided
    <2>4. QED  BY <2>1, <2>3 DEF OneDivided
  <1>5. Nested'  BY <1>1, NestedKept DEF Places
  <1>6. QED  BY <1>2, <1>3, <1>4, <1>5 DEF Places

(* The last call returns.                                                  *)
LEMMA PopPlaces ==
  ASSUME NEW t \in Thread, Types, Places, stack[t] # <<>>, stack' = [stack EXCEPT ![t] = Tail(@)],
         size[stack[t][1].call] # 0, back' = back \union {stack[t][1].call}, UNCHANGED <<size, work>>
  PROVE  Places'
  <1> DEFINE Old(u, i) == IF u = t THEN i + 1 ELSE i
  <1>1. /\ \A u \in Thread : u # t => stack'[u] = stack[u]
        /\ Len(stack'[t]) = Len(stack[t]) - 1
        /\ \A i \in 1..Len(stack'[t]) : i + 1 \in 1..Len(stack[t]) /\ stack'[t][i] = stack[t][i + 1]
    BY PopIs
  <1>2. \A u \in Thread : Len(stack[u]) \in Nat  BY StackIs
  <1>3. 1 \in 1..Len(stack[t])  BY StackIs
  <1>4. ASSUME NEW u \in Thread, NEW i \in 1..Len(stack'[u])
        PROVE  Old(u, i) \in 1..Len(stack[u]) /\ stack'[u][i] = stack[u][Old(u, i)] /\ ~ (u = t /\ Old(u, i) = 1)
    <2>1. i \in Nat /\ i >= 1
      <3>1. Len(stack'[u]) \in Int  BY <1>1, <1>2
      <3>2. QED  BY <3>1
    <2>2. CASE u = t  BY <2>1, <2>2, <1>1
    <2>3. CASE u # t  BY <2>3, <1>1
    <2>4. QED  BY <2>2, <2>3
  <1>5. \A u \in Thread : \A i, j \in 1..Len(stack'[u]) : Old(u, i) = Old(u, j) => i = j
    <2> SUFFICES ASSUME NEW u \in Thread, NEW i \in 1..Len(stack'[u]), NEW j \in 1..Len(stack'[u]),
                        Old(u, i) = Old(u, j) PROVE i = j
      OBVIOUS
    <2>1. Len(stack'[u]) \in Int  BY <1>1, <1>2
    <2>2. i \in Int /\ j \in Int  BY <2>1
    <2>3. QED  BY <2>2
  <1> HIDE DEF Old
  <1>6. OneFrame'
    <2> SUFFICES ASSUME NEW u \in Thread, NEW v \in Thread, NEW i \in 1..Len(stack'[u]), NEW j \in 1..Len(stack'[v]),
                        stack'[u][i].call = stack'[v][j].call
                 PROVE  u = v /\ i = j
      BY DEF OneFrame
    <2>1. stack[u][Old(u, i)].call = stack[v][Old(v, j)].call  BY <1>4
    <2>2. u = v /\ Old(u, i) = Old(v, j)  BY <2>1, <1>4 DEF Places, OneFrame
    <2>3. QED  BY <2>2, <1>5
  <1>7. Live'
    <2>1. ASSUME NEW u \in Thread, NEW i \in 1..Len(stack'[u]) PROVE stack'[u][i].call \notin back'
      <3>1. stack[u][Old(u, i)].call \notin back  BY <1>4 DEF Places, Live
      <3>2. stack[u][Old(u, i)].call # stack[t][1].call  BY <1>3, <1>4 DEF Places, OneFrame
      <3>3. QED  BY <3>1, <3>2, <1>4
    <2>2. ASSUME NEW c \in Promise!Call, size[c] # 0, c \notin back'
          PROVE  \E u \in Thread : \E i \in 1..Len(stack'[u]) : stack'[u][i].call = c
      <3>1. PICK u \in Thread : \E i \in 1..Len(stack[u]) : stack[u][i].call = c  BY <2>2 DEF Places, Live
      <3>2. PICK i \in 1..Len(stack[u]) : stack[u][i].call = c  BY <3>1
      <3>3. CASE u # t  BY <3>2, <3>3, <1>1
      <3>4. CASE u = t
        <4>1. i # 1  BY <3>2, <3>4, <2>2
        <4>2. i - 1 \in 1..Len(stack'[t]) /\ i - 1 + 1 = i  BY <4>1, <3>4, <1>1, <1>2
        <4>3. stack'[t][i - 1] = stack[t][i]  BY <4>2, <1>1
        <4>4. QED  BY <4>2, <4>3, <3>2, <3>4
      <3>5. QED  BY <3>3, <3>4
    <2>3. \A c \in back' : size'[c] # 0  BY DEF Places, Live
    <2>4. QED  BY <2>1, <2>2, <2>3 DEF Live
  <1>8. OneDivided'
    <2>1. ASSUME NEW u \in Thread, NEW i \in 1..Len(stack'[u])
          PROVE  /\ i # 1 \/ stack'[u][i].n = 1 => stack'[u][i].at = "func"
                 /\ stack'[u][i].n = 2 => u = "main"
      <3>1. CASE u = t
        <4>1. i + 1 \in 1..Len(stack[t]) /\ stack'[t][i] = stack[t][i + 1] /\ i + 1 # 1
          <5>1. Len(stack'[t]) \in Int  BY <1>1, <1>2
          <5>2. i \in 1..Len(stack'[t]) /\ i \in Int /\ i >= 1  BY <3>1, <5>1
          <5>3. QED  BY <5>2, <1>1
        <4>2. QED  BY <4>1, <3>1 DEF Places, OneDivided
      <3>2. CASE u # t  BY <3>2, <1>1 DEF Places, OneDivided
      <3>3. QED  BY <3>1, <3>2
    <2>2. "main" \in Thread  BY DEF Thread
    <2>3. \A i, j \in 1..Len(stack'["main"]) : stack'["main"][i].n = 2 /\ stack'["main"][j].n = 2 => i = j
      BY <2>2, <1>4, <1>5 DEF Places, OneDivided
    <2>4. QED  BY <2>1, <2>3 DEF OneDivided
  <1>9. Nested'
    <2> SUFFICES ASSUME NEW u \in Thread, NEW i \in 1..Len(stack'[u])
                 PROVE  IF Parent(u, i)' = None THEN Promise!IsOuter(stack'[u][i].call)
                        ELSE stack'[u][i].call = Promise!Inner(Parent(u, i)')
      BY DEF Nested
    <2>1. Parent(u, i)' = Parent(u, Old(u, i))
      <3>1. CASE u # t
        <4>1. Old(u, i) = i  BY <3>1 DEF Old
        <4>2. QED  BY <4>1, <3>1, <1>1 DEF Parent, None
      <3>2. CASE u = t
        <4>1. i \in 1..Len(stack'[t]) /\ Old(u, i) = i + 1 /\ i \in Int /\ i >= 1 /\ Len(stack'[t]) \in Int
          <5>1. Len(stack'[t]) \in Int  BY <1>1, <1>2
          <5>2. QED  BY <3>2, <5>1 DEF Old
        <4>2. CASE i < Len(stack'[t])
          <5>1. i + 1 \in 1..Len(stack'[t]) /\ i + 1 < Len(stack[t])  BY <4>1, <4>2, <1>1, <1>2
          <5>2. stack'[t][i + 1] = stack[t][i + 1 + 1]  BY <5>1, <1>1
          <5>3. QED  BY <5>1, <5>2, <4>1, <4>2, <3>2 DEF Parent
        <4>3. CASE ~ (i < Len(stack'[t]))
          <5>1. ~ (i + 1 < Len(stack[t]))  BY <4>1, <4>3, <1>1, <1>2
          <5>2. QED  BY <5>1, <4>1, <4>3, <3>2 DEF Parent, None
        <4>4. QED  BY <4>2, <4>3
      <3>3. QED  BY <3>1, <3>2
    <2>2. Old(u, i) \in 1..Len(stack[u]) /\ stack'[u][i].call = stack[u][Old(u, i)].call  BY <1>4
    <2>3. QED  BY <2>1, <2>2 DEF Places, Nested
  <1>10. QED  BY <1>6, <1>7, <1>8, <1>9 DEF Places

(* A call made by a share that runs, or by the emulation alone.            *)
LEMMA PushPlaces ==
  ASSUME NEW t \in Thread, NEW y \in Frame, Types, Places, AllRight,
         stack' = [stack EXCEPT ![t] = <<y>> \o stack[t]],
         size[y.call] = 0, size' = [size EXCEPT ![y.call] = y.n], UNCHANGED <<back, work>>,
         stack[t] # <<>> => stack[t][1].at = "func",
         y.n = 1 => y.at = "func",
         y.n = 2 => t = "main" /\ \A i \in 1..Len(stack["main"]) : stack["main"][i].n # 2,
         \/ t = "main" /\ stack[t] = <<>> /\ Promise!IsOuter(y.call)
         \/ Running(t) # None /\ y.call = Promise!Inner(Running(t))
  PROVE  Places'
  <1> DEFINE Old(u, i) == IF u = t THEN i - 1 ELSE i
             New(u, i) == u = t /\ i = 1
  <1>1. /\ \A u \in Thread : u # t => stack'[u] = stack[u]
        /\ Len(stack'[t]) = Len(stack[t]) + 1 /\ stack'[t][1] = y
        /\ \A i \in 2..Len(stack'[t]) : i - 1 \in 1..Len(stack[t]) /\ stack'[t][i] = stack[t][i - 1]
        /\ \A i \in 1..Len(stack[t]) : i + 1 \in 1..Len(stack'[t]) /\ stack'[t][i + 1] = stack[t][i]
    BY PushIs
  <1>2. \A u \in Thread : Len(stack[u]) \in Nat /\ Len(stack'[u]) \in Nat
    <2>1. \A u \in Thread : Len(stack[u]) \in Nat  BY StackIs
    <2>2. QED  BY <2>1, <1>1
  <1>3. y.call \in Promise!Call /\ y.n \in {1, 2}  BY DEF Frame
  <1>4. ASSUME NEW u \in Thread, NEW i \in 1..Len(stack'[u])
        PROVE  \/ New(u, i) /\ stack'[u][i] = y
               \/ ~ New(u, i) /\ Old(u, i) \in 1..Len(stack[u]) /\ stack'[u][i] = stack[u][Old(u, i)]
    <2>1. CASE u = t /\ i = 1  BY <2>1, <1>1
    <2>2. CASE u = t /\ i # 1
      <3>1. i \in 2..Len(stack'[t])  BY <2>2, <1>2
      <3>2. QED  BY <3>1, <2>2, <1>1
    <2>3. CASE u # t  BY <2>3, <1>1
    <2>4. QED  BY <2>1, <2>2, <2>3
  <1>5. ASSUME NEW u \in Thread, NEW i \in 1..Len(stack[u])
        PROVE  \E j \in 1..Len(stack'[u]) : stack'[u][j] = stack[u][i]
    <2>1. CASE u = t  BY <2>1, <1>1
    <2>2. CASE u # t  BY <2>2, <1>1
    <2>3. QED  BY <2>1, <2>2
  <1>6. ASSUME NEW u \in Thread, NEW i \in 1..Len(stack'[u]), NEW j \in 1..Len(stack'[u]), Old(u, i) = Old(u, j)
        PROVE  i = j
    <2>1. i \in Int /\ j \in Int  BY <1>2
    <2>2. QED  BY <2>1, <1>6
  <1>7. ASSUME NEW u \in Thread, NEW i \in 1..Len(stack[u])
        PROVE  stack[u][i].call \in Promise!Call /\ size[stack[u][i].call] # 0 /\ stack[u][i].call # y.call
    <2>1. stack[u][i].call \in Promise!Call /\ stack[u][i].n \in {1, 2}  BY StackIs
    <2>2. stack[u][i].n = size[stack[u][i].call]
      <3>1. Right(stack[u][i])  BY DEF AllRight
      <3>2. QED  BY <3>1 DEF Right
    <2>3. QED  BY <2>1, <2>2
  <1> HIDE DEF Old
  <1>8. OneFrame'
    <2> SUFFICES ASSUME NEW u \in Thread, NEW v \in Thread, NEW i \in 1..Len(stack'[u]), NEW j \in 1..Len(stack'[v]),
                        stack'[u][i].call = stack'[v][j].call
                 PROVE  u = v /\ i = j
      BY DEF OneFrame
    <2>1. CASE New(u, i) /\ New(v, j)  BY <2>1
    <2>2. CASE New(u, i) /\ ~ New(v, j)  BY <2>2, <1>4, <1>7
    <2>3. CASE ~ New(u, i) /\ New(v, j)  BY <2>3, <1>4, <1>7
    <2>4. CASE ~ New(u, i) /\ ~ New(v, j)
      <3>1. Old(u, i) \in 1..Len(stack[u]) /\ stack'[u][i] = stack[u][Old(u, i)]  BY <2>4, <1>4
      <3>2. Old(v, j) \in 1..Len(stack[v]) /\ stack'[v][j] = stack[v][Old(v, j)]  BY <2>4, <1>4
      <3>3. stack[u][Old(u, i)].call = stack[v][Old(v, j)].call  BY <3>1, <3>2
      <3>4. \A k \in 1..Len(stack[u]), l \in 1..Len(stack[v]) :
               stack[u][k].call = stack[v][l].call => u = v /\ k = l
        BY DEF Places, OneFrame
      <3>5. u = v /\ Old(u, i) = Old(v, j)  BY <3>1, <3>2, <3>3, <3>4
      <3>6. QED  BY <3>5, <1>6
    <2>5. QED  BY <2>1, <2>2, <2>3, <2>4
  <1>9. Live'
    <2>1. size'[y.call] # 0 /\ \A c \in Promise!Call : c # y.call => size'[c] = size[c]
      <3>1. y.n # 0  BY <1>3
      <3>2. QED  BY <3>1, <1>3 DEF Types
    <2>2. ASSUME NEW u \in Thread, NEW i \in 1..Len(stack'[u]) PROVE stack'[u][i].call \notin back'
      <3>1. y.call \notin back  BY DEF Places, Live
      <3>2. QED  BY <3>1, <1>4 DEF Places, Live
    <2>3. ASSUME NEW c \in Promise!Call, size'[c] # 0, c \notin back
          PROVE  \E u \in Thread : \E i \in 1..Len(stack'[u]) : stack'[u][i].call = c
      <3>1. CASE c = y.call
        <4>1. 1 \in 1..Len(stack'[t])  BY <1>1, <1>2
        <4>2. QED  BY <4>1, <3>1, <1>1
      <3>2. CASE c # y.call
        <4>1. PICK u \in Thread : \E i \in 1..Len(stack[u]) : stack[u][i].call = c
          BY <2>1, <2>3, <3>2 DEF Places, Live
        <4>2. QED  BY <4>1, <1>5
      <3>3. QED  BY <3>1, <3>2
    <2>4. \A c \in back' : size'[c] # 0  BY DEF Places, Live, Types
    <2>5. QED  BY <2>2, <2>3, <2>4 DEF Live
  <1>10. OneDivided'
    <2>1. ASSUME NEW u \in Thread, NEW i \in 1..Len(stack'[u])
          PROVE  /\ i # 1 \/ stack'[u][i].n = 1 => stack'[u][i].at = "func"
                 /\ stack'[u][i].n = 2 => u = "main"
      <3>1. CASE New(u, i)  BY <3>1, <1>4
      <3>2. CASE ~ New(u, i)
        <4>1. Old(u, i) \in 1..Len(stack[u]) /\ stack'[u][i] = stack[u][Old(u, i)]  BY <3>2, <1>4
        <4>2. stack[u][Old(u, i)].n = 2 => u = "main"  BY <4>1 DEF Places, OneDivided
        <4>3. stack[u][Old(u, i)].n = 1 \/ Old(u, i) # 1 => stack[u][Old(u, i)].at = "func"
          BY <4>1 DEF Places, OneDivided
        <4>4. CASE u = t
          <5>1. stack[t] # <<>>
            <6>1. Len(stack[t]) # 0  BY <4>1, <4>4, <1>2
            <6>2. QED  BY <6>1
          <5>2. stack[u][Old(u, i)].at = "func"  BY <5>1, <4>1, <4>3, <4>4 DEF Places, OneDivided
          <5>3. QED  BY <5>2, <4>1, <4>2
        <4>5. CASE u # t
          <5>1. Old(u, i) = i  BY <4>5 DEF Old
          <5>2. QED  BY <5>1, <4>1, <4>2, <4>3
        <4>6. QED  BY <4>4, <4>5
      <3>3. QED  BY <3>1, <3>2
    <2>2. ASSUME NEW i \in 1..Len(stack'["main"]), NEW j \in 1..Len(stack'["main"]),
                 stack'["main"][i].n = 2, stack'["main"][j].n = 2
          PROVE  i = j
      <3>1. "main" \in Thread  BY DEF Thread
      <3>2. CASE New("main", i) /\ New("main", j)  BY <3>2
      <3>3. CASE New("main", i) /\ ~ New("main", j)  BY <3>3, <3>1, <2>2, <1>4
      <3>4. CASE ~ New("main", i) /\ New("main", j)  BY <3>4, <3>1, <2>2, <1>4
      <3>5. CASE ~ New("main", i) /\ ~ New("main", j)
        <4>1. /\ Old("main", i) \in 1..Len(stack["main"])
              /\ stack["main"][Old("main", i)].n = 2
          <5>1. stack'["main"][i] = stack["main"][Old("main", i)]  BY <3>5, <3>1, <1>4
          <5>2. Old("main", i) \in 1..Len(stack["main"])  BY <3>5, <3>1, <1>4
          <5>3. QED  BY <5>1, <5>2, <2>2
        <4>2. /\ Old("main", j) \in 1..Len(stack["main"])
              /\ stack["main"][Old("main", j)].n = 2
          <5>1. stack'["main"][j] = stack["main"][Old("main", j)]  BY <3>5, <3>1, <1>4
          <5>2. Old("main", j) \in 1..Len(stack["main"])  BY <3>5, <3>1, <1>4
          <5>3. QED  BY <5>1, <5>2, <2>2
        <4>3. \A k, l \in 1..Len(stack["main"]) :
                 stack["main"][k].n = 2 /\ stack["main"][l].n = 2 => k = l
          BY DEF Places, OneDivided
        <4>4. Old("main", i) = Old("main", j)  BY <4>1, <4>2, <4>3
        <4>5. QED  BY <4>4, <3>1, <1>6
      <3>6. QED  BY <3>2, <3>3, <3>4, <3>5
    <2>3. QED  BY <2>1, <2>2 DEF OneDivided
  <1>11. Nested'
    <2> SUFFICES ASSUME NEW u \in Thread, NEW i \in 1..Len(stack'[u])
                 PROVE  IF Parent(u, i)' = None THEN Promise!IsOuter(stack'[u][i].call)
                        ELSE stack'[u][i].call = Promise!Inner(Parent(u, i)')
      BY DEF Nested
    <2>1. i \in Int /\ i >= 1  BY <1>2
    <2>2. CASE New(u, i)
      <3>1. Parent(u, i)' = IF stack[t] = <<>> /\ t = "main" THEN None ELSE Running(t)
        <4>1. CASE stack[t] = <<>>
          <5>1. ~ (1 < Len(stack'[t]))  BY <4>1, <1>1
          <5>2. Parent(u, i)' = IF t = "main" THEN None ELSE work  BY <5>1, <2>2 DEF Parent, None
          <5>3. t # "main" => Running(t) # None  OBVIOUS
          <5>4. t # "main" => Running(t) = work  BY <5>3, <4>1 DEF Running
          <5>5. QED  BY <5>2, <5>4, <4>1
        <4>2. CASE stack[t] # <<>>
          <5>1. 1 \in 1..Len(stack[t]) /\ Head(stack[t]) = stack[t][1]  BY <4>2, StackIs
          <5>2. 1 < Len(stack'[t]) /\ stack'[t][1 + 1] = stack[t][1]  BY <5>1, <1>1, <1>2
          <5>3. Parent(u, i)' = <<stack[t][1].call, 0>>  BY <5>2, <2>2 DEF Parent
          <5>4. Running(t) = <<stack[t][1].call, 0>>  BY <5>1, <4>2 DEF Running
          <5>5. QED  BY <5>3, <5>4, <4>2
        <4>3. QED  BY <4>1, <4>2
      <3>2. CASE stack[t] = <<>> /\ t = "main"
        <4>1. Running(t) = None  BY <3>2 DEF Running
        <4>2. Promise!IsOuter(y.call)  BY <4>1
        <4>3. QED  BY <4>2, <3>1, <3>2, <2>2, <1>4
      <3>3. CASE ~ (stack[t] = <<>> /\ t = "main")
        <4>1. Running(t) # None /\ y.call = Promise!Inner(Running(t))  BY <3>3
        <4>2. QED  BY <4>1, <3>1, <3>3, <2>2, <1>4
      <3>4. QED  BY <3>2, <3>3
    <2>3. CASE ~ New(u, i)
      <3>1. Old(u, i) \in 1..Len(stack[u]) /\ stack'[u][i] = stack[u][Old(u, i)]  BY <2>3, <1>4
      <3>2. Parent(u, i)' = Parent(u, Old(u, i))
        <4>1. CASE u # t
          <5>1. Old(u, i) = i  BY <4>1 DEF Old
          <5>2. QED  BY <5>1, <4>1, <1>1 DEF Parent, None
        <4>2. CASE u = t
          <5>1. Old(u, i) = i - 1 /\ i \in 2..Len(stack'[t])
            <6>1. i # 1  BY <2>3, <4>2
            <6>2. QED  BY <6>1, <4>2, <2>1, <1>2 DEF Old
          <5>2. CASE i < Len(stack'[t])
            <6>1. i + 1 \in 2..Len(stack'[t]) /\ i - 1 < Len(stack[t]) /\ i + 1 - 1 = i /\ i - 1 + 1 = i
              BY <5>1, <5>2, <1>1, <1>2
            <6>2. stack'[t][i + 1] = stack[t][i]  BY <6>1, <1>1
            <6>3. QED  BY <6>1, <6>2, <5>1, <5>2, <4>2 DEF Parent
          <5>3. CASE ~ (i < Len(stack'[t]))
            <6>1. ~ (i - 1 < Len(stack[t]))  BY <5>1, <5>3, <1>1, <1>2
            <6>2. QED  BY <6>1, <5>1, <5>3, <4>2 DEF Parent, None
          <5>4. QED  BY <5>2, <5>3
        <4>3. QED  BY <4>1, <4>2
      <3>3. QED  BY <3>1, <3>2 DEF Places, Nested
    <2>4. QED  BY <2>2, <2>3
  <1>12. QED  BY <1>8, <1>9, <1>10, <1>11 DEF Places

---------------------------------------------------------------------------
(* A call is a pair, and its path a sequence.                              *)
LEMMA PathIsSeq == \A c \in Promise!Call : c = <<c[1], c[2]>> /\ c[2] \in Seq(Int)
  <1> SUFFICES ASSUME NEW c \in Promise!Call PROVE c = <<c[1], c[2]>> /\ c[2] \in Seq(Int)
    OBVIOUS
  <1>1. c = <<c[1], c[2]>> /\ c[2] \in Promise!Path  BY DEF Promise!Call
  <1>2. MaxWide \in Nat /\ MaxDepth \in Nat /\ MaxShares \in Nat  BY BoundsAssumption
  <1>3. Promise!Number \subseteq Int  BY <1>2 DEF Promise!Number
  <1>4. \A d \in Nat : [1..d -> Int] \subseteq Seq(Int)  BY SeqDef
  <1>5. CASE \E d \in 0..MaxWide : c[2] \in [1..d -> Promise!Number]
    <2>1. PICK d \in 0..MaxWide : c[2] \in [1..d -> Promise!Number]  BY <1>5
    <2>2. d \in Nat /\ c[2] \in [1..d -> Int]
      <3>1. d \in Nat  BY <2>1, <1>2
      <3>2. [1..d -> Promise!Number] \subseteq [1..d -> Int]  BY <1>3
      <3>3. QED  BY <2>1, <3>1, <3>2
    <2>3. QED  BY <2>2, <1>1, <1>4
  <1>6. CASE \E d \in 0..MaxDepth : c[2] = [i \in 1..d |-> MaxShares - 1]
    <2>1. PICK d \in 0..MaxDepth : c[2] = [i \in 1..d |-> MaxShares - 1]  BY <1>6
    <2>2. d \in Nat /\ MaxShares - 1 \in Int  BY <1>2
    <2>3. c[2] \in [1..d -> Int]  BY <2>1, <2>2
    <2>4. QED  BY <2>2, <2>3, <1>1, <1>4
  <1>7. \/ \E d \in 0..MaxWide : c[2] \in [1..d -> Promise!Number]
        \/ \E d \in 0..MaxDepth : c[2] = [i \in 1..d |-> MaxShares - 1]
    BY <1>1, Zenon DEF Promise!Path
  <1>8. QED  BY <1>1, <1>5, <1>6, <1>7

LEMMA ItemIsSome == \A s \in Item : s # None /\ s[1] \in Promise!Call /\ s[2] \in Nat /\ s = <<s[1], s[2]>>
  BY DEF Item, None

LEMMA CallIsSome == \A c \in Promise!Call : c # None
  <1>1. \A c \in Promise!Call : c = <<c[1], c[2]>>  BY PathIsSeq
  <1>2. QED  BY <1>1 DEF None

(* Two shares do not make the same call, and none makes an outer one.      *)
LEMMA InnerIsOne ==
  /\ \A s, r \in Item : Promise!Inner(s) = Promise!Inner(r) => s = r
  /\ \A s \in Item : ~ Promise!IsOuter(Promise!Inner(s))
  <1>1. ASSUME NEW s \in Item PROVE Promise!Inner(s)[2] # <<>>
    <2>1. s[1][2] \in Seq(Int) /\ s[2] \in Int  BY PathIsSeq, ItemIsSome
    <2>2. Append(s[1][2], s[2]) # <<>>  BY <2>1
    <2>3. QED  BY <2>2 DEF Promise!Inner
  <1>2. ASSUME NEW s \in Item, NEW r \in Item, Promise!Inner(s) = Promise!Inner(r) PROVE s = r
    <2> DEFINE p == s[1][2]
               q == r[1][2]
               a == s[2]
               b == r[2]
    <2>1. p \in Seq(Int) /\ q \in Seq(Int) /\ a \in Int /\ b \in Int  BY PathIsSeq, ItemIsSome
    <2>2. s[1][1] = r[1][1] /\ Append(p, a) = Append(q, b)  BY <1>2 DEF Promise!Inner
    <2>3. p = q /\ a = b
      <3> HIDE DEF p, q, a, b
      <3>1. /\ Len(Append(p, a)) = Len(p) + 1 /\ Append(p, a)[Len(p) + 1] = a
            /\ \A i \in 1..Len(p) : Append(p, a)[i] = p[i]
        BY <2>1
      <3>2. /\ Len(Append(q, b)) = Len(q) + 1 /\ Append(q, b)[Len(q) + 1] = b
            /\ \A i \in 1..Len(q) : Append(q, b)[i] = q[i]
        BY <2>1
      <3>3. Len(p) = Len(q) /\ a = b  BY <2>1, <2>2, <3>1, <3>2
      <3>4. \A i \in 1..Len(p) : p[i] = q[i]  BY <2>2, <3>1, <3>2, <3>3
      <3>5. p = q  BY <2>1, <3>3, <3>4, SeqEqual
      <3>6. QED  BY <3>3, <3>5
    <2>4. s[1] = <<s[1][1], p>> /\ r[1] = <<r[1][1], q>> /\ s = <<s[1], a>> /\ r = <<r[1], b>>
      BY PathIsSeq, ItemIsSome
    <2> HIDE DEF p, q, a, b
    <2>5. QED  BY <2>2, <2>3, <2>4
  <1>3. QED  BY <1>1, <1>2 DEF Promise!IsOuter

---------------------------------------------------------------------------
(* What each step keeps.                                                   *)

(* What is known of a call is kept when its shares and the companion are.  *)
LEMMA RightKept ==
  ASSUME NEW f \in Frame, Right(f), size'[f.call] = size[f.call],
         begun \subseteq begun', ended \subseteq ended',
         f.at \in {"claim", "post"} => \A s \in begun' \ begun : s[1] # f.call,
         f.at = "func" => <<f.call, 0>> \notin ended' \ ended,
         f.n = 2 => /\ thread_func' = thread_func \/ (thread_func' = None /\ <<f.call, 1>> \in ended')
                    /\ thread_inuse' = thread_inuse
  PROVE  Right(f)'
  BY DEF Right

(* The calls stay at their places.                                         *)
LEMMA AllRightKept ==
  ASSUME Types, AllRight, stack' = stack,
         \A u \in Thread : \A i \in 1..Len(stack[u]) : Right(stack[u][i]) => Right(stack[u][i])'
  PROVE  AllRight'
  BY DEF AllRight

(* What is known of each call after a step.                                *)
LEMMA AllRightAfter ==
  ASSUME \A u \in Thread : \A i \in 1..Len(stack'[u]) : \E f \in Frame : f = stack'[u][i] /\ Right(f)'
  PROVE  AllRight'
  <1> SUFFICES ASSUME NEW u \in Thread, NEW i \in 1..Len(stack'[u]) PROVE Right(stack[u][i])'
    BY DEF AllRight
  <1>1. PICK f \in Frame : f = stack'[u][i] /\ Right(f)'  OBVIOUS
  <1>2. QED  BY <1>1 DEF Right

LEMMA InitHalves == Init => Halves
  <1> SUFFICES ASSUME Init PROVE Halves  OBVIOUS
  <1>1. \A t \in Thread : stack[t] = <<>> /\ Len(stack[t]) = 0 /\ 1..Len(stack[t]) = {}  BY DEF Init
  <1>2. "main" \in Thread /\ "companion" \in Thread  BY DEF Thread
  <1>3. size = [c \in Promise!Call |-> 0] /\ begun = {} /\ ended = {} /\ back = {}
    BY DEF Init, Promise!Init
  <1>4. Types
    <2>1. stack \in [Thread -> Seq(Frame)]  BY DEF Init
    <2>2. size \in [Promise!Call -> 0..MaxShares]  BY <1>3, BoundsAssumption
    <2>3. QED  BY <2>1, <2>2, <1>3 DEF Init, Types
  <1>5. Places
    <2>1. OneFrame /\ Nested  BY <1>1 DEF OneFrame, Nested
    <2>2. OneDivided  BY <1>1, <1>2 DEF OneDivided
    <2>3. Live  BY <1>1, <1>3 DEF Live
    <2>4. QED  BY <2>1, <2>2, <2>3 DEF Places
  <1>6. AllRight  BY <1>1 DEF AllRight
  <1>7. Second  BY <1>2, <1>3 DEF Second, Init
  <1>8. QED  BY <1>4, <1>5, <1>6, <1>7 DEF Halves

(* Steps that change only who waits.                                       *)
LEMMA StayHalves ==
  ASSUME Halves,
         UNCHANGED <<size, begun, ended, back, thread_func, thread_arg, thread_inuse, work, stack>>,
         \/ pc' = pc
         \/ pc \in {"top", "sleep", "exited"} /\ pc' \in {"top", "sleep", "exited"}
         \/ pc \in {"top", "sleep", "exited"} /\ pc' = "call" /\ thread_func # None
  PROVE  Halves'
  <1>1. Types'  BY DEF Halves, Types
  <1>2. Places'  BY SamePlaces DEF Halves
  <1>3. AllRight'
    <2>1. \A u \in Thread : \A i \in 1..Len(stack[u]) : Right(stack[u][i]) => Right(stack[u][i])'
      BY DEF Right
    <2>2. QED  BY <2>1, AllRightKept DEF Halves
  <1>4. Second'  BY DEF Halves, Second
  <1>5. QED  BY <1>1, <1>2, <1>3, <1>4 DEF Halves

(* Who may call: the emulation alone, or a share that runs.                *)
LEMMA CallableIs ==
  ASSUME NEW t \in Thread, Halves, NEW c \in Callable(t)
  PROVE  /\ c \in Promise!Call /\ size[c] = 0
         /\ stack[t] # <<>> => stack[t][1].at = "func"
         /\ \/ t = "main" /\ stack[t] = <<>> /\ Promise!IsOuter(c)
            \/ Running(t) # None /\ c = Promise!Inner(Running(t))
         /\ t = "companion" => pc = "func"
  <1>1. c \in Promise!Call /\ size[c] = 0  BY DEF Callable
  <1>2. \/ t = "main" /\ stack[t] = <<>> /\ Promise!IsOuter(c)
        \/ Running(t) # None /\ c = Promise!Inner(Running(t))
    BY DEF Callable
  <1>3. stack[t] # <<>> => stack[t][1].at = "func"
    <2>1. stack[t] # <<>> => Head(stack[t]) = stack[t][1]  BY StackIs DEF Halves
    <2>2. QED  BY <2>1, <1>2 DEF Running
  <1>4. t = "companion" => pc = "func"  BY <1>2 DEF Running, Halves, Second
  <1>5. QED  BY <1>1, <1>2, <1>3, <1>4

(* A call is divided only if no other is.                                  *)
LEMMA NoneDivided ==
  ASSUME NEW t \in Thread, Halves, NEW c \in Callable(t), ~thread_inuse
  PROVE  t = "main" /\ \A i \in 1..Len(stack["main"]) : stack["main"][i].n # 2
  <1>1. "main" \in Thread /\ Types  BY DEF Thread, Halves
  <1>2. ASSUME NEW i \in 1..Len(stack["main"]), stack["main"][i].n = 2
        PROVE  i = 1 /\ stack["main"][1].at = "claim" /\ thread_func = None
    <2>1. Right(stack["main"][i])  BY <1>1 DEF Halves, AllRight
    <2>2. stack["main"][i].at = "claim" /\ thread_func = None  BY <2>1, <1>2 DEF Right
    <2>3. i = 1  BY <2>2, <1>1 DEF Halves, Places, OneDivided
    <2>4. QED  BY <2>2, <2>3
  <1>3. t = "main"
    <2>1. SUFFICES ASSUME t = "companion" PROVE FALSE  BY DEF Thread
    <2>2. thread_func # None  BY <2>1, CallableIs DEF Halves, Second
    <2>3. \E i \in 1..Len(stack["main"]) : stack["main"][i].n = 2  BY <2>2 DEF Halves, Second
    <2>4. QED  BY <2>2, <2>3, <1>2
  <1>4. ASSUME NEW i \in 1..Len(stack["main"]), stack["main"][i].n = 2 PROVE FALSE
    <2>1. stack["main"][1].at = "claim" /\ i = 1  BY <1>2, <1>4
    <2>2. Len(stack["main"]) # 0  BY <2>1, <1>1, StackIs
    <2>3. stack["main"] # <<>>  BY <2>2
    <2>4. QED  BY <2>1, <2>3, <1>3, CallableIs
  <1>5. QED  BY <1>3, <1>4

LEMMA CallIs ==
  ASSUME NEW t \in Thread, Halves, Parallelize(t)
  PROVE  \E c \in Callable(t), y \in Frame :
            /\ y.call = c /\ size' = [size EXCEPT ![c] = y.n] /\ stack' = [stack EXCEPT ![t] = <<y>> \o stack[t]]
            /\ \/ y.n = 1 /\ y.at = "func" /\ begun' = begun \union {<<c, 0>>}
               \/ y.n = 2 /\ y.at = "claim" /\ begun' = begun /\ ~thread_inuse
  <1>1. PICK c \in Callable(t), active \in BOOLEAN, max \in 1..MaxShares :
        IF Divided(active, max)
        THEN /\ Push(t, c, 2, "claim")
             /\ size' = [size EXCEPT ![c] = 2] /\ UNCHANGED begun
        ELSE /\ Push(t, c, 1, "func")
             /\ size' = [size EXCEPT ![c] = 1] /\ begun' = begun \union {<<c, 0>>}
    BY DEF Parallelize
  <1>2. c \in Promise!Call  BY CallableIs
  <1>3. CASE Divided(active, max)
    <2>0. [call |-> c, n |-> 2, at |-> "claim"] \in Frame  BY <1>2 DEF Frame
    <2>1. PICK y \in Frame : y = [call |-> c, n |-> 2, at |-> "claim"]  BY <2>0
    <2>2. stack' = [stack EXCEPT ![t] = <<y>> \o stack[t]]  BY <2>1, <1>1, <1>3 DEF Push
    <2>3. QED  BY <2>1, <2>2, <1>1, <1>3 DEF Divided
  <1>4. CASE ~ Divided(active, max)
    <2>0. [call |-> c, n |-> 1, at |-> "func"] \in Frame  BY <1>2 DEF Frame
    <2>1. PICK y \in Frame : y = [call |-> c, n |-> 1, at |-> "func"]  BY <2>0
    <2>2. stack' = [stack EXCEPT ![t] = <<y>> \o stack[t]]  BY <2>1, <1>1, <1>4 DEF Push
    <2>3. QED  BY <2>1, <2>2, <1>1, <1>4
  <1>5. QED  BY <1>3, <1>4

LEMMA CallHalves ==
  ASSUME NEW t \in Thread, Halves, Parallelize(t)
  PROVE  Halves'
  <1>1. PICK c \in Callable(t), y \in Frame :
            /\ y.call = c /\ size' = [size EXCEPT ![c] = y.n] /\ stack' = [stack EXCEPT ![t] = <<y>> \o stack[t]]
            /\ \/ y.n = 1 /\ y.at = "func" /\ begun' = begun \union {<<c, 0>>}
               \/ y.n = 2 /\ y.at = "claim" /\ begun' = begun /\ ~thread_inuse
    BY CallIs
  <1>2. UNCHANGED <<ended, back, thread_func, thread_arg, thread_inuse, pc, func, work>>
    BY DEF Parallelize, signals, proc
  <1>3. /\ c \in Promise!Call /\ size[c] = 0
        /\ stack[t] # <<>> => stack[t][1].at = "func"
        /\ \/ t = "main" /\ stack[t] = <<>> /\ Promise!IsOuter(c)
           \/ Running(t) # None /\ c = Promise!Inner(Running(t))
        /\ t = "companion" => pc = "func"
    BY CallableIs
  <1>4. y.n = 2 => t = "main" /\ \A i \in 1..Len(stack["main"]) : stack["main"][i].n # 2
    BY <1>1, NoneDivided
  <1>5. /\ stack' \in [Thread -> Seq(Frame)]
        /\ \A u \in Thread : u # t => stack'[u] = stack[u]
        /\ Len(stack'[t]) = Len(stack[t]) + 1 /\ stack'[t][1] = y
        /\ \A i \in 2..Len(stack'[t]) : i - 1 \in 1..Len(stack[t]) /\ stack'[t][i] = stack[t][i - 1]
        /\ \A i \in 1..Len(stack[t]) : i + 1 \in 1..Len(stack'[t]) /\ stack'[t][i + 1] = stack[t][i]
    BY <1>1, PushIs DEF Halves
  <1>6. Places'
    <2>1. size[y.call] = 0 /\ size' = [size EXCEPT ![y.call] = y.n] /\ UNCHANGED <<back, work>>
      BY <1>1, <1>2, <1>3
    <2>2. \/ t = "main" /\ stack[t] = <<>> /\ Promise!IsOuter(y.call)
          \/ Running(t) # None /\ y.call = Promise!Inner(Running(t))
      BY <1>1, <1>3
    <2>3. Types /\ Places /\ AllRight  BY DEF Halves
    <2>4. y.n = 1 => y.at = "func"  BY <1>1
    <2>5. QED  BY <2>1, <2>2, <2>3, <2>4, <1>1, <1>3, <1>4, PushPlaces
  <1>7. size'[c] = y.n /\ \A d \in Promise!Call : d # c => size'[d] = size[d]
    BY <1>1, <1>3 DEF Halves, Types
  <1>8. PICK z \in Item : z = <<c, 0>>  BY <1>3 DEF Item
  <1>9. begun \subseteq begun' /\ begun' \subseteq begun \union {z} /\ (y.n = 1 => z \in begun')
        /\ (y.n = 2 => begun' = begun)
    BY <1>1, <1>8
  <1>10. \A s \in begun : s \in Item /\ s[1] \in Promise!Call /\ s[1] # c
    <2> SUFFICES ASSUME NEW s \in begun PROVE s \in Item /\ s[1] \in Promise!Call /\ s[1] # c  OBVIOUS
    <2>1. s \in Item  BY DEF Halves, Types
    <2>2. s[1] \in Promise!Call /\ s[2] \in Nat  BY <2>1, ItemIsSome
    <2>3. s[2] < size[s[1]]  BY DEF Halves, Second
    <2>4. QED  BY <2>1, <2>2, <2>3, <1>3
  <1>11. y.n \in {1, 2}  BY DEF Frame
  <1>12. Types'
    <2>1. size' \in [Promise!Call -> 0..MaxShares]
      <3>1. size \in [Promise!Call -> 0..MaxShares]  BY DEF Halves, Types
      <3>2. y.n \in 0..MaxShares  BY <1>11, BoundsAssumption, SharesAssumption
      <3>3. QED  BY <3>1, <3>2, <1>1
    <2>2. begun' \subseteq Item /\ ended' \subseteq begun'  BY <1>2, <1>9 DEF Halves, Types
    <2>3. QED  BY <2>1, <2>2, <1>2, <1>5 DEF Halves, Types
  <1>13. Right(y)'
    <2>1. y.n = size'[y.call]  BY <1>1, <1>7
    <2>2. CASE y.n = 1
      <3>1. z \notin begun  BY <1>8, <1>10
      <3>2. <<y.call, 0>> \in begun' \ ended'  BY <3>1, <2>2, <1>1, <1>2, <1>8, <1>9 DEF Halves, Types
      <3>3. y.at = "func"  BY <2>2, <1>1
      <3>4. QED  BY <3>2, <3>3, <2>1, <2>2 DEF Right
    <2>3. CASE y.n = 2
      <3>1. y.at = "claim" /\ ~thread_inuse /\ begun' = begun  BY <2>3, <1>1
      <3>2. \A s \in begun' : s[1] # y.call  BY <3>1, <1>1, <1>10
      <3>3. thread_func = None
        <4>1. SUFFICES ASSUME thread_func # None PROVE FALSE  OBVIOUS
        <4>2. \E i \in 1..Len(stack["main"]) : stack["main"][i].n = 2  BY <4>1 DEF Halves, Second
        <4>3. QED  BY <4>2, <2>3, <1>4
      <3>4. QED  BY <3>1, <3>2, <3>3, <2>1, <2>3, <1>2 DEF Right
    <2>4. QED  BY <2>2, <2>3, <1>11
  <1>14. ASSUME NEW f \in Frame, Right(f) PROVE Right(f)'
    <2>1. f.call \in Promise!Call /\ f.n \in {1, 2} /\ f.n = size[f.call]  BY <1>14 DEF Frame, Right
    <2>2. f.call # c  BY <2>1, <1>3
    <2>3. size'[f.call] = size[f.call]  BY <2>1, <2>2, <1>7
    <2>4. \A s \in begun' \ begun : s[1] # f.call  BY <2>2, <1>8, <1>9
    <2>5. QED  BY <2>3, <2>4, <1>2, <1>9, <1>14, RightKept
  <1>15. AllRight'
    <2> SUFFICES ASSUME NEW u \in Thread, NEW i \in 1..Len(stack'[u])
                 PROVE  \E f \in Frame : f = stack'[u][i] /\ Right(f)'
      BY AllRightAfter
    <2>1. \A v \in Thread : \A j \in 1..Len(stack[v]) : stack[v][j] \in Frame /\ Right(stack[v][j])
      BY StackIs DEF Halves, AllRight
    <2>2. \A v \in Thread : \A j \in 1..Len(stack[v]) : \E f \in Frame : f = stack[v][j] /\ Right(f)'
      <3> SUFFICES ASSUME NEW v \in Thread, NEW j \in 1..Len(stack[v])
                   PROVE  \E f \in Frame : f = stack[v][j] /\ Right(f)'
        OBVIOUS
      <3>1. PICK f \in Frame : f = stack[v][j]  BY <2>1
      <3>2. Right(f)  BY <3>1, <2>1
      <3>3. QED  BY <3>1, <3>2, <1>14
    <2>3. CASE u # t  BY <2>2, <2>3, <1>5
    <2>4. CASE u = t /\ i = 1  BY <2>4, <1>5, <1>13
    <2>5. CASE u = t /\ i # 1
      <3>1. Len(stack'[t]) \in Nat  BY <1>5, StackIs DEF Halves
      <3>2. i \in 2..Len(stack'[t])  BY <3>1, <2>5
      <3>3. QED  BY <3>2, <2>2, <2>5, <1>5
    <2>6. QED  BY <2>3, <2>4, <2>5
  <1>16. Second'
    <2>1. thread_func # None => <<thread_func, 1>> # z
      <3>1. 1 # 0  OBVIOUS
      <3>2. QED  BY <3>1, <1>8
    <2>2. \A s \in begun' : s[2] < size'[s[1]]
      <3> SUFFICES ASSUME NEW s \in begun' PROVE s[2] < size'[s[1]]  OBVIOUS
      <3>1. CASE s \in begun  BY <3>1, <1>7, <1>10 DEF Halves, Second
      <3>2. CASE s = z /\ y.n = 1  BY <3>2, <1>7, <1>8
      <3>3. QED  BY <3>1, <3>2, <1>9, <1>11
    <2>3. pc # "func" => stack'["companion"] = <<>>
      <3>1. pc # "func" => t # "companion" /\ stack["companion"] = <<>>  BY <1>3 DEF Halves, Second
      <3>2. QED  BY <3>1, <1>5 DEF Thread
    <2>4. ASSUME thread_func # None
          PROVE  \E i \in 1..Len(stack'["main"]) :
                    /\ stack'["main"][i].call = thread_func /\ stack'["main"][i].n = 2
                    /\ stack'["main"][i].at \in {"func", "wait", "sleep"}
      <3>1. PICK i \in 1..Len(stack["main"]) :
                    /\ stack["main"][i].call = thread_func /\ stack["main"][i].n = 2
                    /\ stack["main"][i].at \in {"func", "wait", "sleep"}
        BY <2>4 DEF Halves, Second
      <3>2. CASE t = "main"
        <4>1. i + 1 \in 1..Len(stack'["main"]) /\ stack'["main"][i + 1] = stack["main"][i]  BY <3>2, <1>5
        <4>2. QED  BY <4>1, <3>1
      <3>3. CASE t # "main"  BY <3>1, <3>3, <1>5 DEF Thread
      <3>4. QED  BY <3>2, <3>3
    <2>5. \A s \in begun' : s \in begun \/ s = z  BY <1>9
    <2>6. QED  BY <2>1, <2>2, <2>3, <2>4, <2>5, <1>2, <1>9 DEF Halves, Second
  <1>17. QED  BY <1>6, <1>12, <1>15, <1>16 DEF Halves

(* The divided call goes to another place.                                 *)
LEMMA GoHalves ==
  ASSUME NEW t \in Thread, NEW p \in {"post", "func", "wait", "sleep", "free"}, NEW x \in Frame, NEW y \in Frame,
         Halves, stack[t] # <<>>, x = stack[t][1], x.n = 2, Go(t, p), UNCHANGED <<size, back, pc, work>>,
         y.call = x.call, y.n = 2, y.at = p, Right(y)',
         thread_inuse' \in BOOLEAN,
         begun \subseteq begun', ended \subseteq ended', begun' \subseteq Item, ended' \subseteq begun',
         \A s \in (begun' \ begun) \union (ended' \ ended) : s[1] = x.call /\ s[2] = 0,
         \/ UNCHANGED <<thread_func, thread_arg>>
         \/ thread_func = None /\ thread_func' = x.call /\ thread_arg' = x.call /\ <<x.call, 1>> \notin begun',
         thread_func' # None => p \in {"func", "wait", "sleep"}
  PROVE  Halves'
  <1>1. Types /\ Places /\ AllRight /\ Second  BY DEF Halves
  <1>2. /\ x.call \in Promise!Call /\ 1 \in 1..Len(stack[t])
        /\ \A u \in Thread : \A i \in 1..Len(stack[u]) : stack[u][i] \in Frame
    BY <1>1, StackIs DEF Frame
  <1>3. /\ t = "main"
        /\ \A i \in 1..Len(stack["main"]) : stack["main"][i].n = 2 => i = 1
    <2>1. t = "main"  BY <1>1, <1>2 DEF Places, OneDivided
    <2>2. QED  BY <2>1, <1>1, <1>2 DEF Places, OneDivided
  <1>4. /\ stack' \in [Thread -> Seq(Frame)]
        /\ \A u \in Thread :
               /\ Len(stack'[u]) = Len(stack[u])
               /\ \A i \in 1..Len(stack[u]) :
                     /\ stack'[u][i].call = stack[u][i].call /\ stack'[u][i].n = stack[u][i].n
                     /\ stack'[u][i].at = IF u = t /\ i = 1 THEN p ELSE stack[u][i].at
                     /\ stack'[u][i] \in Frame /\ ((u = t /\ i = 1) \/ stack'[u][i] = stack[u][i])
    BY <1>1, GoIs
  <1>5. Types'
    <2>1. thread_func' \in Promise!Call \union {None} /\ thread_arg' \in Promise!Call \union {None}
      BY <1>1, <1>2 DEF Types
    <2>2. QED  BY <2>1, <1>1, <1>4 DEF Types
  <1>6. Places'  BY <1>1, GoPlaces
  <1>7. x.n = size[x.call]
    <2>1. Right(x)  BY <1>1, <1>2 DEF AllRight
    <2>2. QED  BY <2>1 DEF Right
  <1>8. AllRight'
    <2> SUFFICES ASSUME NEW u \in Thread, NEW i \in 1..Len(stack'[u])
                 PROVE  \E f \in Frame : f = stack'[u][i] /\ Right(f)'
      BY AllRightAfter
    <2>1. i \in 1..Len(stack[u])  BY <1>4
    <2>2. CASE u = t /\ i = 1
      <3>1. stack'[u][i] \in Frame /\ stack'[u][i].call = y.call /\ stack'[u][i].n = y.n /\ stack'[u][i].at = y.at
        BY <2>1, <2>2, <1>4
      <3>2. stack'[u][i] = y  BY <3>1 DEF Frame
      <3>3. QED  BY <3>2
    <2>3. CASE ~ (u = t /\ i = 1)
      <3>1. PICK f \in Frame : f = stack[u][i]  BY <2>1, <1>2
      <3>2. stack'[u][i] = f /\ Right(f)  BY <3>1, <2>1, <2>3, <1>1, <1>4 DEF AllRight
      <3>3. f.n = 1 /\ f.at = "func"
        <4>1. f.n = 2 => u = "main"  BY <3>1, <2>1, <1>1 DEF Places, OneDivided
        <4>2. f.n # 2  BY <4>1, <3>1, <2>1, <2>3, <1>3
        <4>3. f.n = 1  BY <4>2 DEF Frame
        <4>4. QED  BY <4>3, <3>1, <2>1, <1>1 DEF Places, OneDivided
      <3>4. f.call # x.call
        <4>1. SUFFICES ASSUME stack[u][i].call = stack[t][1].call PROVE FALSE  BY <3>1
        <4>2. u = t /\ i = 1  BY <4>1, <2>1, <1>1, <1>2 DEF Places, OneFrame
        <4>3. QED  BY <4>2, <2>3
      <3>5. <<f.call, 0>> \notin ended' \ ended
        <4>1. SUFFICES ASSUME <<f.call, 0>> \in ended' \ ended PROVE FALSE  OBVIOUS
        <4>2. <<f.call, 0>>[1] = x.call  BY <4>1
        <4>3. QED  BY <4>2, <3>4
      <3>6. Right(f)'
        <4>1. size'[f.call] = size[f.call]  OBVIOUS
        <4>2. f.n # 2 /\ f.at \notin {"claim", "post"}  BY <3>3
        <4>3. QED  BY <4>1, <4>2, <3>2, <3>5, RightKept
      <3>7. QED  BY <3>2, <3>6
    <2>4. QED  BY <2>2, <2>3
  <1>9. Second'
    <2>1. \A s \in begun' : s[2] < size'[s[1]]
      <3> SUFFICES ASSUME NEW s \in begun' PROVE s[2] < size[s[1]]  OBVIOUS
      <3>1. CASE s \in begun  BY <3>1, <1>1 DEF Second
      <3>2. CASE s \notin begun
        <4>1. s[1] = x.call /\ s[2] = 0  BY <3>2
        <4>2. QED  BY <4>1, <1>7
      <3>3. QED  BY <3>1, <3>2
    <2>2. ASSUME NEW c, <<c, 1>> \notin begun PROVE <<c, 1>> \notin begun'
      <3>1. SUFFICES ASSUME <<c, 1>> \in begun' \ begun PROVE FALSE  BY <2>2
      <3>2. <<c, 1>>[2] = 0  BY <3>1
      <3>3. QED  BY <3>2
    <2>3. ASSUME NEW c, <<c, 1>> \notin ended PROVE <<c, 1>> \notin ended'
      <3>1. SUFFICES ASSUME <<c, 1>> \in ended' \ ended PROVE FALSE  BY <2>3
      <3>2. <<c, 1>>[2] = 0  BY <3>1
      <3>3. QED  BY <3>2
    <2>4. pc \in {"call", "func", "end"} => thread_func # None /\ thread_func' = thread_func
      BY <1>1 DEF Second
    <2>5. pc \in {"top", "sleep", "exited"} => thread_func' = None \/ <<thread_func', 1>> \notin begun'
      <3>1. CASE thread_func' = thread_func  BY <3>1, <2>2, <1>1 DEF Second
      <3>2. CASE thread_func' # thread_func  BY <3>2
      <3>3. QED  BY <3>1, <3>2
    <2>6. /\ pc = "call" => <<thread_func', 1>> \notin begun'
          /\ pc = "func" => work = <<thread_func', 1>> /\ work \in begun' \ ended'
          /\ pc = "end" => <<thread_func', 1>> \in ended'
      BY <2>2, <2>3, <2>4, <1>1 DEF Second
    <2>7. pc # "func" => work = None /\ stack'["companion"] = <<>>
      <3>1. stack'["companion"] = stack["companion"]
        <4>1. stack' = [stack EXCEPT ![t] = stack'[t]]  BY <1>1 DEF Go, Types
        <4>2. "companion" # t  BY <1>3
        <4>3. QED  BY <4>1, <4>2, <1>1 DEF Types, Thread
      <3>2. QED  BY <3>1, <1>1 DEF Second
    <2>8. ASSUME thread_func' # None
          PROVE  /\ thread_arg' = thread_func'
                 /\ \E i \in 1..Len(stack'["main"]) :
                       /\ stack'["main"][i].call = thread_func' /\ stack'["main"][i].n = 2
                       /\ stack'["main"][i].at \in {"func", "wait", "sleep"}
      <3>1. thread_arg' = thread_func' /\ thread_func' = x.call
        <4>1. CASE UNCHANGED <<thread_func, thread_arg>>
          <5>1. thread_arg = thread_func
                /\ \E i \in 1..Len(stack["main"]) : stack["main"][i].call = thread_func /\ stack["main"][i].n = 2
            BY <4>1, <2>8, <1>1 DEF Second
          <5>2. QED  BY <5>1, <4>1, <1>3
        <4>2. QED  BY <4>1
      <3>2. 1 \in 1..Len(stack'["main"]) /\ stack'["main"][1].call = x.call /\ stack'["main"][1].n = 2
            /\ stack'["main"][1].at = p
        BY <1>2, <1>3, <1>4
      <3>3. QED  BY <3>1, <3>2, <2>8
    <2>9. QED  BY <2>1, <2>4, <2>5, <2>6, <2>7, <2>8 DEF Second
  <1>10. QED  BY <1>5, <1>6, <1>8, <1>9 DEF Halves

(* The last call returns: it is not divided, or both its shares have ended. *)
LEMMA PopHalves ==
  ASSUME NEW t \in Thread, NEW x \in Frame,
         Halves, stack[t] # <<>>, x = stack[t][1], stack' = [stack EXCEPT ![t] = Tail(@)],
         back' = back \union {x.call}, ended' = ended \union {<<x.call, 0>>},
         UNCHANGED <<size, begun, thread_func, thread_arg, pc, work>>,
         <<x.call, 0>> \in begun,
         \/ x.n = 1 /\ thread_inuse' = thread_inuse
         \/ x.n = 2 /\ thread_inuse' = FALSE /\ thread_func = None
  PROVE  Halves'
  <1>1. Types /\ Places /\ AllRight /\ Second  BY DEF Halves
  <1>2. /\ 1 \in 1..Len(stack[t])
        /\ \A u \in Thread : Len(stack[u]) \in Nat /\ \A i \in 1..Len(stack[u]) : stack[u][i] \in Frame
    BY <1>1, StackIs
  <1>3. /\ stack' \in [Thread -> Seq(Frame)]
        /\ \A u \in Thread : u # t => stack'[u] = stack[u]
        /\ Len(stack'[t]) = Len(stack[t]) - 1
        /\ \A i \in 1..Len(stack'[t]) : i + 1 \in 1..Len(stack[t]) /\ stack'[t][i] = stack[t][i + 1]
    BY <1>1, PopIs
  <1>4. Types'  BY <1>1, <1>3 DEF Types
  <1>5. Places'
    <2>1. Right(x)  BY <1>1, <1>2 DEF AllRight
    <2>2. size[x.call] # 0  BY <2>1 DEF Right, Frame
    <2>3. QED  BY <2>2, <1>1, PopPlaces
  <1>6. ASSUME NEW f \in Frame, Right(f), f.call # x.call, x.n = 2 => f.n # 2 PROVE Right(f)'
    <2>1. <<f.call, 0>> \notin ended' \ ended
      <3>1. SUFFICES ASSUME <<f.call, 0>> = <<x.call, 0>> PROVE FALSE  OBVIOUS
      <3>2. QED  BY <3>1, <1>6
    <2>2. f.n = 2 => thread_inuse' = thread_inuse  BY <1>6
    <2>3. QED  BY <2>1, <2>2, <1>6, RightKept
  <1>7. AllRight'
    <2> SUFFICES ASSUME NEW u \in Thread, NEW i \in 1..Len(stack'[u])
                 PROVE  \E f \in Frame : f = stack'[u][i] /\ Right(f)'
      BY AllRightAfter
    <2>1. PICK j \in 1..Len(stack[u]) : stack'[u][i] = stack[u][j] /\ ~ (u = t /\ j = 1)
      <3>1. CASE u = t
        <4>1. Len(stack'[t]) \in Int  BY <1>2, <1>3
        <4>2. i + 1 \in 1..Len(stack[u]) /\ stack'[u][i] = stack[u][i + 1] /\ i + 1 # 1
          BY <4>1, <3>1, <1>3
        <4>3. QED  BY <4>2
      <3>2. CASE u # t  BY <3>2, <1>3
      <3>3. QED  BY <3>1, <3>2
    <2>2. PICK f \in Frame : f = stack[u][j]  BY <2>1, <1>2
    <2>3. Right(f)  BY <2>1, <2>2, <1>1 DEF AllRight
    <2>4. f.call # x.call
      <3>1. SUFFICES ASSUME stack[u][j].call = stack[t][1].call PROVE FALSE  BY <2>2
      <3>2. u = t /\ j = 1  BY <3>1, <2>1, <1>1, <1>2 DEF Places, OneFrame
      <3>3. QED  BY <3>2, <2>1
    <2>5. x.n = 2 => f.n # 2
      <3>1. SUFFICES ASSUME stack[t][1].n = 2, stack[u][j].n = 2 PROVE FALSE  BY <2>2
      <3>2. u = "main" /\ t = "main"  BY <3>1, <2>1, <1>1, <1>2 DEF Places, OneDivided
      <3>3. j = 1  BY <3>1, <3>2, <2>1, <1>1, <1>2 DEF Places, OneDivided
      <3>4. QED  BY <3>2, <3>3, <2>1
    <2>6. Right(f)'  BY <2>3, <2>4, <2>5, <1>6
    <2>7. QED  BY <2>1, <2>2, <2>6
  <1>8. Second'
    <2>1. \A c : <<c, 1>> \notin ended => <<c, 1>> \notin ended'
      <3> SUFFICES ASSUME NEW c, <<c, 1>> = <<x.call, 0>> PROVE FALSE  OBVIOUS
      <3>1. QED  OBVIOUS
    <2>2. pc # "func" => work = None /\ stack'["companion"] = <<>>
      <3>1. pc # "func" => t # "companion"  BY <1>1 DEF Second
      <3>2. QED  BY <3>1, <1>1, <1>3 DEF Second, Thread
    <2>3. ASSUME thread_func # None
          PROVE  \E i \in 1..Len(stack'["main"]) :
                    /\ stack'["main"][i].call = thread_func /\ stack'["main"][i].n = 2
                    /\ stack'["main"][i].at \in {"func", "wait", "sleep"}
      <3>1. PICK i \in 1..Len(stack["main"]) :
                    /\ stack["main"][i].call = thread_func /\ stack["main"][i].n = 2
                    /\ stack["main"][i].at \in {"func", "wait", "sleep"}
        BY <2>3, <1>1 DEF Second
      <3>2. CASE t = "main"
        <4>1. i # 1  BY <3>1, <3>2, <2>3
        <4>2. i - 1 \in 1..Len(stack'["main"]) /\ i - 1 + 1 = i  BY <4>1, <3>2, <1>2, <1>3
        <4>3. stack'["main"][i - 1] = stack["main"][i]  BY <4>2, <3>2, <1>3
        <4>4. QED  BY <4>2, <4>3, <3>1
      <3>3. CASE t # "main"  BY <3>1, <3>3, <1>3 DEF Thread
      <3>4. QED  BY <3>2, <3>3
    <2>4. QED  BY <2>1, <2>2, <2>3, <1>1 DEF Second
  <1>9. QED  BY <1>4, <1>5, <1>7, <1>8 DEF Halves

(* The steps of a caller.                                                  *)
LEMMA CallerHalves ==
  ASSUME NEW t \in Thread, Halves, Caller(t)
  PROVE  Halves'
  <1>1. Types /\ Places /\ AllRight /\ Second  BY DEF Halves
  <1>2. stack[t] # <<>>
    BY DEF Caller, Claim, Post, FuncEnds, Wait, Wake, Free, At
  <1>3. PICK x \in Frame : x = stack[t][1] /\ x = Head(stack[t]) /\ Right(x)
    <2>1. stack[t][1] \in Frame /\ stack[t][1] = Head(stack[t]) /\ Right(stack[t][1])
      BY <1>1, <1>2, StackIs DEF AllRight
    <2>2. QED  BY <2>1
  <1>4. x.call \in Promise!Call /\ x.n \in {1, 2} /\ (x.n = 1 => x.at = "func") /\ x.n = size[x.call]
    <2>1. 1 \in 1..Len(stack[t])  BY <1>1, <1>2, StackIs
    <2>2. x.n = 1 => x.at = "func"  BY <2>1, <1>1, <1>3 DEF Places, OneDivided
    <2>3. QED  BY <2>2, <1>3 DEF Frame, Right
  <1>5. begun \subseteq Item /\ ended \subseteq begun /\ thread_inuse \in BOOLEAN  BY <1>1 DEF Types
  <1>6. ASSUME NEW p \in {"post", "func", "wait", "sleep", "free"}
        PROVE  \E y \in Frame : y.call = x.call /\ y.n = 2 /\ y.at = p
    <2>1. [call |-> x.call, n |-> 2, at |-> p] \in Frame  BY <1>4 DEF Frame
    <2>2. QED  BY <2>1
  <1>7. CASE Claim(t)
    <2>1. /\ x.at = "claim" /\ Go(t, "post") /\ thread_inuse' = TRUE
          /\ UNCHANGED <<size, begun, ended, back, thread_func, thread_arg, pc, work>>
      BY <1>3, <1>7 DEF Claim, At, history, signals, proc
    <2>2. x.n = 2  BY <2>1, <1>4
    <2>3. PICK y \in Frame : y.call = x.call /\ y.n = 2 /\ y.at = "post"  BY <1>6
    <2>4. Right(y)'  BY <2>1, <2>2, <2>3, <1>3 DEF Right
    <2>5. thread_func' = None  BY <2>1, <2>2, <1>3 DEF Right
    <2>6. QED  BY <2>1, <2>2, <2>3, <2>4, <2>5, <1>2, <1>3, <1>5, GoHalves
  <1>8. CASE Post(t)
    <2>1. /\ x.at = "post" /\ Go(t, "func") /\ thread_func' = x.call /\ thread_arg' = x.call
          /\ begun' = begun \union {<<x.call, 0>>}
          /\ UNCHANGED <<size, ended, back, thread_inuse, pc, work>>
      BY <1>3, <1>8 DEF Post, At, proc
    <2>2. x.n = 2 /\ thread_inuse /\ thread_func = None  BY <2>1, <1>3, <1>4 DEF Right
    <2>3. \A s \in begun : s[1] # x.call  BY <2>1, <1>3 DEF Right
    <2>4. PICK y \in Frame : y.call = x.call /\ y.n = 2 /\ y.at = "func"  BY <1>6
    <2>5. PICK z \in Item : z = <<x.call, 0>>  BY <1>4 DEF Item
    <2>6. z \notin begun /\ z \notin ended' /\ z[1] = x.call /\ z[2] = 0  BY <2>1, <2>3, <2>5, <1>5
    <2>7. Right(y)'
      <3>1. <<y.call, 0>> \in begun' \ ended'  BY <2>1, <2>4, <2>5, <2>6
      <3>2. QED  BY <3>1, <2>1, <2>2, <2>4, <1>4 DEF Right
    <2>8. <<x.call, 1>> \notin begun'
      <3>1. <<x.call, 1>> \notin begun
        <4>1. <<x.call, 1>>[1] = x.call  OBVIOUS
        <4>2. QED  BY <4>1, <2>3
      <3>2. <<x.call, 1>> # <<x.call, 0>>  OBVIOUS
      <3>3. QED  BY <3>1, <3>2, <2>1
    <2>9. /\ begun \subseteq begun' /\ begun' \subseteq Item /\ ended' \subseteq begun' /\ ended \subseteq ended'
          /\ \A s \in (begun' \ begun) \union (ended' \ ended) : s[1] = x.call /\ s[2] = 0
      BY <2>1, <2>5, <2>6, <1>5
    <2>10. QED  BY <2>1, <2>2, <2>4, <2>7, <2>8, <2>9, <1>2, <1>3, <1>5, GoHalves
  <1>9. CASE FuncEnds(t)
    <2>1. x.at = "func" /\ Running(t) = <<x.call, 0>>  BY <1>2, <1>3, <1>9 DEF FuncEnds, At, Running
    <2>2. /\ ended' = ended \union {<<x.call, 0>>}
          /\ UNCHANGED <<size, begun, thread_func, thread_arg, thread_inuse, pc, work>>
      BY <2>1, <1>9 DEF FuncEnds, signals, proc
    <2>3. PICK z \in Item : z = <<x.call, 0>>  BY <1>4 DEF Item
    <2>4. z \in begun /\ z[1] = x.call /\ z[2] = 0  BY <2>1, <2>3, <1>3 DEF Right
    <2>5. CASE x.n = 1
      <3>1. stack' = [stack EXCEPT ![t] = Tail(@)] /\ back' = back \union {x.call}
        BY <2>5, <1>3, <1>9 DEF FuncEnds
      <3>2. QED  BY <3>1, <2>2, <2>3, <2>4, <2>5, <1>2, <1>3, PopHalves
    <2>6. CASE x.n = 2
      <3>1. Go(t, "wait") /\ UNCHANGED back  BY <2>6, <1>3, <1>9 DEF FuncEnds
      <3>2. PICK y \in Frame : y.call = x.call /\ y.n = 2 /\ y.at = "wait"  BY <1>6
      <3>3. Right(y)'
        <4>1. <<y.call, 0>> \in ended'  BY <3>2, <2>2
        <4>2. thread_inuse /\ (thread_func = x.call \/ <<x.call, 1>> \in ended)  BY <2>1, <2>6, <1>3 DEF Right
        <4>3. QED  BY <4>1, <4>2, <3>2, <2>2, <2>6, <1>4 DEF Right
      <3>4. /\ begun \subseteq begun' /\ begun' \subseteq Item /\ ended' \subseteq begun' /\ ended \subseteq ended'
            /\ \A s \in (begun' \ begun) \union (ended' \ ended) : s[1] = x.call /\ s[2] = 0
        BY <2>2, <2>3, <2>4, <1>5
      <3>5. QED  BY <3>1, <3>2, <3>3, <3>4, <2>2, <2>6, <1>2, <1>3, <1>5, GoHalves
    <2>7. QED  BY <2>5, <2>6, <1>4
  <1>10. CASE Wait(t)
    <2>1. /\ x.at = "wait"
          /\ UNCHANGED <<size, begun, ended, back, thread_func, thread_arg, thread_inuse, pc, work>>
          /\ \/ thread_func = None /\ Go(t, "free")
             \/ thread_func # None /\ Go(t, "sleep")
      BY <1>3, <1>10 DEF Wait, At, history, proc
    <2>2. /\ x.n = 2 /\ thread_inuse /\ <<x.call, 0>> \in ended
          /\ thread_func = x.call \/ <<x.call, 1>> \in ended
      BY <2>1, <1>3, <1>4 DEF Right
    <2>3. CASE thread_func = None /\ Go(t, "free")
      <3>1. PICK y \in Frame : y.call = x.call /\ y.n = 2 /\ y.at = "free"  BY <1>6
      <3>2. x.call # None  BY <1>4, CallIsSome
      <3>3. Right(y)'  BY <3>1, <3>2, <2>1, <2>2, <2>3, <1>4 DEF Right
      <3>4. QED  BY <3>1, <3>3, <2>1, <2>2, <2>3, <1>2, <1>3, <1>5, GoHalves
    <2>4. CASE thread_func # None /\ Go(t, "sleep")
      <3>1. PICK y \in Frame : y.call = x.call /\ y.n = 2 /\ y.at = "sleep"  BY <1>6
      <3>2. Right(y)'  BY <3>1, <2>1, <2>2, <1>4 DEF Right
      <3>3. QED  BY <3>1, <3>2, <2>1, <2>2, <2>4, <1>2, <1>3, <1>5, GoHalves
    <2>5. QED  BY <2>1, <2>3, <2>4
  <1>11. CASE Wake(t)
    <2>1. /\ x.at = "sleep" /\ Go(t, "wait")
          /\ UNCHANGED <<size, begun, ended, back, thread_func, thread_arg, thread_inuse, pc, work>>
      BY <1>3, <1>11 DEF Wake, At, history, signals, proc
    <2>2. /\ x.n = 2 /\ thread_inuse /\ <<x.call, 0>> \in ended
          /\ thread_func = x.call \/ <<x.call, 1>> \in ended
      BY <2>1, <1>3, <1>4 DEF Right
    <2>3. PICK y \in Frame : y.call = x.call /\ y.n = 2 /\ y.at = "wait"  BY <1>6
    <2>4. Right(y)'  BY <2>1, <2>2, <2>3, <1>4 DEF Right
    <2>5. QED  BY <2>1, <2>2, <2>3, <2>4, <1>2, <1>3, <1>5, GoHalves
  <1>12. CASE Free(t)
    <2>1. /\ x.at = "free" /\ thread_inuse' = FALSE /\ stack' = [stack EXCEPT ![t] = Tail(@)]
          /\ back' = back \union {x.call}
          /\ UNCHANGED <<size, begun, ended, thread_func, thread_arg, pc, work>>
      BY <1>3, <1>12 DEF Free, At, signals, proc
    <2>2. x.n = 2 /\ thread_func = None /\ <<x.call, 0>> \in ended  BY <2>1, <1>3, <1>4 DEF Right
    <2>3. ended' = ended \union {<<x.call, 0>>} /\ <<x.call, 0>> \in begun  BY <2>1, <2>2, <1>5
    <2>4. QED  BY <2>1, <2>2, <2>3, <1>2, <1>3, PopHalves
  <1>13. QED  BY <1>7, <1>8, <1>9, <1>10, <1>11, <1>12 DEF Caller

(* The steps of the companion.                                             *)
LEMMA ProcHalves ==
  ASSUME Halves, Proc
  PROVE  Halves'
  <1>1. Types /\ Places /\ AllRight /\ Second  BY DEF Halves
  <1>2. begun \subseteq Item /\ ended \subseteq begun  BY <1>1 DEF Types
  <1>3. \A u \in Thread : \A i \in 1..Len(stack[u]) : stack[u][i] \in Frame  BY <1>1, StackIs
  <1>4. CASE ProcTop
    BY <1>4, StayHalves DEF ProcTop, history
  <1>5. CASE ProcCall
    <2>1. /\ pc = "call" /\ pc' = "func" /\ work' = <<thread_func, 1>> /\ begun' = begun \union {work'}
          /\ UNCHANGED <<size, ended, back, thread_func, thread_arg, thread_inuse, stack>>
      <3>1. pc = "call" /\ work' = <<thread_arg, 1>>  BY <1>5 DEF ProcCall
      <3>2. thread_arg = thread_func  BY <3>1, <1>1 DEF Second
      <3>3. QED  BY <3>1, <3>2, <1>5 DEF ProcCall, signals
    <2>2. thread_func # None /\ thread_func \in Promise!Call /\ stack["companion"] = <<>>
          /\ <<thread_func, 1>> \notin begun
      BY <2>1, <1>1 DEF Second, Types
    <2>3. PICK z \in Item : z = <<thread_func, 1>>  BY <2>2 DEF Item
    <2>4. z[1] = thread_func /\ z[2] = 1 /\ work' = z /\ begun' = begun \union {z} /\ z \notin ended
      BY <2>1, <2>2, <2>3, <1>2
    <2>5. size[thread_func] = 2
      <3>1. PICK i \in 1..Len(stack["main"]) : stack["main"][i].call = thread_func /\ stack["main"][i].n = 2
        BY <2>2, <1>1 DEF Second
      <3>2. Right(stack["main"][i])  BY <1>1 DEF AllRight, Thread
      <3>3. QED  BY <3>1, <3>2 DEF Right
    <2>6. Types'  BY <2>1, <2>4, <1>1 DEF Types
    <2>7. Places'  BY <2>1, <2>2, <1>1, SamePlaces
    <2>8. AllRight'
      <3> SUFFICES ASSUME NEW u \in Thread, NEW i \in 1..Len(stack[u])
                   PROVE  \E f \in Frame : f = stack[u][i] /\ Right(f)'
        BY <2>1, AllRightAfter
      <3>1. PICK f \in Frame : f = stack[u][i] /\ Right(f)  BY <1>1, <1>3 DEF AllRight
      <3>2. f.at \in {"claim", "post"} => f.n = 2
        <4>1. f.n = 1 => f.at = "func"  BY <3>1, <1>1 DEF Places, OneDivided
        <4>2. QED  BY <4>1 DEF Frame
      <3>3. f.at \in {"claim", "post"} => FALSE  BY <3>1, <3>2, <2>2 DEF Right
      <3>4. QED  BY <3>1, <3>3, <2>1, RightKept
    <2>9. Second'
      <3>1. \A s \in begun' : s[2] < size'[s[1]]  BY <2>1, <2>4, <2>5, <1>1 DEF Second
      <3>2. thread_arg' = thread_func' /\ work' \in begun' \ ended'  BY <2>1, <2>2, <2>4, <1>1 DEF Second
      <3>3. QED  BY <3>1, <3>2, <2>1, <2>2, <1>1 DEF Second
    <2>10. QED  BY <2>6, <2>7, <2>8, <2>9 DEF Halves
  <1>6. CASE ProcEnds
    <2>1. /\ pc = "func" /\ pc' = "end" /\ work' = None /\ ended' = ended \union {work}
          /\ stack["companion"] = <<>>
          /\ UNCHANGED <<size, begun, back, thread_func, thread_arg, thread_inuse, stack>>
      BY <1>6 DEF ProcEnds, signals
    <2>2. work = <<thread_func, 1>> /\ work \in begun \ ended /\ thread_func # None
      BY <2>1, <1>1 DEF Second
    <2>3. Types'  BY <2>1, <2>2, <1>1 DEF Types
    <2>4. Places'  BY <2>1, <1>1, SamePlaces
    <2>5. AllRight'
      <3> SUFFICES ASSUME NEW u \in Thread, NEW i \in 1..Len(stack[u])
                   PROVE  \E f \in Frame : f = stack[u][i] /\ Right(f)'
        BY <2>1, AllRightAfter
      <3>1. PICK f \in Frame : f = stack[u][i] /\ Right(f)  BY <1>1, <1>3 DEF AllRight
      <3>2. <<f.call, 0>> \notin ended' \ ended
        <4>1. SUFFICES ASSUME <<f.call, 0>> = <<thread_func, 1>> PROVE FALSE  BY <2>1, <2>2
        <4>2. QED  BY <4>1
      <3>3. QED  BY <3>1, <3>2, <2>1, RightKept
    <2>6. Second'  BY <2>1, <2>2, <1>1 DEF Second
    <2>7. QED  BY <2>3, <2>4, <2>5, <2>6 DEF Halves
  <1>7. CASE ProcSignals
    <2>1. /\ pc = "end" /\ pc' \in {"exited", "sleep"} /\ thread_func' = None
          /\ UNCHANGED <<size, begun, ended, back, thread_arg, thread_inuse, work, stack>>
      BY <1>7 DEF ProcSignals, history
    <2>2. <<thread_func, 1>> \in ended /\ thread_func # None /\ work = None /\ stack["companion"] = <<>>
      BY <2>1, <1>1 DEF Second
    <2>3. Types'  BY <2>1, <1>1 DEF Types
    <2>4. Places'  BY <2>1, <1>1, SamePlaces
    <2>5. AllRight'
      <3> SUFFICES ASSUME NEW u \in Thread, NEW i \in 1..Len(stack[u])
                   PROVE  \E f \in Frame : f = stack[u][i] /\ Right(f)'
        BY <2>1, AllRightAfter
      <3>1. PICK f \in Frame : f = stack[u][i] /\ Right(f)  BY <1>1, <1>3 DEF AllRight
      <3>2. f.n = 2 => <<f.call, 1>> \in ended'
        <4>1. f.n = 2 => f.at \notin {"claim", "post", "free"}  BY <3>1, <2>2 DEF Right
        <4>2. f.n = 2 => f.at \in {"func", "wait", "sleep"}  BY <4>1 DEF Frame
        <4>3. QED  BY <4>2, <3>1, <2>1, <2>2 DEF Right
      <3>3. QED  BY <3>1, <3>2, <2>1, RightKept
    <2>6. Second'  BY <2>1, <2>2, <1>1 DEF Second
    <2>7. QED  BY <2>3, <2>4, <2>5, <2>6 DEF Halves
  <1>8. QED  BY <1>4, <1>5, <1>6, <1>7 DEF Proc

LEMMA NextHalves == Halves /\ [Next]_vars => Halves'
  <1> SUFFICES ASSUME Halves, [Next]_vars PROVE Halves'  OBVIOUS
  <1>1. CASE \E t \in Thread : Parallelize(t) \/ Caller(t)  BY <1>1, CallHalves, CallerHalves
  <1>2. CASE Proc  BY <1>2, ProcHalves
  <1>3. CASE Spurious \/ Done \/ Joined \/ UNCHANGED vars
    BY <1>3, StayHalves DEF Spurious, Done, Joined, vars, history, signals, proc
  <1>4. QED  BY <1>1, <1>2, <1>3 DEF Next

---------------------------------------------------------------------------
(* Each step is one of ForkJoin, or none.                                  *)
LEMMA ParentIs ==
  ASSUME NEW u \in Thread, NEW i \in 1..Len(stack[u]), Halves
  PROVE  Parent(u, i) \in Item \/ (Parent(u, i) = None /\ u = "main")
  <1>1. Len(stack[u]) \in Nat /\ \A j \in 1..Len(stack[u]) : stack[u][j].call \in Promise!Call
    BY StackIs DEF Halves
  <1>2. CASE i < Len(stack[u])
    <2>1. i + 1 \in 1..Len(stack[u])  BY <1>1, <1>2
    <2>2. <<stack[u][i + 1].call, 0>> \in Item  BY <2>1, <1>1 DEF Item
    <2>3. QED  BY <2>2, <1>2 DEF Parent
  <1>3. CASE ~ (i < Len(stack[u])) /\ u = "main"  BY <1>3 DEF Parent
  <1>4. CASE ~ (i < Len(stack[u])) /\ u # "main"
    <2>1. u = "companion" /\ Len(stack["companion"]) # 0  BY <1>1, <1>4 DEF Thread
    <2>2. stack["companion"] # <<>>  BY <2>1
    <2>3. pc = "func"  BY <2>2 DEF Halves, Second
    <2>4. work \in begun  BY <2>3 DEF Halves, Second
    <2>5. work \in Item  BY <2>4 DEF Halves, Types
    <2>6. QED  BY <2>5, <1>4 DEF Parent
  <1>5. QED  BY <1>2, <1>3, <1>4

(* The call made by a share that no call lies upon has returned.           *)
LEMMA InnerIsBack ==
  ASSUME Halves, NEW s \in Item,
         \A u \in Thread : \A i \in 1..Len(stack[u]) : Parent(u, i) # s
  PROVE  Promise!MayNest(s) /\ size[Promise!Inner(s)] # 0 => Promise!Inner(s) \in back
  <1> SUFFICES ASSUME Promise!MayNest(s), size[Promise!Inner(s)] # 0, Promise!Inner(s) \notin back
               PROVE  FALSE
    OBVIOUS
  <1>1. PICK u \in Thread : \E i \in 1..Len(stack[u]) : stack[u][i].call = Promise!Inner(s)
    BY DEF Promise!MayNest, Halves, Places, Live
  <1>2. PICK i \in 1..Len(stack[u]) : stack[u][i].call = Promise!Inner(s)  BY <1>1
  <1>3. CASE Parent(u, i) = None
    <2>1. Promise!IsOuter(Promise!Inner(s))  BY <1>2, <1>3 DEF Halves, Places, Nested
    <2>2. QED  BY <2>1, InnerIsOne
  <1>4. CASE Parent(u, i) # None
    <2>1. Promise!Inner(Parent(u, i)) = Promise!Inner(s)  BY <1>2, <1>4 DEF Halves, Places, Nested
    <2>2. Parent(u, i) \in Item  BY <1>4, ParentIs
    <2>3. QED  BY <2>1, <2>2, InnerIsOne
  <1>5. QED  BY <1>3, <1>4

(* A share that has begun is one of its call.                              *)
LEMMA BegunIsShare ==
  ASSUME Halves, NEW s \in begun
  PROVE  s \in Item /\ s \in Promise!Share
  <1>1. s \in Item  BY DEF Halves, Types
  <1>2. s[1] \in Promise!Call /\ s[2] \in Nat /\ s = <<s[1], s[2]>>  BY <1>1, ItemIsSome
  <1>3. s[2] < size[s[1]] /\ size[s[1]] \in 0..MaxShares /\ MaxShares \in Nat
    BY <1>2, BoundsAssumption DEF Halves, Second, Types
  <1>4. s[2] \in Promise!Number  BY <1>2, <1>3 DEF Promise!Number
  <1>5. QED  BY <1>1, <1>2, <1>4 DEF Promise!Share

(* What ForkJoin asks of the first share, when it ends ...                 *)
LEMMA OwnMayEnd ==
  ASSUME NEW t \in Thread, Halves, At(t, "func")
  PROVE  LET s == <<stack[t][1].call, 0>>
         IN  /\ s = Running(t) /\ s \in Promise!Share /\ s \in begun \ ended
             /\ Promise!MayNest(s) /\ size[Promise!Inner(s)] # 0 => Promise!Inner(s) \in back
  <1> DEFINE x == stack[t][1]
  <1>1. /\ stack[t] # <<>> /\ Head(stack[t]) = x /\ x.at = "func" /\ 1 \in 1..Len(stack[t]) /\ Right(x)
        /\ x.call \in Promise!Call
    <2>1. stack[t] # <<>> /\ Head(stack[t]) = x /\ 1 \in 1..Len(stack[t])  BY StackIs DEF At, Halves
    <2>2. QED  BY <2>1, StackIs DEF At, Halves, AllRight
  <1>2. PICK s \in Item : s = <<x.call, 0>>  BY <1>1 DEF Item
  <1>3. s = Running(t)  BY <1>1, <1>2 DEF Running
  <1>4. s \in begun \ ended
    <2>1. \A f : Right(f) /\ f.at = "func" => <<f.call, 0>> \in begun \ ended  BY DEF Right
    <2>2. QED  BY <2>1, <1>1, <1>2
  <1>5. \A u \in Thread : \A i \in 1..Len(stack[u]) : Parent(u, i) # s
    <2> SUFFICES ASSUME NEW u \in Thread, NEW i \in 1..Len(stack[u]), Parent(u, i) = s PROVE FALSE
      OBVIOUS
    <2>1. CASE i < Len(stack[u])
      <3>1. i + 1 \in 1..Len(stack[u]) /\ i + 1 # 1
        <4>1. Len(stack[u]) \in Nat  BY StackIs DEF Halves
        <4>2. QED  BY <4>1, <2>1
      <3>2. stack[u][i + 1].call = x.call  BY <2>1, <1>2 DEF Parent
      <3>3. i + 1 = 1  BY <3>1, <3>2, <1>1 DEF Halves, Places, OneFrame
      <3>4. QED  BY <3>1, <3>3
    <2>2. CASE ~ (i < Len(stack[u]))
      <3>1. s # None  BY ItemIsSome
      <3>2. work = s  BY <3>1, <2>2 DEF Parent
      <3>3. work = <<thread_func, 1>>  BY <3>1, <3>2 DEF Halves, Second
      <3>4. <<x.call, 0>> = <<thread_func, 1>>  BY <3>2, <3>3, <1>2
      <3>5. QED  BY <3>4
    <2>3. QED  BY <2>1, <2>2
  <1>6. Promise!MayNest(s) /\ size[Promise!Inner(s)] # 0 => Promise!Inner(s) \in back
    BY <1>5, InnerIsBack
  <1>7. s \in Promise!Share  BY <1>4, BegunIsShare
  <1> HIDE DEF x
  <1>8. QED  BY <1>2, <1>3, <1>4, <1>6, <1>7 DEF x

(* ... and of the second one.                                              *)
LEMMA WorkMayEnd ==
  ASSUME Halves, pc = "func"
  PROVE  /\ work \in Promise!Share /\ work \in begun \ ended
         /\ stack["companion"] = <<>> /\ Promise!MayNest(work) /\ size[Promise!Inner(work)] # 0
              => Promise!Inner(work) \in back
  <1>1. work = <<thread_func, 1>> /\ work \in begun \ ended  BY DEF Halves, Second
  <1>2. work \in Item /\ work \in Promise!Share  BY <1>1, BegunIsShare
  <1>3. ASSUME stack["companion"] = <<>>
        PROVE  \A u \in Thread : \A i \in 1..Len(stack[u]) : Parent(u, i) # work
    <2> SUFFICES ASSUME NEW u \in Thread, NEW i \in 1..Len(stack[u]), Parent(u, i) = work PROVE FALSE
      OBVIOUS
    <2>1. CASE i < Len(stack[u])
      <3>1. <<stack[u][i + 1].call, 0>> = <<thread_func, 1>>  BY <2>1, <1>1 DEF Parent
      <3>2. QED  BY <3>1
    <2>2. CASE ~ (i < Len(stack[u]))
      <3>1. u # "main"  BY <2>2, <1>2, ItemIsSome DEF Parent
      <3>2. Len(stack[u]) = 0  BY <3>1, <1>3 DEF Thread
      <3>3. QED  BY <3>2
    <2>3. QED  BY <2>1, <2>2
  <1>4. QED  BY <1>1, <1>2, <1>3, InnerIsBack

(* The calls are made as ForkJoin asks: the outer ones one at a time, the  *)
(* others by a share that runs.                                            *)
LEMMA CallableMayCall ==
  ASSUME NEW t \in Thread, Halves, NEW c \in Callable(t)
  PROVE  Promise!MayCall(c)
  <1>1. size[c] = 0 /\ c \in Promise!Call  BY DEF Callable
  <1>2. CASE Promise!IsOuter(c)
    <2>1. stack["main"] = <<>> /\ \A r \in 1..c[1] - 1 : size[<<r, <<>>>>] # 0  BY <1>2 DEF Callable
    <2>2. ASSUME NEW r \in 1..c[1] - 1 PROVE <<r, <<>>>> \in back
      <3>1. PICK d : d = <<r, <<>>>>  OBVIOUS
      <3>2. d \in Promise!Call
        <4>1. c[1] \in 1..MaxCalls /\ c[2] = <<>> /\ c[2] \in Promise!Path
          BY <1>1, <1>2 DEF Promise!Call, Promise!IsOuter
        <4>2. r \in 1..MaxCalls  BY <4>1, BoundsAssumption
        <4>3. QED  BY <3>1, <4>1, <4>2 DEF Promise!Call
      <3>3. size[d] # 0 /\ Promise!IsOuter(d)  BY <3>1, <2>1 DEF Promise!IsOuter
      <3>4. SUFFICES ASSUME d \notin back PROVE FALSE  BY <3>1
      <3>5. PICK u \in Thread : \E i \in 1..Len(stack[u]) : stack[u][i].call = d
        BY <3>2, <3>3, <3>4 DEF Halves, Places, Live
      <3>6. PICK i \in 1..Len(stack[u]) : stack[u][i].call = d  BY <3>5
      <3>7. CASE Parent(u, i) \in Item
        <4>1. d = Promise!Inner(Parent(u, i))  BY <3>6, <3>7, ItemIsSome DEF Halves, Places, Nested
        <4>2. QED  BY <4>1, <3>3, <3>7, InnerIsOne
      <3>8. CASE u = "main"
        <4>1. Len(stack[u]) = 0  BY <3>8, <2>1
        <4>2. QED  BY <4>1
      <3>9. QED  BY <3>7, <3>8, ParentIs
    <2>3. QED  BY <2>2, <1>1, <1>2 DEF Promise!MayCall
  <1>3. CASE ~ Promise!IsOuter(c)
    <2>1. Running(t) # None /\ Promise!MayNest(Running(t)) /\ c = Promise!Inner(Running(t))
      BY <1>3 DEF Callable
    <2>2. Running(t) \in begun \ ended /\ Running(t) \in Promise!Share
      <3>1. CASE stack[t] # <<>>
        <4>1. At(t, "func")  BY <2>1, <3>1 DEF Running, At
        <4>2. QED  BY <4>1, OwnMayEnd
      <3>2. CASE stack[t] = <<>>
        <4>1. pc = "func" /\ Running(t) = work  BY <2>1, <3>2 DEF Running
        <4>2. QED  BY <4>1, WorkMayEnd
      <3>3. QED  BY <3>1, <3>2
    <2>3. QED  BY <2>1, <2>2, <1>1, <1>3 DEF Promise!MayCall
  <1>4. QED  BY <1>2, <1>3

(* The steps of a caller.                                                  *)
LEMMA CallerStep ==
  ASSUME NEW t \in Thread, Halves, Caller(t)
  PROVE  [Promise!Next]_Promise!vars
  <1>1. Types /\ AllRight /\ stack[t] # <<>>
    BY DEF Halves, Caller, Claim, Post, FuncEnds, Wait, Wake, Free, At
  <1>2. PICK x \in Frame : x = stack[t][1] /\ x = Head(stack[t]) /\ Right(x)
    <2>1. stack[t][1] \in Frame /\ stack[t][1] = Head(stack[t]) /\ Right(stack[t][1])
      BY <1>1, StackIs DEF AllRight
    <2>2. QED  BY <2>1
  <1>3. /\ x.call \in Promise!Call /\ x.n \in {1, 2} /\ x.n = size[x.call] /\ x.call \notin back
        /\ x.n = 1 => x.at = "func"
    <2>1. 1 \in 1..Len(stack[t])  BY <1>1, StackIs
    <2>2. x.call \notin back /\ (x.n = 1 => x.at = "func")
      BY <2>1, <1>2 DEF Halves, Places, Live, OneDivided
    <2>3. QED  BY <2>2, <1>2 DEF Frame, Right
  <1>4. CASE Claim(t) \/ Wait(t) \/ Wake(t)
    BY <1>4 DEF Claim, Wait, Wake, history, Promise!vars
  <1>5. CASE Post(t)
    <2>1. x.at = "post" /\ begun' = begun \union {<<x.call, 0>>} /\ UNCHANGED <<size, ended, back>>
      BY <1>2, <1>5 DEF Post, At
    <2>2. 0 \in Promise!Number  BY BoundsAssumption, SharesAssumption DEF Promise!Number
    <2>3. PICK s \in Promise!Share : s = <<x.call, 0>>  BY <2>2, <1>3 DEF Promise!Share
    <2>4. s \notin begun /\ s[2] < size[s[1]]
      <3>1. s[1] = x.call /\ s[2] = 0  BY <2>3
      <3>2. QED  BY <3>1, <2>1, <1>2, <1>3 DEF Right
    <2>5. Promise!Begin(s)  BY <2>1, <2>3, <2>4 DEF Promise!Begin
    <2>6. QED  BY <2>5 DEF Promise!Next
  <1>6. CASE FuncEnds(t)
    <2>1. At(t, "func")  BY <1>6 DEF FuncEnds
    <2>2. PICK s \in Promise!Share :
             /\ s = <<x.call, 0>> /\ s = Running(t) /\ s \in begun \ ended
             /\ Promise!MayNest(s) /\ size[Promise!Inner(s)] # 0 => Promise!Inner(s) \in back
      BY <2>1, <1>2, OwnMayEnd
    <2>3. ended' = ended \union {s} /\ UNCHANGED <<size, begun>> /\ s[1] = x.call
      BY <2>2, <1>6 DEF FuncEnds
    <2>4. CASE x.n = 1
      <3>1. back' = back \union {x.call}  BY <2>4, <1>2, <1>6 DEF FuncEnds
      <3>2. Promise!Shares(s[1]) \subseteq ended'
        <4>1. size[x.call] = 1 /\ 0..size[x.call] - 1 = {0}  BY <2>4, <1>3
        <4>2. Promise!Shares(x.call) = {<<x.call, 0>>}  BY <4>1 DEF Promise!Shares
        <4>3. QED  BY <4>2, <2>2, <2>3
      <3>3. Promise!EndReturn(s)  BY <3>1, <3>2, <2>2, <2>3, <1>3 DEF Promise!EndReturn
      <3>4. QED  BY <3>3 DEF Promise!Next
    <2>5. CASE x.n # 1
      <3>1. UNCHANGED back  BY <2>5, <1>2, <1>6 DEF FuncEnds
      <3>2. Promise!End(s)  BY <3>1, <2>2, <2>3 DEF Promise!End
      <3>3. QED  BY <3>2 DEF Promise!Next
    <2>6. QED  BY <2>4, <2>5
  <1>7. CASE Free(t)
    <2>1. x.at = "free" /\ back' = back \union {x.call} /\ UNCHANGED <<size, begun, ended>>
      BY <1>2, <1>7 DEF Free, At
    <2>2. x.n = 2 /\ size[x.call] = 2  BY <2>1, <1>3
    <2>3. <<x.call, 0>> \in ended /\ <<x.call, 1>> \in ended
      <3>1. x.call # None  BY <1>3, CallIsSome
      <3>2. QED  BY <3>1, <2>1, <2>2, <1>2 DEF Right
    <2>4. Promise!Shares(x.call) \subseteq ended
      <3>1. 0..size[x.call] - 1 = {0, 1}  BY <2>2
      <3>2. Promise!Shares(x.call) = {<<x.call, 0>>, <<x.call, 1>>}  BY <3>1 DEF Promise!Shares
      <3>3. QED  BY <3>2, <2>3
    <2>5. Promise!Return(x.call)  BY <2>1, <2>2, <2>4, <1>3 DEF Promise!Return
    <2>6. QED  BY <2>5, <1>3 DEF Promise!Next
  <1>8. QED  BY <1>4, <1>5, <1>6, <1>7 DEF Caller

LEMMA NextSteps == Halves /\ [Next]_vars => [Promise!Next]_Promise!vars
  <1> SUFFICES ASSUME Halves, [Next]_vars PROVE [Promise!Next]_Promise!vars  OBVIOUS
  <1>1. ASSUME NEW t \in Thread, Parallelize(t) PROVE Promise!Next
    <2>1. PICK c \in Callable(t), y \in Frame :
             /\ size' = [size EXCEPT ![c] = y.n]
             /\ \/ y.n = 1 /\ begun' = begun \union {<<c, 0>>}
                \/ y.n = 2 /\ begun' = begun
      BY <1>1, CallIs
    <2>2. Promise!MayCall(c) /\ c \in Promise!Call /\ 2 \in 1..MaxShares
      BY CallableMayCall, BoundsAssumption, SharesAssumption DEF Callable
    <2>3. UNCHANGED <<ended, back>>  BY <1>1 DEF Parallelize
    <2>4. Promise!EnterBegin(c) \/ Promise!Enter(c, 2)
      BY <2>1, <2>2, <2>3 DEF Promise!EnterBegin, Promise!Enter
    <2>5. QED  BY <2>2, <2>4 DEF Promise!Next
  <1>2. CASE Proc
    <2>1. CASE ProcTop \/ ProcSignals  BY <2>1 DEF ProcTop, ProcSignals, history, Promise!vars
    <2>2. CASE ProcCall
      <3>1. pc = "call" /\ work' = <<thread_arg, 1>> /\ begun' = begun \union {work'}
            /\ UNCHANGED <<size, ended, back>>
        BY <2>2 DEF ProcCall
      <3>2. thread_arg = thread_func /\ <<thread_func, 1>> \notin begun  BY <3>1 DEF Halves, Second
      <3>3. Halves'  BY <1>2, ProcHalves
      <3>4. work' \in Item /\ work' \in Promise!Share /\ work'[2] < size[work'[1]]
        <4>1. work' \in begun'  BY <3>1
        <4>2. work' \in Item  BY <4>1, <3>3 DEF Halves, Types
        <4>3. work'[2] < size'[work'[1]]  BY <4>1, <3>3 DEF Halves, Second
        <4>4. work'[1] \in Promise!Call /\ work'[2] \in Nat  BY <4>2, ItemIsSome
        <4>5. size[work'[1]] \in 0..MaxShares /\ MaxShares \in Nat
          BY <4>4, BoundsAssumption DEF Halves, Types
        <4>6. work'[2] \in Promise!Number  BY <4>3, <4>4, <4>5, <3>1 DEF Promise!Number
        <4>7. QED  BY <4>2, <4>3, <4>4, <4>6, <3>1, ItemIsSome DEF Promise!Share
      <3>5. Promise!Begin(work')  BY <3>1, <3>2, <3>4 DEF Promise!Begin
      <3>6. PICK s \in Promise!Share : s = work'  BY <3>4
      <3>7. Promise!Begin(s)  BY <3>5, <3>6 DEF Promise!Begin
      <3>8. QED  BY <3>7 DEF Promise!Next
    <2>3. CASE ProcEnds
      <3>1. Promise!End(work) /\ work \in Promise!Share
        BY <2>3, WorkMayEnd DEF ProcEnds, Promise!End
      <3>2. QED  BY <3>1 DEF Promise!Next
    <2>4. QED  BY <1>2, <2>1, <2>2, <2>3 DEF Proc
  <1>3. CASE Spurious \/ Done \/ Joined \/ UNCHANGED vars
    BY <1>3 DEF Spurious, Done, Joined, vars, history, Promise!vars
  <1>4. QED  BY <1>1, <1>2, <1>3, CallerStep DEF Next

(* Each share of each call is run exactly once, by the caller or by its    *)
(* companion; a call returns after both of them, and before the share that *)
(* made it ends: ThreadDouble implements ForkJoin.                         *)
THEOREM DoubleImplements == Spec => Implements
  <1>1. Init => Promise!Init  BY DEF Init
  <1>2. QED
    BY <1>1, InitHalves, NextHalves, NextSteps, PTL DEF Spec, Implements, Promise!Spec
=============================================================================
