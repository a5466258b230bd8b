------------------------------ MODULE ForkJoin ------------------------------
(***************************************************************************)
(* What osd_parallelize(func, arg, max) promises to the emulation: the     *)
(* call divides its work in shares func(arg, 0, n) ... func(arg, n - 1, n),*)
(* with n not over max, each share is run exactly once, by any thread, and *)
(* the call returns after all of them.  A share may make a call in its     *)
(* turn.                                                                   *)
(*                                                                         *)
(* A call is the pair of an outer call, made by the emulation, and the     *)
(* path of the numbers of the shares that lead to it, empty for the outer  *)
(* call itself; a share is a pair of a call and a number.                  *)
(***************************************************************************)
EXTENDS Naturals, Sequences

CONSTANTS
    MaxCalls,   \* bound on the calls of the emulation
    MaxWide,    \* bound on the calls within calls ...
    MaxDepth,   \* ... and within the last share of the last share ...
    MaxShares   \* bound on the shares asked for

Number == 0..MaxShares - 1
Path == (UNION {[1..d -> Number] : d \in 0..MaxWide})
        \cup {[i \in 1..d |-> MaxShares - 1] : d \in 0..MaxDepth}
Call == (1..MaxCalls) \X Path
Share == Call \X Number

IsOuter(c) == c[2] = <<>>

\* The call that a share may make.
Inner(s) == <<s[1][1], Append(s[1][2], s[2])>>
MayNest(s) == Inner(s) \in Call

VARIABLES
    size,   \* the shares of each call, 0 before it
    begun,  \* the shares that have begun
    ended,  \* the shares that have ended
    back    \* the calls that have returned

vars == <<size, begun, ended, back>>

Shares(c) == {c} \X (0..size[c] - 1)

TypeOK ==
    /\ size \in [Call -> 0..MaxShares]
    /\ begun \subseteq Share /\ ended \subseteq begun
    /\ back \subseteq Call

Init ==
    /\ size = [c \in Call |-> 0]
    /\ begun = {} /\ ended = {} /\ back = {}

\* The emulation makes one call at a time, a share one call at all.
MayCall(c) ==
    /\ size[c] = 0
    /\ IF IsOuter(c) THEN \A r \in 1..c[1] - 1 : <<r, <<>>>> \in back
       ELSE \E s \in begun \ ended : MayNest(s) /\ c = Inner(s)

Enter(c, n) ==
    /\ MayCall(c)
    /\ size' = [size EXCEPT ![c] = n]
    /\ UNCHANGED <<begun, ended, back>>

Begin(s) ==
    /\ s[2] < size[s[1]] /\ s \notin begun
    /\ begun' = begun \union {s}
    /\ UNCHANGED <<size, ended, back>>

End(s) ==
    /\ s \in begun \ ended
    /\ MayNest(s) /\ size[Inner(s)] # 0 => Inner(s) \in back
    /\ ended' = ended \union {s}
    /\ UNCHANGED <<size, begun, back>>

Return(c) ==
    /\ size[c] # 0 /\ c \notin back
    /\ Shares(c) \subseteq ended
    /\ back' = back \union {c}
    /\ UNCHANGED <<size, begun, ended>>

\* A call may begin its own share when it is made, and return when it ends.
EnterBegin(c) ==
    /\ MayCall(c)
    /\ size' = [size EXCEPT ![c] = 1] /\ begun' = begun \union {<<c, 0>>}
    /\ UNCHANGED <<ended, back>>

EndReturn(s) ==
    /\ s \in begun \ ended /\ s[1] \notin back
    /\ MayNest(s) /\ size[Inner(s)] # 0 => Inner(s) \in back
    /\ ended' = ended \union {s} /\ Shares(s[1]) \subseteq ended'
    /\ back' = back \union {s[1]}
    /\ UNCHANGED <<size, begun>>

Next ==
    \/ \E c \in Call : \/ \E n \in 1..MaxShares : Enter(c, n)
                       \/ EnterBegin(c) \/ Return(c)
    \/ \E s \in Share : Begin(s) \/ End(s) \/ EndReturn(s)

Spec == Init /\ [][Next]_vars
=============================================================================
