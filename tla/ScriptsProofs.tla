--------------------------- MODULE ScriptsProofs ---------------------------
(***************************************************************************)
(* Proofs about Scripts, for any scripts and any entries of event.dat.     *)
(*                                                                         *)
(* The events: the count of an entry is at least the number of calm        *)
(* updates (CountsKeepUp), and the entry that broke the calm last has a    *)
(* count that is no more than it (SomeIsYoung); so all the counts have     *)
(* reached a second exactly when the calm has.                             *)
(*                                                                         *)
(* The stack: each place of it has the level of its block (Nest), and each *)
(* of the four ways to change a stack keeps that.                          *)
(*                                                                         *)
(* The time: a delay that keeps a count is at the top of its script, so it *)
(* is the one that the next step of the script goes on with, and what has  *)
(* been taken off its count is what the script was given and hasn't got    *)
(* left (Accounts).  Statements belong to one script, or their counts would*)
(* be shared.                                                              *)
(*                                                                         *)
(* The end: what the statements of a stack still need, with the counts in  *)
(* progress, is the sum that the books of the stack keep from the bottom   *)
(* of it (Needs), and a step takes from it at least the time that it uses  *)
(* (StepNeeds).  So a script that is given a second more than that and is  *)
(* still in progress can play (Reserve), and returns only when it ended.   *)
(***************************************************************************)
EXTENDS Scripts, SequenceTheorems, WellFoundedInduction, TLAPS

---------------------------------------------------------------------------
(* The events of the game. *)

CountTypes ==
    /\ entry_map \subseteq Entry
    /\ safe_exit_flag \in BOOLEAN
    /\ frame_count \in [Entry -> 0..Fps]
    /\ calm \in 0..Fps + 1

\* An entry has matched for at least the calm updates.
CountsKeepUp ==
    \A e \in Delayed : frame_count[e] >= calm \/ frame_count[e] = Fps

\* If the calm is short, an entry that has just begun to match is the reason.
SomeIsYoung ==
    Delayed # {} /\ calm <= Fps => \E e \in Delayed : frame_count[e] <= calm

\* The two events are on when the calm has lasted.
QuitIsCalm == Delayed # {} => (Quit \subseteq status <=> calm > Fps)

Calm == CountTypes /\ CountsKeepUp /\ SomeIsYoung /\ QuitIsCalm

LEMMA CalmInit == SafeInit => Calm
  <1> SUFFICES ASSUME SafeInit PROVE Calm
    OBVIOUS
  <1> USE FpsAssumption, EntryAssumption DEF SafeInit
  <1>1. CountTypes
    BY DEF CountTypes
  <1>2. CountsKeepUp /\ SomeIsYoung
    BY DEF CountsKeepUp, SomeIsYoung, Delayed
  <1>3. QuitIsCalm
    BY DEF QuitIsCalm, Quit
  <1>4. QED
    BY <1>1, <1>2, <1>3 DEF Calm

LEMMA CalmStep ==
  ASSUME NEW match, Calm, SafeUpdate(match)
  PROVE  Calm'
  <1> USE FpsAssumption DEF Calm, CountTypes
  <1>1. Delayed' = Delayed /\ Delayed \subseteq Entry
    BY DEF Delayed, SafeUpdate, safeConfig
  <1>2. \A e \in Entry : frame_count'[e] =
          IF e \notin match THEN 0
          ELSE IF e \in Delayed /\ frame_count[e] < Fps THEN frame_count[e] + 1
          ELSE frame_count[e]
    BY DEF SafeUpdate, Counted
  <1>3. CountTypes'
    <2>1. frame_count' = Counted(match)
      BY DEF SafeUpdate
    <2>2. frame_count' \in [Entry -> 0..Fps]
      BY <2>1, <1>2 DEF Counted
    <2>3. calm' \in 0..Fps + 1
      BY DEF SafeUpdate
    <2>4. QED
      BY <2>2, <2>3 DEF SafeUpdate, safeConfig
  <1>4. CASE Delayed \subseteq match
    <2>1. calm' = IF calm > Fps THEN calm ELSE calm + 1
      BY <1>4 DEF SafeUpdate
    <2>2. \A e \in Delayed :
            frame_count'[e] = IF frame_count[e] < Fps THEN frame_count[e] + 1 ELSE frame_count[e]
      BY <1>1, <1>2, <1>4
    <2>3. CountsKeepUp'
      BY <1>1, <2>1, <2>2 DEF CountsKeepUp
    <2>4. SomeIsYoung'
      <3> SUFFICES ASSUME Delayed # {}, calm' <= Fps
                   PROVE  \E e \in Delayed : frame_count'[e] <= calm'
        BY <1>1 DEF SomeIsYoung
      <3>1. PICK e \in Delayed : frame_count[e] <= calm
        BY <2>1 DEF SomeIsYoung
      <3>2. frame_count[e] \in 0..Fps
        BY <1>1, <3>1
      <3>3. frame_count'[e] <= calm'
        BY <2>1, <2>2, <3>1, <3>2
      <3>4. QED
        BY <3>1, <3>3
    <2>5. (\A e \in Delayed : frame_count[e] >= Fps) <=> (Delayed = {} \/ calm >= Fps)
      <3>1. ASSUME Delayed # {}, \A e \in Delayed : frame_count[e] >= Fps
            PROVE  calm >= Fps
        <4>1. CASE calm <= Fps
          <5>1. PICK e \in Delayed : frame_count[e] <= calm
            BY <3>1, <4>1 DEF SomeIsYoung
          <5>2. frame_count[e] \in 0..Fps /\ frame_count[e] >= Fps
            BY <1>1, <3>1, <5>1
          <5>3. QED
            BY <5>1, <5>2
        <4>2. QED
          BY <4>1
      <3>2. ASSUME calm >= Fps, NEW e \in Delayed
            PROVE  frame_count[e] >= Fps
        <4>1. frame_count[e] \in 0..Fps
          BY <1>1
        <4>2. QED
          BY <3>2, <4>1 DEF CountsKeepUp
      <3>3. QED
        BY <3>1, <3>2
    <2>6. Delayed # {} => (Quit \subseteq status' <=> \A e \in Delayed : frame_count[e] >= Fps)
      <3> SUFFICES ASSUME Delayed # {}
                   PROVE  Quit \subseteq status' <=> \A e \in Delayed : frame_count[e] >= Fps
        OBVIOUS
      <3>1. entry_map # {}
        BY DEF Delayed
      <3>2. status' = {v \in Event : \A e \in entry_map : EventOf[e] = v => Lasts(e, match)}
        BY <3>1 DEF SafeUpdate, Status
      <3>3. ASSUME Quit \subseteq status', NEW e \in Delayed
            PROVE  frame_count[e] >= Fps
        BY <3>2, <3>3 DEF Delayed, Lasts
      <3>4. ASSUME \A e \in Delayed : frame_count[e] >= Fps, NEW v \in Quit
            PROVE  v \in status'
        BY <3>2, <3>4, <1>4, EntryAssumption DEF Delayed, Lasts
      <3>5. QED
        BY <3>3, <3>4
    <2>7. QuitIsCalm'
      BY <1>1, <2>1, <2>5, <2>6 DEF QuitIsCalm
    <2>8. QED
      BY <1>3, <2>3, <2>4, <2>7
  <1>5. CASE ~(Delayed \subseteq match)
    <2>1. calm' = 0
      BY <1>5 DEF SafeUpdate
    <2>2. PICK e \in Delayed : e \notin match
      BY <1>5
    <2>3. frame_count'[e] = 0
      BY <1>1, <1>2, <2>2
    <2>4. CountsKeepUp'
      BY <1>1, <1>3, <2>1 DEF CountsKeepUp
    <2>5. SomeIsYoung'
      BY <1>1, <2>1, <2>2, <2>3 DEF SomeIsYoung
    <2>6. ~(Quit \subseteq status')
      <3>1. e \in entry_map /\ EventOf[e] \in Quit
        BY <2>2 DEF Delayed
      <3>2. EventOf[e] \notin status'
        BY <2>2, <3>1 DEF SafeUpdate, Status, Lasts
      <3>3. QED
        BY <3>1, <3>2
    <2>7. QuitIsCalm'
      BY <2>1, <2>6 DEF QuitIsCalm
    <2>8. QED
      BY <1>3, <2>4, <2>5, <2>7
  <1>6. QED
    BY <1>4, <1>5

\* The steps of the machine leave the events alone, but at the end of a frame.
LEMMA EventsOfStep == [Next]_vars => UNCHANGED safeVars \/ \E match : SafeUpdate(match)
  <1> SUFFICES ASSUME [Next]_vars PROVE UNCHANGED safeVars \/ \E match : SafeUpdate(match)
    OBVIOUS
  <1>1. CASE Go
    BY <1>1 DEF Go, Give, Step, Return, Frame, FrameEnd, ResetEnd, DoneEnd
  <1>2. CASE Reset \/ Done
    BY <1>2 DEF Reset, Done
  <1>3. CASE Ended \/ UNCHANGED vars
    BY <1>3 DEF Ended, vars
  <1>4. QED
    BY <1>1, <1>2, <1>3 DEF Next

\* With misc_safequit, and entries that delay the exit, the game may be left without
\* a confirmation when its demo mode has lasted for a second, no sooner and no later
\* (advance_safequit_can_exit()).
THEOREM QuitIsSafe == Spec => []SafeAfterASecond
  <1>1. Init => Calm
    BY CalmInit DEF Init
  <1>2. Calm /\ [Next]_vars => Calm'
    <2> SUFFICES ASSUME Calm, [Next]_vars PROVE Calm'
      OBVIOUS
    <2>1. CASE UNCHANGED safeVars
      BY <2>1 DEF safeVars, safeConfig, Calm, CountTypes, CountsKeepUp, SomeIsYoung,
                  QuitIsCalm, Delayed
    <2>2. QED
      BY <2>1, EventsOfStep, CalmStep
  <1>3. Calm => SafeAfterASecond
    BY DEF Calm, CountTypes, QuitIsCalm, SafeAfterASecond, CanExit, Delayed
  <1>4. QED
    BY <1>1, <1>2, <1>3, PTL DEF Spec
---------------------------------------------------------------------------
(* The stacks of the scripts. *)

Cell == Stmt \union {End}

\* The block at each place of a stack is at the level of that place.
Nest(stack) ==
    \A k \in 1..Len(stack) : stack[k] # End => level[stack[k]] = Len(stack) - k + 1

Holds(stack, s) == \E k \in 1..Len(stack) : stack[k] = s

StackTypes ==
    /\ cursor \in [Script -> Seq(Cell)]
    /\ DOMAIN value = Stmt /\ value = [s \in Stmt |-> value[s]]

TopIsLive == \A i \in Script : cursor[i] # <<>> => Top(i) # End

\* Only delays and repeats keep a count, and only while they are executed.
CountsAreUsed ==
    \A s \in Stmt : value[s] # Unset =>
        /\ cmd[s].type \in {"delay", "repeat"}
        /\ \E i \in Script : Holds(cursor[i], s)

Stacks ==
    /\ StackTypes /\ TopIsLive /\ CountsAreUsed
    /\ \A i \in Script : Nest(cursor[i])

\* A set of numbers has a least one.
LEMMA Least ==
  ASSUME NEW T, T \subseteq Nat, T # {}
  PROVE  \E n \in T : \A k \in T : n <= k
  <1> DEFINE R == OpToRel(<, Nat)
  <1>1. IsWellFoundedOn(R, Nat)
    BY NatLessThanWellFounded
  <1>2. \A x, y \in Nat : x < y => <<x, y>> \in R
    BY DEF OpToRel
  <1> HIDE DEF R
  <1>3. PICK n \in T : \A k \in T : ~(<<k, n>> \in R)
    BY <1>1, WFMin
  <1>4. \A k \in T : ~(k < n)
    BY <1>2, <1>3
  <1>5. \A k \in T : n <= k
    BY <1>4
  <1>6. QED
    BY <1>5

\* What Unroll returns is the part of the stack from its first live block.
LEMMA UnrollKeeps ==
  ASSUME NEW stack \in Seq(Cell), Nest(stack)
  PROVE  /\ Unroll(stack) \in Seq(Cell)
         /\ Nest(Unroll(stack))
         /\ Unroll(stack) # <<>> => Head(Unroll(stack)) # End
         /\ \A s \in Stmt : Holds(stack, s) => Holds(Unroll(stack), s)
         /\ \A k \in 1..Len(Unroll(stack)) : Holds(stack, Unroll(stack)[k])
  <1> DEFINE live(k) == stack[k] # End /\ \A j \in 1..k - 1 : stack[j] = End
  <1>1. CASE \A k \in 1..Len(stack) : stack[k] = End
    BY <1>1, EndAssumption DEF Unroll, Nest, Holds, Cell
  <1>2. CASE ~(\A k \in 1..Len(stack) : stack[k] = End)
    <2>1. \E k \in 1..Len(stack) : live(k)
      <3> DEFINE T == {k \in 1..Len(stack) : stack[k] # End}
      <3>1. T \subseteq Nat /\ T # {}
        BY <1>2
      <3>2. PICK n \in T : \A k \in T : n <= k
        BY <3>1, Least
      <3>3. \A j \in 1..n - 1 : j \notin T
        BY <3>2
      <3>4. QED
        BY <3>2, <3>3
    <2> DEFINE n == CHOOSE k \in 1..Len(stack) : live(k)
    <2>2. n \in 1..Len(stack) /\ live(n)
      BY <2>1
    <2>3. Unroll(stack) = SubSeq(stack, n, Len(stack))
      BY <1>2 DEF Unroll
    <2> HIDE DEF n
    <2> DEFINE rest == SubSeq(stack, n, Len(stack))
    <2>4. /\ rest \in Seq(Cell)
          /\ Len(rest) = Len(stack) - n + 1
          /\ \A k \in 1..Len(rest) : rest[k] = stack[n + k - 1]
      <3>1. \A k \in n..Len(stack) : stack[k] \in Cell
        BY <2>2
      <3>2. QED
        BY <2>2, <3>1, SubSeqProperties
    <2> HIDE DEF rest
    <2>5. Nest(rest)
      <3> SUFFICES ASSUME NEW k \in 1..Len(rest), rest[k] # End
                   PROVE  level[rest[k]] = Len(rest) - k + 1
        BY DEF Nest
      <3>1. n + k - 1 \in 1..Len(stack) /\ rest[k] = stack[n + k - 1]
        BY <2>2, <2>4
      <3>2. level[stack[n + k - 1]] = Len(stack) - (n + k - 1) + 1
        BY <3>1 DEF Nest
      <3>3. QED
        BY <2>2, <2>4, <3>1, <3>2
    <2>6. rest # <<>> => Head(rest) # End
      BY <2>2, <2>4
    <2>7. \A s \in Stmt : Holds(stack, s) => Holds(rest, s)
      <3> SUFFICES ASSUME NEW s \in Stmt, NEW k \in 1..Len(stack), stack[k] = s
                   PROVE  \E j \in 1..Len(rest) : rest[j] = s
        BY DEF Holds
      <3>1. k >= n
        BY <2>2, EndAssumption
      <3>2. k - n + 1 \in 1..Len(rest) /\ rest[k - n + 1] = s
        BY <2>2, <2>4, <3>1
      <3>3. QED
        BY <3>2
    <2>8. \A k \in 1..Len(rest) : Holds(stack, rest[k])
      <3> SUFFICES ASSUME NEW k \in 1..Len(rest)
                   PROVE  \E j \in 1..Len(stack) : stack[j] = rest[k]
        BY DEF Holds
      <3>1. n + k - 1 \in 1..Len(stack) /\ stack[n + k - 1] = rest[k]
        BY <2>2, <2>4
      <3>2. QED
        BY <3>1
    <2>9. QED
      BY <2>3, <2>4, <2>5, <2>6, <2>7, <2>8 DEF rest
  <1>3. QED
    BY <1>1, <1>2

\* The fields of a statement that change a stack.
LEMMA Fields ==
  ASSUME NEW s \in Stmt
  PROVE  /\ cmd[s].next \in Cell
         /\ cmd[s].next # End => level[cmd[s].next] = level[s]
         /\ cmd[s].type \in Block => cmd[s].body \in Stmt /\ level[cmd[s].body] = level[s] + 1
         /\ level[s] \in 1..MaxLevel
  <1>1. cmd[s] \in Command
    BY CommandAssumption
  <1>2. cmd[s].next \in Cell /\ (cmd[s].type \in Block => cmd[s].body \in Stmt)
    BY <1>1 DEF Command, Block, Cell
  <1>3. QED
    BY <1>2, LevelAssumption DEF Cell

\* The rest of a stack, and a stack with a block on it, are stacks.
LEMMA TailKeeps ==
  ASSUME NEW stack \in Seq(Cell), stack # <<>>, Nest(stack)
  PROVE  /\ Tail(stack) \in Seq(Cell) /\ Nest(Tail(stack))
         /\ Len(Tail(stack)) = Len(stack) - 1
         /\ \A k \in 1..Len(Tail(stack)) : Tail(stack)[k] = stack[k + 1]
  <1>1. /\ Tail(stack) \in Seq(Cell) /\ Len(Tail(stack)) = Len(stack) - 1
        /\ \A k \in 1..Len(Tail(stack)) : Tail(stack)[k] = stack[k + 1]
    OBVIOUS
  <1>2. ASSUME NEW k \in 1..Len(Tail(stack)), Tail(stack)[k] # End
        PROVE  level[Tail(stack)[k]] = Len(Tail(stack)) - k + 1
    <2>1. k + 1 \in 1..Len(stack) /\ Tail(stack)[k] = stack[k + 1]
      BY <1>1
    <2>2. level[stack[k + 1]] = Len(stack) - (k + 1) + 1
      BY <1>2, <2>1 DEF Nest
    <2>3. QED
      BY <1>1, <2>1, <2>2
  <1>3. QED
    BY <1>1, <1>2 DEF Nest

LEMMA PushKeeps ==
  ASSUME NEW stack \in Seq(Cell), Nest(stack),
         NEW c \in Cell, c # End => level[c] = Len(stack) + 1
  PROVE  /\ <<c>> \o stack \in Seq(Cell) /\ Nest(<<c>> \o stack)
         /\ Len(<<c>> \o stack) = Len(stack) + 1
         /\ Head(<<c>> \o stack) = c
         /\ Holds(<<c>> \o stack, c)
         /\ \A s : Holds(stack, s) => Holds(<<c>> \o stack, s)
  <1> DEFINE new == <<c>> \o stack
  <1>1. /\ new \in Seq(Cell) /\ Len(new) = Len(stack) + 1
        /\ new[1] = c /\ Head(new) = c /\ new # <<>>
        /\ \A k \in 1..Len(stack) : new[k + 1] = stack[k]
    OBVIOUS
  <1> HIDE DEF new
  <1>2. ASSUME NEW k \in 1..Len(new), new[k] # End
        PROVE  level[new[k]] = Len(new) - k + 1
    <2>1. CASE k = 1
      BY <1>1, <1>2, <2>1
    <2>2. CASE k # 1
      <3>1. k - 1 \in 1..Len(stack) /\ new[k] = stack[k - 1]
        BY <1>1, <2>2
      <3>2. level[stack[k - 1]] = Len(stack) - (k - 1) + 1
        BY <1>2, <3>1 DEF Nest
      <3>3. QED
        BY <1>1, <3>1, <3>2
    <2>3. QED
      BY <2>1, <2>2
  <1>3. Holds(new, c)
    BY <1>1 DEF Holds
  <1>4. ASSUME NEW s, NEW k \in 1..Len(stack), stack[k] = s
        PROVE  \E j \in 1..Len(new) : new[j] = s
    <2>1. k + 1 \in 1..Len(new) /\ new[k + 1] = s
      BY <1>1, <1>4
    <2>2. QED
      BY <2>1
  <1>5. QED
    BY <1>1, <1>2, <1>3, <1>4 DEF Nest, Holds, new

\* The three ways to change the stack of a script that is executed.
After(i) == Unroll(<<cmd[Top(i)].next>> \o Tail(cursor[i]))
Inside(i) == <<cmd[Top(i)].body>> \o cursor[i]
Instead(i) == <<cmd[Top(i)].body, cmd[Top(i)].next>> \o Tail(cursor[i])

Good(stack) == stack \in Seq(Cell) /\ Nest(stack) /\ (stack # <<>> => Head(stack) # End)

LEMMA TopIsNested ==
  ASSUME Stacks, NEW i \in Script, cursor[i] # <<>>
  PROVE  /\ Top(i) \in Stmt
         /\ level[Top(i)] = Len(cursor[i])
         /\ cursor[i] \in Seq(Cell) /\ Nest(cursor[i])
         /\ \A s \in Stmt : Holds(cursor[i], s) => s = Top(i) \/ Holds(Tail(cursor[i]), s)
  <1>1. cursor[i] \in Seq(Cell) /\ Nest(cursor[i])
    BY DEF Stacks, StackTypes
  <1>2. 1 \in 1..Len(cursor[i]) /\ cursor[i][1] = Top(i) /\ Top(i) \in Cell
    BY <1>1 DEF Top
  <1>3. Top(i) # End
    BY DEF Stacks, TopIsLive
  <1>4. level[Top(i)] = Len(cursor[i])
    <2>1. level[Top(i)] = Len(cursor[i]) - 1 + 1
      BY <1>1, <1>2, <1>3 DEF Nest
    <2>2. QED
      BY <1>1, <2>1
  <1>5. ASSUME NEW s \in Stmt, NEW k \in 1..Len(cursor[i]), cursor[i][k] = s, k # 1
        PROVE  Holds(Tail(cursor[i]), s)
    <2>1. k - 1 \in 1..Len(Tail(cursor[i])) /\ Tail(cursor[i])[k - 1] = s
      BY <1>1, <1>5
    <2>2. QED
      BY <2>1 DEF Holds
  <1>6. QED
    BY <1>1, <1>2, <1>3, <1>4, <1>5 DEF Holds, Cell

LEMMA ChangesAreGood ==
  ASSUME Stacks, NEW i \in Script, cursor[i] # <<>>
  PROVE  /\ Good(After(i))
         /\ \A s \in Stmt : Holds(Tail(cursor[i]), s) => Holds(After(i), s)
         /\ Type(i) \in Block => Good(Inside(i)) /\ Good(Instead(i))
         /\ Type(i) \in Block => \A s \in Stmt : Holds(cursor[i], s) => Holds(Inside(i), s)
         /\ Type(i) \in Block => \A s \in Stmt : Holds(Tail(cursor[i]), s) => Holds(Instead(i), s)
  <1> DEFINE rest == Tail(cursor[i])
             next == cmd[Top(i)].next
             body == cmd[Top(i)].body
  <1>1. /\ Top(i) \in Stmt /\ level[Top(i)] = Len(cursor[i])
        /\ cursor[i] \in Seq(Cell) /\ Nest(cursor[i])
    BY TopIsNested
  <1>2. /\ next \in Cell /\ (next # End => level[next] = level[Top(i)])
        /\ Type(i) \in Block => body \in Cell /\ body # End /\ level[body] = level[Top(i)] + 1
    BY <1>1, Fields, EndAssumption DEF Type, Cell
  <1>3. rest \in Seq(Cell) /\ Nest(rest) /\ Len(rest) + 1 = Len(cursor[i])
    BY <1>1, TailKeeps
  <1> HIDE DEF rest, next, body
  <1>4. /\ <<next>> \o rest \in Seq(Cell) /\ Nest(<<next>> \o rest)
        /\ Len(<<next>> \o rest) = Len(cursor[i])
        /\ \A s : Holds(rest, s) => Holds(<<next>> \o rest, s)
    BY <1>1, <1>2, <1>3, PushKeeps
  <1>5. Good(After(i)) /\ \A s \in Stmt : Holds(rest, s) => Holds(After(i), s)
    BY <1>4, UnrollKeeps DEF After, Good, rest, next
  <1>6. ASSUME Type(i) \in Block
        PROVE  Good(Inside(i)) /\ \A s \in Stmt : Holds(cursor[i], s) => Holds(Inside(i), s)
    BY <1>1, <1>2, <1>6, PushKeeps DEF Inside, Good, body
  <1>7. ASSUME Type(i) \in Block
        PROVE  Good(Instead(i)) /\ \A s \in Stmt : Holds(rest, s) => Holds(Instead(i), s)
    <2>1. Instead(i) = <<body>> \o (<<next>> \o rest)
      BY <1>2, <1>3, <1>7 DEF Instead, body, next, rest
    <2>2. body \in Cell /\ body # End /\ level[body] = Len(<<next>> \o rest) + 1
      BY <1>1, <1>2, <1>4, <1>7
    <2> DEFINE stack == <<next>> \o rest
    <2>3. stack \in Seq(Cell) /\ Nest(stack) /\ level[body] = Len(stack) + 1
      BY <1>4, <2>2
    <2> HIDE DEF stack
    <2>4. /\ <<body>> \o stack \in Seq(Cell) /\ Nest(<<body>> \o stack)
          /\ Head(<<body>> \o stack) = body
          /\ \A s : Holds(stack, s) => Holds(<<body>> \o stack, s)
      BY <2>2, <2>3, PushKeeps
    <2>5. QED
      BY <1>4, <2>1, <2>2, <2>4 DEF Good, stack
  <1>8. QED
    BY <1>5, <1>6, <1>7 DEF rest

\* A script with a new stack, that keeps the statements that are executed.
LEMMA ChangeKeeps ==
  ASSUME Stacks, NEW i \in Script, cursor[i] # <<>>,
         NEW stack, Good(stack),
         cursor' = [cursor EXCEPT ![i] = stack],
         DOMAIN value' = Stmt, value' = [s \in Stmt |-> value'[s]],
         \A s \in Stmt \ {Top(i)} : value'[s] = value[s],
         value'[Top(i)] # Unset => Type(i) \in {"delay", "repeat"} /\ Holds(stack, Top(i)),
         \A s \in Stmt : Holds(Tail(cursor[i]), s) => Holds(stack, s)
  PROVE  Stacks'
  <1> USE DEF Stacks
  <1>1. cursor'[i] = stack /\ \A j \in Script \ {i} : cursor'[j] = cursor[j]
    BY DEF StackTypes
  <1>2. StackTypes'
    BY DEF StackTypes, Good, Cell
  <1>3. TopIsLive' /\ \A j \in Script : Nest(cursor'[j])
    BY <1>1 DEF TopIsLive, Top, Good
  <1>4. ASSUME NEW s \in Stmt, value'[s] # Unset
        PROVE  cmd[s].type \in {"delay", "repeat"} /\ \E j \in Script : Holds(cursor'[j], s)
    <2>1. CASE s = Top(i)
      BY <1>1, <1>4, <2>1 DEF Type
    <2>2. CASE s # Top(i)
      <3>1. value[s] # Unset
        BY <1>4, <2>2
      <3>2. PICK j \in Script : Holds(cursor[j], s)
        BY <3>1 DEF CountsAreUsed
      <3>3. Holds(cursor'[j], s)
        BY <1>1, <2>2, <3>2, TopIsNested
      <3>4. QED
        BY <3>1, <3>3 DEF CountsAreUsed
    <2>3. QED
      BY <2>1, <2>2
  <1>5. QED
    BY <1>2, <1>3, <1>4 DEF CountsAreUsed, Nest, Holds

\* script_run_next(), after a statement that leaves no count.
LEMMA NextKeeps ==
  ASSUME Stacks, NEW i \in Script, cursor[i] # <<>>, NextCmd(i),
         \/ UNCHANGED value /\ Type(i) \notin {"delay", "repeat"}
         \/ value' = [value EXCEPT ![Top(i)] = Unset]
  PROVE  Stacks'
  <1>1. Top(i) \in Stmt
    BY TopIsNested
  <1>2. value = [s \in Stmt |-> value[s]] /\ DOMAIN value = Stmt
    BY DEF Stacks, StackTypes
  <1>3. value'[Top(i)] = Unset /\ \A s \in Stmt \ {Top(i)} : value'[s] = value[s]
    BY <1>1, <1>2 DEF Stacks, CountsAreUsed, Type
  <1>4. DOMAIN value' = Stmt /\ value' = [s \in Stmt |-> value'[s]]
    BY <1>2
  <1>5. cursor' = [cursor EXCEPT ![i] = After(i)]
    BY DEF NextCmd, After, Stacks, StackTypes
  <1>6. Good(After(i)) /\ \A s \in Stmt : Holds(Tail(cursor[i]), s) => Holds(After(i), s)
    BY ChangesAreGood
  <1> HIDE DEF After
  <1>7. QED
    BY <1>3, <1>4, <1>5, <1>6, ChangeKeeps

\* A block that is pushed, over a statement that may keep a count.
LEMMA EnterKeeps ==
  ASSUME Stacks, NEW i \in Script, cursor[i] # <<>>, Enter(i), Type(i) \in Block,
         \/ UNCHANGED value
         \/ Type(i) = "repeat" /\ \E n : value' = [value EXCEPT ![Top(i)] = n]
  PROVE  Stacks'
  <1>1. Top(i) \in Stmt /\ cursor[i] \in Seq(Cell)
    BY TopIsNested
  <1>2. value = [s \in Stmt |-> value[s]] /\ DOMAIN value = Stmt
    BY DEF Stacks, StackTypes
  <1>3. \A s \in Stmt \ {Top(i)} : value'[s] = value[s]
    BY <1>1, <1>2
  <1>4. DOMAIN value' = Stmt /\ value' = [s \in Stmt |-> value'[s]]
    BY <1>2
  <1>5. cursor' = [cursor EXCEPT ![i] = Inside(i)]
    BY DEF Enter, Inside, Stacks, StackTypes
  <1>6. Good(Inside(i)) /\ \A s \in Stmt : Holds(cursor[i], s) => Holds(Inside(i), s)
    BY ChangesAreGood
  <1>7. Holds(cursor[i], Top(i))
    <2>1. 1 \in 1..Len(cursor[i]) /\ cursor[i][1] = Top(i)
      BY <1>1 DEF Top
    <2>2. QED
      BY <2>1 DEF Holds
  <1>8. \A s \in Stmt : Holds(Tail(cursor[i]), s) => Holds(cursor[i], s)
    <2> SUFFICES ASSUME NEW s \in Stmt, NEW k \in 1..Len(Tail(cursor[i])), Tail(cursor[i])[k] = s
                 PROVE  \E j \in 1..Len(cursor[i]) : cursor[i][j] = s
      BY DEF Holds
    <2>1. k + 1 \in 1..Len(cursor[i]) /\ cursor[i][k + 1] = s
      BY <1>1
    <2>2. QED
      BY <2>1
  <1>9. value'[Top(i)] # Unset => Type(i) \in {"delay", "repeat"}
    BY <1>1, <1>2 DEF Stacks, CountsAreUsed, Type
  <1> HIDE DEF Inside
  <1>10. QED
    BY <1>1, <1>3, <1>4, <1>5, <1>6, <1>7, <1>8, <1>9, ChangeKeeps

\* A block that is pushed in place of its statement.
LEMMA LeaveKeeps ==
  ASSUME Stacks, NEW i \in Script, cursor[i] # <<>>, Leave(i), Type(i) \in {"inner", "if"},
         UNCHANGED value
  PROVE  Stacks'
  <1>1. Top(i) \in Stmt /\ Type(i) \in Block
    BY TopIsNested DEF Block
  <1>2. value = [s \in Stmt |-> value[s]] /\ DOMAIN value = Stmt
    BY DEF Stacks, StackTypes
  <1>3. value[Top(i)] = Unset
    BY <1>1 DEF Stacks, CountsAreUsed, Type
  <1>4. cursor' = [cursor EXCEPT ![i] = Instead(i)]
    BY DEF Leave, Instead, Stacks, StackTypes
  <1>5. Good(Instead(i)) /\ \A s \in Stmt : Holds(Tail(cursor[i]), s) => Holds(Instead(i), s)
    BY <1>1, ChangesAreGood
  <1> HIDE DEF Instead
  <1>6. QED
    BY <1>2, <1>3, <1>4, <1>5, ChangeKeeps

\* The stacks stay, and a statement at the top of one may take a count.
LEMMA StayKeeps ==
  ASSUME Stacks, UNCHANGED cursor,
         \/ UNCHANGED value
         \/ \E i \in Script : \E n : /\ cursor[i] # <<>> /\ Type(i) = "delay"
                                    /\ value' = [value EXCEPT ![Top(i)] = n]
  PROVE  Stacks'
  <1>1. CASE UNCHANGED value
    BY <1>1 DEF Stacks, StackTypes, TopIsLive, CountsAreUsed, Nest, Holds, Top
  <1>2. ASSUME NEW i \in Script, NEW n, cursor[i] # <<>>, Type(i) = "delay",
               value' = [value EXCEPT ![Top(i)] = n]
        PROVE  Stacks'
    <2>1. Top(i) \in Stmt /\ cursor[i] \in Seq(Cell) /\ Good(cursor[i])
      BY <1>2, TopIsNested DEF Good, Stacks, TopIsLive, Top
    <2>2. 1 \in 1..Len(cursor[i]) /\ cursor[i][1] = Top(i)
      BY <1>2, <2>1 DEF Top
    <2>3. Holds(cursor[i], Top(i))
      BY <2>2 DEF Holds
    <2>4. \A s \in Stmt : Holds(Tail(cursor[i]), s) => Holds(cursor[i], s)
      <3> SUFFICES ASSUME NEW s \in Stmt, NEW k \in 1..Len(Tail(cursor[i])),
                          Tail(cursor[i])[k] = s
                   PROVE  \E j \in 1..Len(cursor[i]) : cursor[i][j] = s
        BY DEF Holds
      <3>1. k + 1 \in 1..Len(cursor[i]) /\ cursor[i][k + 1] = s
        BY <1>2, <2>1
      <3>2. QED
        BY <3>1
    <2>5. /\ value = [s \in Stmt |-> value[s]] /\ DOMAIN value = Stmt
          /\ cursor' = [cursor EXCEPT ![i] = cursor[i]]
      BY DEF Stacks, StackTypes
    <2>6. /\ DOMAIN value' = Stmt /\ value' = [s \in Stmt |-> value'[s]]
          /\ \A s \in Stmt \ {Top(i)} : value'[s] = value[s]
      BY <1>2, <2>5
    <2>7. Type(i) \in {"delay", "repeat"}
      BY <1>2
    <2> DEFINE stack == cursor[i]
    <2>8. /\ Good(stack) /\ cursor' = [cursor EXCEPT ![i] = stack] /\ Holds(stack, Top(i))
          /\ \A s \in Stmt : Holds(Tail(cursor[i]), s) => Holds(stack, s)
      BY <2>1, <2>3, <2>4, <2>5
    <2> HIDE DEF stack
    <2>9. QED
      BY <1>2, <2>6, <2>7, <2>8, ChangeKeeps
  <1>3. QED
    BY <1>1, <1>2

LEMMA FirstIsGood ==
  ASSUME NEW i \in Script
  PROVE  Good(<<first[i]>>)
  <1>1. first[i] \in Stmt /\ level[first[i]] = 1
    BY FirstAssumption, LevelAssumption
  <1>2. QED
    BY <1>1, EndAssumption DEF Good, Nest, Cell

\* hardware_script_start()
LEMMA RestartKeeps ==
  ASSUME Stacks, NEW ids, Restart(ids)
  PROVE  Stacks'
  <1>1. ASSUME NEW i \in Script
        PROVE  \/ cursor'[i] = cursor[i]
               \/ cursor[i] = <<>> /\ cursor'[i] = <<first[i]>>
    BY DEF Restart
  <1>2. \A i \in Script : Good(<<first[i]>>)
    BY FirstIsGood
  <1>3. \A i \in Script : Good(cursor'[i])
    <2> SUFFICES ASSUME NEW i \in Script PROVE Good(cursor'[i])
      OBVIOUS
    <2>1. Good(cursor[i])
      BY DEF Good, Stacks, StackTypes, TopIsLive, Top
    <2>2. QED
      BY <1>1, <1>2, <2>1
  <1>4. \A i \in Script, s \in Stmt : Holds(cursor[i], s) => Holds(cursor'[i], s)
    BY <1>1 DEF Holds
  <1>5. cursor' = [i \in Script |-> cursor'[i]] /\ UNCHANGED value
    BY DEF Restart
  <1>6. StackTypes' /\ TopIsLive' /\ \A i \in Script : Nest(cursor'[i])
    BY <1>3, <1>5 DEF Good, Stacks, StackTypes, TopIsLive, Top, Cell
  <1>7. CountsAreUsed'
    BY <1>4, <1>5 DEF Stacks, CountsAreUsed, Holds
  <1>8. QED
    BY <1>6, <1>7 DEF Stacks, Nest

LEMMA StacksInit == Init => Stacks
  <1> SUFFICES ASSUME Init PROVE Stacks
    OBVIOUS
  <1>1. \A i \in Script : cursor[i] = <<>> \/ cursor[i] = <<first[i]>>
    BY DEF Init
  <1>2. Good(<<>>)
    BY DEF Good, Nest
  <1>3. \A i \in Script : Good(cursor[i])
    BY <1>1, <1>2, FirstIsGood
  <1>4. StackTypes /\ CountsAreUsed
    BY <1>3 DEF Init, StackTypes, CountsAreUsed, Good
  <1>5. QED
    BY <1>3, <1>4 DEF Stacks, Good, TopIsLive, Top

LEMMA StackStep == Stacks /\ [Next]_vars => Stacks'
  <1> SUFFICES ASSUME Stacks, [Next]_vars PROVE Stacks'
    OBVIOUS
  <1>1. ASSUME NEW i \in Script, Step(i) PROVE Stacks'
    <2>1. cursor[i] # <<>>
      BY <1>1 DEF Step, Plays
    <2>2. CASE Evaluate(i)
      BY <2>1, <2>2, NextKeeps DEF Evaluate
    <2>3. CASE Wait(i)
      BY <2>1, <2>3, NextKeeps, StayKeeps DEF Wait
    <2>4. CASE Delay(i)
      BY <2>1, <2>4, NextKeeps, StayKeeps DEF Delay, DelayGoesOn, DelayEnds
    <2>5. CASE Repeat(i)
      BY <2>1, <2>5, NextKeeps, EnterKeeps DEF Repeat, Block
    <2>6. CASE LoopWhile(i)
      BY <2>1, <2>6, NextKeeps, EnterKeeps DEF LoopWhile, Block
    <2>7. CASE InnerIf(i)
      BY <2>1, <2>7, NextKeeps, LeaveKeeps DEF InnerIf
    <2>8. QED
      BY <1>1, <2>2, <2>3, <2>4, <2>5, <2>6, <2>7 DEF Step
  <1>2. CASE Give
    BY <1>2, StayKeeps DEF Give
  <1>3. ASSUME NEW i \in Script, Return(i) PROVE Stacks'
    BY <1>3, StayKeeps DEF Return
  <1>4. CASE Frame
    BY <1>4, RestartKeeps DEF Frame
  <1>5. CASE FrameEnd
    BY <1>5, RestartKeeps, StayKeeps DEF FrameEnd, machine
  <1>6. CASE Reset \/ Done \/ DoneEnd
    BY <1>6, StayKeeps DEF Reset, Done, DoneEnd, machine
  <1>7. CASE ResetEnd
    BY <1>7, RestartKeeps DEF ResetEnd
  <1>8. CASE Ended \/ UNCHANGED vars
    BY <1>8, StayKeeps DEF Ended, vars, machine
  <1>9. QED
    BY <1>1, <1>2, <1>3, <1>4, <1>5, <1>6, <1>7, <1>8 DEF Next, Go

\* Whatever the scripts are and whatever their conditions do, the stack of each
\* follows the nesting of its blocks and no count is left behind
\* (script_run_next(), script_run_cursor_push()).
THEOREM StackFollowsNesting == Spec => []StackIsNesting
  <1>1. Stacks => StackIsNesting
    BY DEF Stacks, TopIsLive, CountsAreUsed, StackIsNesting, Nest, Holds
  <1>2. QED
    BY <1>1, StacksInit, StackStep, PTL DEF Spec

\* No stack exceeds SCRIPT_STATE_STACK_MAX, if no nesting of blocks does.
StackFits == \A i \in Script : Len(cursor[i]) <= MaxLevel

THEOREM StackIsBounded == Spec => []StackFits
  <1>1. Stacks => StackFits
    <2> SUFFICES ASSUME Stacks, NEW i \in Script PROVE Len(cursor[i]) <= MaxLevel
      BY DEF StackFits
    <2>1. CASE cursor[i] = <<>>
      BY <2>1, LevelAssumption
    <2>2. CASE cursor[i] # <<>>
      <3>1. Top(i) \in Stmt /\ level[Top(i)] = Len(cursor[i])
        BY <2>2, TopIsNested
      <3>2. QED
        BY <3>1, Fields
    <2>3. QED
      BY <2>1, <2>2
  <1>2. QED
    BY <1>1, StacksInit, StackStep, PTL DEF Spec

---------------------------------------------------------------------------
(* The time of the delays. *)

\* The statements of a stack are of its script.
Mine(stack, i) == \A k \in 1..Len(stack) : stack[k] # End => owner[stack[k]] = i

\* The delay at the top of a script has been waiting.
Delaying(i) == cursor[i] # <<>> /\ Type(i) = "delay" /\ value[Top(i)] # Unset

\* A delay that keeps its count is at the top of its script.
DelaysAreTops ==
    \A s \in Stmt : cmd[s].type = "delay" /\ value[s] # Unset =>
        /\ value[s] \in Nat
        /\ cursor[owner[s]] # <<>> /\ Top(owner[s]) = s

\* Time is lost by no script; one that waits has too little of it, or is given
\* the chance to use it.
Accounts ==
    \A i \in Script :
        /\ ~Delaying(i) => debt[i] = time_to_play[i]
        /\ Delaying(i) =>
            /\ debt[i] = time_to_play[i] + Unit * (cmd[Top(i)].count - value[Top(i)])
            /\ \/ time_to_play[i] < Unit * value[Top(i)]
               \/ current = i /\ Unit < time_to_play[i]

TimeTypes == time_to_play \in [Script -> Nat] /\ debt \in [Script -> Int]

\* With the stacks, inductive.
Exact ==
    /\ TimeTypes
    /\ \A i \in Script : Mine(cursor[i], i)
    /\ DelaysAreTops /\ Accounts

\* Of a quotient and its remainder.
LEMMA Division ==
  ASSUME NEW a \in Nat, NEW b \in Nat, b > 0
  PROVE  /\ a \div b \in Nat /\ a % b \in Nat /\ a % b < b
         /\ a = b * (a \div b) + (a % b)
  OBVIOUS

\* Of the time of a count.
LEMMA Product ==
  ASSUME NEW u \in Nat, NEW a \in Nat, NEW b \in Nat
  PROVE  /\ a * u \in Nat /\ u * a = a * u
         /\ u * (a - b) = a * u - b * u
  OBVIOUS

\* The parts of a statement are of its script.
LEMMA Owners ==
  ASSUME NEW s \in Stmt
  PROVE  /\ cmd[s].next # End => owner[cmd[s].next] = owner[s]
         /\ cmd[s].type \in Block => owner[cmd[s].body] = owner[s]
         /\ owner[s] \in Script
         /\ cmd[s].type = "delay" => cmd[s].count \in Nat
  <1>1. cmd[s].type = "delay" => cmd[s].count \in Nat
    <2>1. cmd[s] \in Command
      BY CommandAssumption
    <2>2. QED
      BY <2>1 DEF Command
  <1>2. QED
    BY <1>1, Fields, OwnerAssumption DEF Cell

\* The stacks that the statements of a script make are of that script.
LEMMA ChangesAreMine ==
  ASSUME Stacks, NEW i \in Script, cursor[i] # <<>>, Mine(cursor[i], i)
  PROVE  /\ owner[Top(i)] = i
         /\ Mine(After(i), i)
         /\ Type(i) \in Block => Mine(Inside(i), i) /\ Mine(Instead(i), i)
  <1> DEFINE rest == Tail(cursor[i])
             next == cmd[Top(i)].next
             body == cmd[Top(i)].body
  <1>1. /\ Top(i) \in Stmt /\ level[Top(i)] = Len(cursor[i])
        /\ cursor[i] \in Seq(Cell) /\ Nest(cursor[i])
    BY TopIsNested
  <1>2. owner[Top(i)] = i
    <2>1. 1 \in 1..Len(cursor[i]) /\ cursor[i][1] = Top(i)
      BY <1>1 DEF Top
    <2>2. QED
      BY <1>1, <2>1, EndAssumption DEF Mine
  <1>3. /\ rest \in Seq(Cell) /\ Nest(rest) /\ Len(rest) + 1 = Len(cursor[i])
        /\ \A k \in 1..Len(rest) : rest[k] = cursor[i][k + 1]
    BY <1>1, TailKeeps
  <1>4. Mine(rest, i)
    <2> SUFFICES ASSUME NEW k \in 1..Len(rest), rest[k] # End PROVE owner[rest[k]] = i
      BY DEF Mine
    <2>1. k + 1 \in 1..Len(cursor[i]) /\ rest[k] = cursor[i][k + 1]
      BY <1>3
    <2>2. QED
      BY <2>1 DEF Mine
  <1>5. /\ next \in Cell /\ (next # End => owner[next] = i /\ level[next] = level[Top(i)])
        /\ Type(i) \in Block => body \in Cell /\ owner[body] = i
    BY <1>1, <1>2, Fields, Owners DEF Type, Cell
  <1>6. ASSUME NEW stack \in Seq(Cell), Mine(stack, i), NEW c \in Cell, c # End => owner[c] = i
        PROVE  Mine(<<c>> \o stack, i)
    <2> SUFFICES ASSUME NEW k \in 1..Len(<<c>> \o stack), (<<c>> \o stack)[k] # End
                 PROVE  owner[(<<c>> \o stack)[k]] = i
      BY DEF Mine
    <2>1. CASE k = 1
      BY <1>6, <2>1
    <2>2. CASE k # 1
      <3>1. k - 1 \in 1..Len(stack) /\ (<<c>> \o stack)[k] = stack[k - 1]
        BY <1>6, <2>2
      <3>2. QED
        BY <1>6, <3>1 DEF Mine
    <2>3. QED
      BY <2>1, <2>2
  <1> HIDE DEF rest, next, body
  <1>7. Mine(<<next>> \o rest, i) /\ <<next>> \o rest \in Seq(Cell) /\ Nest(<<next>> \o rest)
    BY <1>1, <1>3, <1>4, <1>5, <1>6, PushKeeps
  <1>8. Mine(After(i), i)
    <2> DEFINE new == <<next>> \o rest
    <2>1. new \in Seq(Cell) /\ Nest(new) /\ Mine(new, i) /\ After(i) = Unroll(new)
      BY <1>7 DEF After, next, rest
    <2> HIDE DEF new
    <2>2. \A k \in 1..Len(Unroll(new)) : Holds(new, Unroll(new)[k])
      BY <2>1, UnrollKeeps
    <2>3. QED
      BY <2>1, <2>2 DEF Mine, Holds
  <1>9. ASSUME Type(i) \in Block PROVE Mine(Inside(i), i) /\ Mine(Instead(i), i)
    <2>1. Inside(i) = <<body>> \o cursor[i] /\ Instead(i) = <<body>> \o (<<next>> \o rest)
      BY <1>3, <1>5, <1>9 DEF Inside, Instead, body, next, rest
    <2>2. QED
      BY <1>1, <1>5, <1>6, <1>7, <1>9, <2>1
  <1>10. QED
    BY <1>2, <1>8, <1>9

LEMMA ExactInit == Init => Exact
  <1> SUFFICES ASSUME Init PROVE Exact
    OBVIOUS
  <1>1. \A i \in Script : Mine(cursor[i], i)
    <2>1. \A i \in Script : cursor[i] = <<>> \/ cursor[i] = <<first[i]>>
      BY DEF Init
    <2>2. \A i \in Script : Mine(<<>>, i) /\ Mine(<<first[i]>>, i)
      BY OwnerAssumption DEF Mine
    <2>3. QED
      BY <2>1, <2>2
  <1>2. TimeTypes
    BY DEF Init, TimeTypes
  <1>3. \A s \in Stmt : value[s] = Unset
    BY DEF Init
  <1>4. \A i \in Script : ~Delaying(i)
    <2>1. \A i \in Script : cursor[i] # <<>> => Top(i) \in Stmt
      BY FirstAssumption DEF Init, Top
    <2>2. QED
      BY <1>3, <2>1 DEF Delaying
  <1>5. DelaysAreTops /\ Accounts
    BY <1>3, <1>4 DEF Init, DelaysAreTops, Accounts
  <1>6. QED
    BY <1>1, <1>2, <1>5 DEF Exact

\* A statement is over, or isn't a delay: whatever comes to the top has no count.
LEMMA MoveIsExact ==
  ASSUME Stacks, Exact, NEW i \in Script, cursor[i] # <<>>,
         NEW stack, Good(stack), Mine(stack, i),
         cursor' = [cursor EXCEPT ![i] = stack],
         \A s \in Stmt \ {Top(i)} : value'[s] = value[s],
         Type(i) = "delay" => value'[Top(i)] = Unset,
         NEW t \in Nat,
         time_to_play' = [time_to_play EXCEPT ![i] = t],
         debt' = [debt EXCEPT ![i] = t],
         UNCHANGED current
  PROVE  Exact'
  <1>1. /\ cursor'[i] = stack /\ \A j \in Script \ {i} : cursor'[j] = cursor[j]
        /\ time_to_play'[i] = t /\ \A j \in Script \ {i} : time_to_play'[j] = time_to_play[j]
        /\ debt'[i] = t /\ \A j \in Script \ {i} : debt'[j] = debt[j]
    BY DEF Stacks, StackTypes, Exact, TimeTypes
  <1>2. \A j \in Script : cursor[j] # <<>> => Top(j) \in Stmt /\ owner[Top(j)] = j
    BY TopIsNested, ChangesAreMine DEF Exact
  <1>3. ASSUME NEW s \in Stmt, cmd[s].type = "delay", value'[s] # Unset
        PROVE  /\ value'[s] \in Nat /\ owner[s] # i
               /\ cursor'[owner[s]] # <<>> /\ Top(owner[s])' = s
    <2>1. s # Top(i) /\ value'[s] = value[s]
      BY <1>3 DEF Type
    <2>2. value[s] \in Nat /\ cursor[owner[s]] # <<>> /\ Top(owner[s]) = s
      BY <1>3, <2>1 DEF Exact, DelaysAreTops
    <2>3. owner[s] \in Script /\ owner[s] # i
      BY <2>1, <2>2, Owners
    <2>4. QED
      BY <1>1, <2>1, <2>2, <2>3 DEF Top
  <1>4. ~Delaying(i)'
    <2> SUFFICES ASSUME stack # <<>>, cmd[Head(stack)].type = "delay", value'[Head(stack)] # Unset
                 PROVE  FALSE
      BY <1>1 DEF Delaying, Type, Top
    <2>1. 1 \in 1..Len(stack) /\ stack[1] = Head(stack) /\ Head(stack) \in Stmt
      BY DEF Good, Cell
    <2>2. owner[Head(stack)] = i
      BY <2>1, EndAssumption DEF Mine
    <2>3. QED
      BY <1>3, <2>1, <2>2
  <1>5. ASSUME NEW j \in Script, j # i
        PROVE  /\ Delaying(j)' <=> Delaying(j)
               /\ Top(j)' = Top(j)
               /\ Delaying(j) => value'[Top(j)] = value[Top(j)]
    <2>1. cursor'[j] = cursor[j]
      BY <1>1, <1>5
    <2>2. cursor[j] # <<>> => value'[Top(j)] = value[Top(j)]
      BY <1>2, <1>5
    <2>3. QED
      BY <2>1, <2>2 DEF Delaying, Type, Top
  <1>6. Accounts'
    <2> SUFFICES ASSUME NEW j \in Script
                 PROVE  /\ ~Delaying(j)' => debt'[j] = time_to_play'[j]
                        /\ Delaying(j)' =>
                            /\ debt'[j] = time_to_play'[j] + Unit * (cmd[Top(j)'].count - value'[Top(j)'])
                            /\ \/ time_to_play'[j] < Unit * value'[Top(j)']
                               \/ current' = j /\ Unit < time_to_play'[j]
      BY DEF Accounts
    <2>1. CASE j = i
      BY <1>1, <1>4, <2>1
    <2>2. CASE j # i
      BY <1>1, <1>5, <2>2 DEF Exact, Accounts
    <2>3. QED
      BY <2>1, <2>2
  <1>7. TimeTypes'
    BY DEF Exact, TimeTypes
  <1>8. \A j \in Script : Mine(cursor'[j], j)
    BY <1>1 DEF Exact
  <1>9. DelaysAreTops'
    BY <1>3 DEF DelaysAreTops
  <1>10. QED
    BY <1>6, <1>7, <1>8, <1>9 DEF Exact, Mine

\* What remains of the count of a delay stands for the time already used.
LEMMA TimeIsCounted ==
  ASSUME Stacks, Exact, NEW i \in Script, cursor[i] # <<>>, Type(i) = "delay"
  PROVE  /\ Count(i) \in Nat
         /\ debt[i] = time_to_play[i] + Unit * (cmd[Top(i)].count - Count(i))
  <1> DEFINE s == Top(i)
             c == cmd[s].count
             n == Count(i)
  <1>1. s \in Stmt /\ c \in Nat /\ time_to_play[i] \in Nat /\ cmd[s].type = "delay"
    BY TopIsNested, Owners DEF Exact, TimeTypes, Type
  <1>2. CASE value[s] = Unset
    <2>1. n = c /\ ~Delaying(i)
      BY <1>2 DEF Count, Delaying
    <2>2. debt[i] = time_to_play[i]
      BY <2>1 DEF Exact, Accounts
    <2>3. QED
      BY <1>1, <2>1, <2>2, TimeAssumption
  <1>3. CASE value[s] # Unset
    <2>1. n = value[s] /\ Delaying(i)
      BY <1>3 DEF Count, Delaying
    <2>2. n \in Nat
      BY <1>1, <1>3, <2>1 DEF Exact, DelaysAreTops
    <2>3. QED
      BY <2>1, <2>2 DEF Exact, Accounts
  <1>4. QED
    BY <1>2, <1>3

\* A delay uses the time by whole units.
LEMMA GoOnIsExact ==
  ASSUME Stacks, Exact, NEW i \in Script, cursor[i] # <<>>, Type(i) = "delay",
         time_to_play[i] < Count(i) * Unit, DelayGoesOn(i), UNCHANGED current
  PROVE  Exact'
  <1> DEFINE s == Top(i)
             t == time_to_play[i]
             c == cmd[s].count
             n == Count(i)
             q == t \div Unit
             r == t % Unit
  <1>1. s \in Stmt /\ owner[s] = i /\ c \in Nat /\ t \in Nat /\ cmd[s].type = "delay"
    BY TopIsNested, ChangesAreMine, Owners DEF Exact, TimeTypes, Type
  <1>2. n \in Nat /\ debt[i] = t + Unit * (c - n)
    BY TimeIsCounted
  <1>3. q \in Nat /\ r \in Nat /\ r < Unit /\ t = Unit * q + r
    BY <1>1, Division, TimeAssumption
  <1>4. value' = [value EXCEPT ![s] = n - q] /\ time_to_play' = [time_to_play EXCEPT ![i] = r]
        /\ UNCHANGED <<cursor, debt>> /\ t < n * Unit
    BY DEF DelayGoesOn
  <1> HIDE DEF n, q, r, c
  <1>5. n - q \in Nat /\ n - q >= 1
    <2>1. Unit * q < n * Unit
      BY <1>1, <1>2, <1>3, <1>4, TimeAssumption
    <2>2. q < n
      BY <1>2, <1>3, <2>1, TimeAssumption
    <2>3. QED
      BY <1>2, <1>3, <2>2
  <1>6. r < Unit * (n - q)
    <2>1. Unit <= Unit * (n - q)
      BY <1>5, TimeAssumption
    <2>2. QED
      BY <1>3, <1>5, <2>1, TimeAssumption
  <1>7. debt[i] = r + Unit * (c - (n - q))
    <2>1. /\ Unit * (c - n) = c * Unit - n * Unit
          /\ Unit * (c - (n - q)) = c * Unit - (n - q) * Unit
          /\ Unit * (n - q) = n * Unit - q * Unit /\ (n - q) * Unit = Unit * (n - q)
          /\ q * Unit = Unit * q
          /\ n * Unit \in Nat /\ q * Unit \in Nat /\ c * Unit \in Nat
      BY <1>1, <1>2, <1>3, <1>5, Product, TimeAssumption
    <2>2. QED
      BY <1>1, <1>2, <1>3, <2>1, TimeAssumption
  <1> HIDE DEF t
  <1>8. /\ value'[s] = n - q /\ \A x \in Stmt \ {s} : value'[x] = value[x]
        /\ time_to_play'[i] = r
        /\ \A j \in Script \ {i} : time_to_play'[j] = time_to_play[j]
    BY <1>1, <1>4 DEF Stacks, StackTypes, Exact, TimeTypes
  <1>9. \A j \in Script : Top(j)' = Top(j)
    BY <1>4 DEF Top
  <1>10. Delaying(i)'
    BY <1>1, <1>4, <1>5, <1>8, <1>9 DEF Delaying, Type, Unset
  <1>11. ASSUME NEW j \in Script, j # i
         PROVE  (Delaying(j)' <=> Delaying(j)) /\ (Delaying(j) => value'[Top(j)] = value[Top(j)])
    <2>1. cursor[j] # <<>> => Top(j) \in Stmt /\ owner[Top(j)] = j
      BY TopIsNested, ChangesAreMine DEF Exact
    <2>2. cursor[j] # <<>> => value'[Top(j)] = value[Top(j)]
      BY <1>1, <1>8, <1>11, <2>1
    <2>3. QED
      BY <1>4, <1>9, <2>2 DEF Delaying, Type
  <1>12. Accounts'
    <2> SUFFICES ASSUME NEW j \in Script
                 PROVE  /\ ~Delaying(j)' => debt'[j] = time_to_play'[j]
                        /\ Delaying(j)' =>
                            /\ debt'[j] = time_to_play'[j] + Unit * (cmd[Top(j)'].count - value'[Top(j)'])
                            /\ \/ time_to_play'[j] < Unit * value'[Top(j)']
                               \/ current' = j /\ Unit < time_to_play'[j]
      BY DEF Accounts
    <2>1. CASE j = i
      BY <1>4, <1>6, <1>7, <1>8, <1>9, <1>10, <2>1 DEF c
    <2>2. CASE j # i
      BY <1>4, <1>8, <1>9, <1>11, <2>2 DEF Exact, Accounts
    <2>3. QED
      BY <2>1, <2>2
  <1>13. TimeTypes'
    BY <1>3, <1>4 DEF Exact, TimeTypes
  <1>14. DelaysAreTops'
    <2> SUFFICES ASSUME NEW d \in Stmt, cmd[d].type = "delay", value'[d] # Unset
                 PROVE  value'[d] \in Nat /\ cursor'[owner[d]] # <<>> /\ Top(owner[d])' = d
      BY DEF DelaysAreTops
    <2>1. CASE d = s
      BY <1>1, <1>4, <1>5, <1>8, <1>9, <2>1
    <2>2. CASE d # s
      BY <1>4, <1>8, <1>9, <2>2, Owners DEF Exact, DelaysAreTops
    <2>3. QED
      BY <2>1, <2>2
  <1>15. \A j \in Script : Mine(cursor'[j], j)
    BY <1>4 DEF Exact
  <1>16. QED
    BY <1>12, <1>13, <1>14, <1>15 DEF Exact, Mine

\* What is left of the time after a delay is that of the next statement.
LEMMA EndIsExact ==
  ASSUME Stacks, Exact, NEW i \in Script, cursor[i] # <<>>, Type(i) = "delay",
         ~(time_to_play[i] < Count(i) * Unit), DelayEnds(i), UNCHANGED current
  PROVE  Exact'
  <1> DEFINE t == time_to_play[i]
             c == cmd[Top(i)].count
             n == Count(i)
             rest == t - n * Unit
  <1>1. Top(i) \in Stmt /\ c \in Nat /\ t \in Nat
    BY TopIsNested, Owners DEF Exact, TimeTypes, Type
  <1>2. n \in Nat /\ debt[i] = t + Unit * (c - n)
    BY TimeIsCounted
  <1>3. rest \in Nat /\ debt[i] - c * Unit = rest
    <2> HIDE DEF n, c, t
    <2>1. Unit * (c - n) = c * Unit - n * Unit /\ n * Unit \in Nat /\ c * Unit \in Nat
      BY <1>1, <1>2, Product, TimeAssumption
    <2>2. QED
      BY <1>1, <1>2, <2>1 DEF n, t
  <1>4. /\ cursor' = [cursor EXCEPT ![i] = After(i)]
        /\ value'[Top(i)] = Unset /\ \A s \in Stmt \ {Top(i)} : value'[s] = value[s]
    BY <1>1 DEF DelayEnds, NextCmd, After, Stacks, StackTypes
  <1>5. /\ time_to_play' = [time_to_play EXCEPT ![i] = rest]
        /\ debt' = [debt EXCEPT ![i] = rest]
    BY <1>3 DEF DelayEnds
  <1>6. Good(After(i)) /\ Mine(After(i), i)
    BY ChangesAreGood, ChangesAreMine DEF Exact
  <1> HIDE DEF rest, After
  <1>7. QED
    BY <1>3, <1>4, <1>5, <1>6, MoveIsExact

\* The scripts that start have no delay that waits.
LEMMA RestartIsExact ==
  ASSUME Stacks, Exact, NEW ids, Restart(ids), UNCHANGED current
  PROVE  Exact'
  <1>1. UNCHANGED <<time_to_play, value, debt, current>>
    BY DEF Restart
  <1>2. ASSUME NEW i \in Script
        PROVE  \/ cursor'[i] = cursor[i]
               \/ cursor[i] = <<>> /\ cursor'[i] = <<first[i]>>
    BY DEF Restart
  <1>3. \A i \in Script : Mine(cursor'[i], i)
    <2>1. \A i \in Script : Mine(<<first[i]>>, i)
      BY OwnerAssumption DEF Mine
    <2>2. QED
      BY <1>2, <2>1 DEF Exact
  <1>4. DelaysAreTops'
    BY <1>1, <1>2, Owners DEF Exact, DelaysAreTops, Top
  <1>5. ASSUME NEW i \in Script
        PROVE  (Delaying(i)' <=> Delaying(i)) /\ (Delaying(i) => Top(i)' = Top(i))
    <2>1. CASE cursor'[i] = cursor[i]
      BY <1>1, <2>1 DEF Delaying, Type, Top
    <2>2. CASE cursor[i] = <<>> /\ cursor'[i] = <<first[i]>>
      <3>1. first[i] \in Stmt /\ owner[first[i]] = i /\ Top(i)' = first[i]
        BY <2>2, FirstAssumption, OwnerAssumption DEF Top
      <3>2. ~(cmd[first[i]].type = "delay" /\ value[first[i]] # Unset)
        BY <2>2, <3>1 DEF Exact, DelaysAreTops
      <3>3. QED
        BY <1>1, <2>2, <3>1, <3>2 DEF Delaying, Type
    <2>3. QED
      BY <1>2, <2>1, <2>2
  <1>6. Accounts'
    BY <1>1, <1>5 DEF Exact, Accounts
  <1>7. QED
    BY <1>1, <1>3, <1>4, <1>6 DEF Exact, TimeTypes, Mine

\* The other steps change no script.
LEMMA StayIsExact ==
  ASSUME Exact, UNCHANGED <<machine, current>>
  PROVE  Exact'
  BY DEF Exact, TimeTypes, Mine, DelaysAreTops, Accounts, Delaying, Type, Top, machine

\* The scripts keep their statements, while their times or the turn change.
LEMMA TimeIsExact ==
  ASSUME Exact, UNCHANGED <<cursor, value>>, TimeTypes', Accounts'
  PROVE  Exact'
  BY DEF Exact, Mine, DelaysAreTops, Top

\* hardware_script_idle_single()
LEMMA GiveIsExact ==
  ASSUME Stacks, Exact, Give
  PROVE  Exact'
  <1> DEFINE i == Head(todo)
             time == IF phase = "frame" THEN FrameTime ELSE Second
  <1>1. time \in Nat /\ Unit < time /\ Unit \in Nat
    BY TimeAssumption
  <1>2. /\ current = Nobody /\ UNCHANGED <<cursor, value>>
        /\ IF cursor[i] = <<>> THEN UNCHANGED <<current, time_to_play, debt>>
           ELSE /\ current' = i
                /\ time_to_play' = [time_to_play EXCEPT ![i] = @ + time]
                /\ debt' = [debt EXCEPT ![i] = @ + time]
    BY DEF Give
  <1> HIDE DEF i, time
  <1>3. CASE cursor[i] = <<>>
    BY <1>2, <1>3, StayIsExact DEF machine
  <1>4. CASE cursor[i] # <<>>
    <2>1. TimeTypes'
      BY <1>1, <1>2, <1>4 DEF Exact, TimeTypes
    <2>2. ASSUME NEW j \in Script
          PROVE  /\ (Delaying(j)' <=> Delaying(j)) /\ Top(j)' = Top(j)
                 /\ value'[Top(j)] = value[Top(j)]
                 /\ debt'[j] = IF j = i THEN debt[j] + time ELSE debt[j]
                 /\ time_to_play'[j] = IF j = i THEN time_to_play[j] + time ELSE time_to_play[j]
                 /\ time_to_play[j] \in Nat /\ debt[j] \in Int
      BY <1>2, <1>4 DEF Exact, TimeTypes, Delaying, Type, Top
    <2>3. Accounts'
      <3> SUFFICES ASSUME NEW j \in Script
                   PROVE  /\ ~Delaying(j)' => debt'[j] = time_to_play'[j]
                          /\ Delaying(j)' =>
                              /\ debt'[j] = time_to_play'[j] + Unit * (cmd[Top(j)'].count - value'[Top(j)'])
                              /\ \/ time_to_play'[j] < Unit * value'[Top(j)']
                                 \/ current' = j /\ Unit < time_to_play'[j]
        BY DEF Accounts
      <3> DEFINE used == Unit * (cmd[Top(j)].count - value[Top(j)])
      <3>1. /\ ~Delaying(j) => debt[j] = time_to_play[j]
            /\ Delaying(j) =>
                /\ debt[j] = time_to_play[j] + used
                /\ time_to_play[j] < Unit * value[Top(j)] \/ current = j
        BY DEF Exact, Accounts
      <3>2. Delaying(j) => used \in Int
        BY TopIsNested, Owners, TimeAssumption DEF Exact, DelaysAreTops, Delaying, Type
      <3>3. /\ Unit * (cmd[Top(j)'].count - value'[Top(j)']) = used
            /\ Unit * value'[Top(j)'] = Unit * value[Top(j)]
        BY <2>2
      <3> HIDE DEF used
      <3>4. CASE j = i
        BY <1>1, <1>2, <1>4, <2>2, <3>1, <3>2, <3>3, <3>4
      <3>5. CASE j # i
        BY <1>1, <1>2, <1>4, <2>2, <3>1, <3>2, <3>3, <3>5, OwnerAssumption
      <3>6. QED
        BY <3>4, <3>5
    <2>4. QED
      BY <1>2, <2>1, <2>3, TimeIsExact
  <1>5. QED
    BY <1>3, <1>4

\* The loop of script_run() leaves a delay that has too little time.
LEMMA ReturnIsExact ==
  ASSUME Exact, NEW i \in Script, Return(i)
  PROVE  Exact'
  <1>1. /\ current = i /\ (cursor[i] # <<>> => ~(Unit < time_to_play[i]))
        /\ UNCHANGED <<cursor, value>>
    BY TimeAssumption DEF Return, Plays, Exact, TimeTypes
  <1>2. TimeTypes'
    BY DEF Return, Exact, TimeTypes
  <1>3. ASSUME NEW j \in Script
        PROVE  /\ (Delaying(j)' <=> Delaying(j)) /\ Top(j)' = Top(j)
               /\ value'[Top(j)] = value[Top(j)]
    BY <1>1 DEF Delaying, Type, Top
  <1>4. CASE cursor[i] # <<>>
    BY <1>1, <1>3, <1>4, <1>2, TimeIsExact DEF Return, Exact, Accounts, Delaying
  <1>5. CASE cursor[i] = <<>>
    <2>1. ~Delaying(i)
      BY <1>5 DEF Delaying
    <2>2. /\ time_to_play'[i] = 0 /\ debt'[i] = 0
          /\ \A j \in Script \ {i} : time_to_play'[j] = time_to_play[j] /\ debt'[j] = debt[j]
      BY <1>5 DEF Return, Exact, TimeTypes
    <2>3. Accounts'
      BY <1>1, <1>3, <2>1, <2>2 DEF Exact, Accounts
    <2>4. QED
      BY <1>1, <1>2, <2>3, TimeIsExact
  <1>6. QED
    BY <1>4, <1>5

\* A statement that is not a delay: the time stays, or is given up.
LEMMA OtherIsExact ==
  ASSUME Stacks, Exact, NEW i \in Script, cursor[i] # <<>>, Type(i) # "delay",
         NEW stack, Good(stack), Mine(stack, i),
         cursor' = [cursor EXCEPT ![i] = stack],
         UNCHANGED value \/ \E n : value' = [value EXCEPT ![Top(i)] = n],
         \/ UNCHANGED <<time_to_play, debt>>
         \/ time_to_play' = [time_to_play EXCEPT ![i] = 0] /\ debt' = [debt EXCEPT ![i] = 0],
         UNCHANGED current
  PROVE  Exact'
  <1>1. \A s \in Stmt \ {Top(i)} : value'[s] = value[s]
    BY DEF Stacks, StackTypes
  <1>2. PICK t \in Nat : /\ time_to_play' = [time_to_play EXCEPT ![i] = t]
                         /\ debt' = [debt EXCEPT ![i] = t]
    <2>1. CASE UNCHANGED <<time_to_play, debt>>
      <3>1. debt[i] = time_to_play[i] /\ time_to_play[i] \in Nat
        BY DEF Exact, TimeTypes, Accounts, Delaying
      <3>2. /\ time_to_play' = [time_to_play EXCEPT ![i] = time_to_play[i]]
            /\ debt' = [debt EXCEPT ![i] = time_to_play[i]]
        BY <2>1, <3>1 DEF Exact, TimeTypes
      <3>3. QED
        BY <3>1, <3>2
    <2>2. QED
      BY <2>1
  <1>3. QED
    BY <1>1, <1>2, MoveIsExact

\* script_run_step()
LEMMA StepIsExact ==
  ASSUME Stacks, Exact, NEW i \in Script, Step(i)
  PROVE  Exact'
  <1>1. cursor[i] # <<>> /\ UNCHANGED current /\ Mine(cursor[i], i)
    BY DEF Step, Plays, Exact
  <1>2. Good(cursor[i]) /\ cursor = [cursor EXCEPT ![i] = cursor[i]]
    BY <1>1, TopIsNested DEF Good, Stacks, StackTypes, TopIsLive, Top
  <1>3. NextCmd(i) => \E stack : Good(stack) /\ Mine(stack, i) /\ cursor' = [cursor EXCEPT ![i] = stack]
    <2>1. NextCmd(i) => cursor' = [cursor EXCEPT ![i] = After(i)]
      BY DEF NextCmd, After, Stacks, StackTypes
    <2>2. QED
      BY <1>1, <2>1, ChangesAreGood, ChangesAreMine
  <1>4. Enter(i) /\ Type(i) \in Block =>
            \E stack : Good(stack) /\ Mine(stack, i) /\ cursor' = [cursor EXCEPT ![i] = stack]
    <2>1. Enter(i) => cursor' = [cursor EXCEPT ![i] = Inside(i)]
      BY DEF Enter, Inside, Stacks, StackTypes
    <2>2. QED
      BY <1>1, <2>1, ChangesAreGood, ChangesAreMine
  <1>5. Leave(i) /\ Type(i) \in Block =>
            \E stack : Good(stack) /\ Mine(stack, i) /\ cursor' = [cursor EXCEPT ![i] = stack]
    <2>1. Leave(i) => cursor' = [cursor EXCEPT ![i] = Instead(i)]
      BY DEF Leave, Instead, Stacks, StackTypes
    <2>2. QED
      BY <1>1, <2>1, ChangesAreGood, ChangesAreMine
  <1>6. CASE Evaluate(i)
    BY <1>1, <1>3, <1>6, OtherIsExact DEF Evaluate
  <1>7. CASE Wait(i)
    <2>1. CASE NextCmd(i)
      BY <1>1, <1>3, <1>7, <2>1, OtherIsExact DEF Wait
    <2>2. CASE UNCHANGED cursor
      BY <1>1, <1>2, <1>7, <2>2, OtherIsExact DEF Wait
    <2>3. QED
      BY <1>7, <2>1, <2>2 DEF Wait
  <1>8. CASE Delay(i)
    <2>1. CASE time_to_play[i] < Count(i) * Unit
      BY <1>1, <1>8, <2>1, GoOnIsExact DEF Delay
    <2>2. CASE ~(time_to_play[i] < Count(i) * Unit)
      BY <1>1, <1>8, <2>2, EndIsExact DEF Delay
    <2>3. QED
      BY <2>1, <2>2
  <1>9. CASE Repeat(i)
    <2>1. CASE Enter(i)
      BY <1>1, <1>4, <1>9, <2>1, OtherIsExact DEF Repeat, Block
    <2>2. CASE NextCmd(i)
      BY <1>1, <1>3, <1>9, <2>2, OtherIsExact DEF Repeat
    <2>3. QED
      BY <1>9, <2>1, <2>2 DEF Repeat
  <1>10. CASE LoopWhile(i)
    <2>1. CASE Enter(i)
      BY <1>1, <1>4, <1>10, <2>1, OtherIsExact DEF LoopWhile, Block
    <2>2. CASE NextCmd(i)
      BY <1>1, <1>3, <1>10, <2>2, OtherIsExact DEF LoopWhile
    <2>3. QED
      BY <1>10, <2>1, <2>2 DEF LoopWhile
  <1>11. CASE InnerIf(i)
    <2>1. CASE Leave(i)
      BY <1>1, <1>5, <1>11, <2>1, OtherIsExact DEF InnerIf, Block
    <2>2. CASE NextCmd(i)
      BY <1>1, <1>3, <1>11, <2>2, OtherIsExact DEF InnerIf
    <2>3. QED
      BY <1>11, <2>1, <2>2 DEF InnerIf
  <1>12. QED
    BY <1>6, <1>7, <1>8, <1>9, <1>10, <1>11 DEF Step

LEMMA ExactStep == Stacks /\ Exact /\ [Next]_vars => Exact'
  <1> SUFFICES ASSUME Stacks, Exact, [Next]_vars PROVE Exact'
    OBVIOUS
  <1>1. ASSUME NEW i \in Script, Step(i) \/ Return(i) PROVE Exact'
    BY <1>1, StepIsExact, ReturnIsExact
  <1>2. CASE Give
    BY <1>2, GiveIsExact
  <1>3. CASE Frame
    BY <1>3, RestartIsExact DEF Frame
  <1>4. CASE FrameEnd
    BY <1>4, RestartIsExact, StayIsExact DEF FrameEnd
  <1>5. CASE ResetEnd
    BY <1>5, RestartIsExact DEF ResetEnd
  <1>6. CASE Reset \/ Done \/ DoneEnd \/ Ended \/ UNCHANGED vars
    BY <1>6, StayIsExact DEF Reset, Done, DoneEnd, Ended, vars
  <1>7. QED
    BY <1>1, <1>2, <1>3, <1>4, <1>5, <1>6 DEF Next, Go

\* Whatever the scripts are, no time given to them is lost or used twice, and no
\* delay is left that is over (script_run_delay()).
THEOREM DelaysAreExact == Spec => []DelayIsExact
  <1>1. Stacks /\ Exact => DelayIsExact
    <2> SUFFICES ASSUME Stacks, Exact, NEW i \in Script, cursor[i] # <<>>
                 PROVE  LET kept == Type(i) = "delay" /\ value[Top(i)] # Unset
                        IN  /\ ~kept => debt[i] = time_to_play[i]
                            /\ kept => debt[i] = time_to_play[i] + Unit * (cmd[Top(i)].count - value[Top(i)])
                            /\ kept /\ current # i => debt[i] < Unit * cmd[Top(i)].count
      BY DEF DelayIsExact
    <2> DEFINE c == cmd[Top(i)].count
               v == value[Top(i)]
    <2>1. /\ ~Delaying(i) => debt[i] = time_to_play[i]
          /\ Delaying(i) =>
              /\ debt[i] = time_to_play[i] + Unit * (c - v)
              /\ time_to_play[i] < Unit * v \/ current = i
      BY DEF Exact, Accounts
    <2>2. Delaying(i) => c \in Nat /\ v \in Nat /\ time_to_play[i] \in Nat
      BY TopIsNested, Owners DEF Exact, TimeTypes, DelaysAreTops, Delaying, Type
    <2> HIDE DEF c, v
    <2>3. Delaying(i) /\ current # i => debt[i] < Unit * c
      <3>1. c \in Nat /\ v \in Nat => Unit * (c - v) = Unit * c - Unit * v
        BY Product, TimeAssumption
      <3>2. c \in Nat /\ v \in Nat => Unit * c \in Nat /\ Unit * v \in Nat
        BY Product, TimeAssumption
      <3>3. QED
        BY <2>1, <2>2, <3>1, <3>2
    <2>4. QED
      BY <2>1, <2>3 DEF Delaying, c, v
  <1>2. QED
    BY <1>1, StacksInit, StackStep, ExactInit, ExactStep, PTL DEF Spec

---------------------------------------------------------------------------
(* The end of the scripts that are stopped. *)

need == CHOOSE n : \E a : Frugal(n, a)
around == CHOOSE a : Frugal(need, a)

LEMMA Chosen == FrugalScripts => Frugal(need, around)
  BY DEF FrugalScripts, need, around

\* What the statements from c to the end of its list need.
Rest(c) == IF c = End THEN 0 ELSE need[c]

\* What they still need when c may be in progress, with the counts in v.
Left(c, v) ==
    IF c = End THEN 0
    ELSE IF v[c] = Unset THEN need[c]
    ELSE (IF cmd[c].type = "repeat" THEN v[c] * need[cmd[c].body] ELSE v[c] * Unit)
         + Rest(cmd[c].next)

\* The statements of a stack need what Left says, L[h] for the h at the bottom of it.
Books(stack, v, L) ==
    /\ L \in [Nat -> Nat] /\ L[0] = 0
    /\ \A h \in 0..Len(stack) : \A g \in 0..h : L[g] <= L[h]
    /\ \A k \in 1..Len(stack) :
        /\ Left(stack[k], v) \in Nat
        /\ L[Len(stack) - k + 1] = Left(stack[k], v) + L[Len(stack) - k]
        /\ stack[k] # End =>
            Left(stack[k], v) <= need[stack[k]] /\ L[Len(stack) - k] <= around[stack[k]]

Needs(stack, v, n) == \E L : Books(stack, v, L) /\ n = L[Len(stack)]

\* The parts of the books, for one height and for one place.
LEMMA BooksSay ==
  ASSUME NEW stack \in Seq(Cell), NEW v, NEW L, Books(stack, v, L)
  PROVE  /\ L \in [Nat -> Nat] /\ L[0] = 0
         /\ Len(stack) \in Nat /\ L[Len(stack)] \in Nat
         /\ \A g, h \in Nat : g <= h /\ h <= Len(stack) => L[g] <= L[h]
  <1>1. L \in [Nat -> Nat] /\ L[0] = 0 /\ Len(stack) \in Nat
    BY DEF Books
  <1>2. \A h \in 0..Len(stack) : \A g \in 0..h : L[g] <= L[h]
    BY DEF Books
  <1>3. \A g, h \in Nat : g <= h /\ h <= Len(stack) => h \in 0..Len(stack) /\ g \in 0..h
    BY <1>1
  <1>4. QED
    BY <1>1, <1>2, <1>3

LEMMA BooksAt ==
  ASSUME NEW stack \in Seq(Cell), NEW v, NEW L, Books(stack, v, L),
         NEW k \in 1..Len(stack), NEW h, h = Len(stack) - k
  PROVE  /\ Left(stack[k], v) \in Nat
         /\ L[h + 1] = Left(stack[k], v) + L[h]
         /\ stack[k] # End => Left(stack[k], v) <= need[stack[k]] /\ L[h] <= around[stack[k]]
  <1>1. Len(stack) - k + 1 = h + 1
    OBVIOUS
  <1>2. QED
    BY <1>1 DEF Books

LEMMA NeedsNothing == \A v : Needs(<<>>, v, 0)
  <1> SUFFICES ASSUME NEW v PROVE \E L : Books(<<>>, v, L) /\ 0 = L[0]
    BY DEF Needs
  <1> DEFINE L == [h \in Nat |-> 0]
  <1>1. L \in [Nat -> Nat] /\ L[0] = 0
    OBVIOUS
  <1> HIDE DEF L
  <1>2. Books(<<>>, v, L)
    BY <1>1 DEF Books
  <1>3. QED
    BY <1>1, <1>2

LEMMA NeedsNat ==
  ASSUME NEW stack \in Seq(Cell), NEW v, NEW n, Needs(stack, v, n)
  PROVE  n \in Nat
  BY BooksSay DEF Needs

LEMMA NeedsTail ==
  ASSUME NEW stack \in Seq(Cell), stack # <<>>, Head(stack) # End, NEW v, NEW n, Needs(stack, v, n)
  PROVE  /\ Left(Head(stack), v) \in Nat /\ Left(Head(stack), v) <= need[Head(stack)]
         /\ \E m \in Nat : /\ Needs(Tail(stack), v, m)
                           /\ n = Left(Head(stack), v) + m
                           /\ m <= around[Head(stack)]
  <1> DEFINE rest == Tail(stack)
  <1>1. /\ Len(stack) \in Nat /\ 1 \in 1..Len(stack) /\ Head(stack) = stack[1]
        /\ Len(rest) = Len(stack) - 1 /\ \A k \in 1..Len(rest) : k + 1 \in 1..Len(stack) /\ rest[k] = stack[k + 1]
    OBVIOUS
  <1>2. PICK L : Books(stack, v, L) /\ n = L[Len(stack)]
    BY DEF Needs
  <1>3. /\ L \in [Nat -> Nat] /\ L[0] = 0 /\ L[Len(rest)] \in Nat
        /\ \A g, h \in Nat : g <= h /\ h <= Len(stack) => L[g] <= L[h]
    <2>1. Len(rest) \in Nat
      BY <1>1
    <2>2. QED
      BY <1>2, <2>1, BooksSay
  <1>4. /\ Left(stack[1], v) \in Nat
        /\ L[Len(stack)] = Left(stack[1], v) + L[Len(rest)]
        /\ Left(stack[1], v) <= need[stack[1]] /\ L[Len(rest)] <= around[stack[1]]
    <2>1. Len(rest) + 1 = Len(stack) /\ Len(rest) = Len(stack) - 1
      BY <1>1
    <2>2. stack[1] # End
      BY <1>1
    <2>3. QED
      BY <1>1, <1>2, <2>1, <2>2, BooksAt
  <1> HIDE DEF rest
  <1>5. Books(rest, v, L)
    <2>1. \A h \in 0..Len(rest) : \A g \in 0..h : L[g] <= L[h]
      BY <1>1, <1>3
    <2>2. ASSUME NEW k \in 1..Len(rest)
          PROVE  /\ Left(rest[k], v) \in Nat
                 /\ L[Len(rest) - k + 1] = Left(rest[k], v) + L[Len(rest) - k]
                 /\ rest[k] # End =>
                     Left(rest[k], v) <= need[rest[k]] /\ L[Len(rest) - k] <= around[rest[k]]
      <3>1. k + 1 \in 1..Len(stack) /\ rest[k] = stack[k + 1]
        BY <1>1
      <3>2. Len(stack) - (k + 1) + 1 = Len(rest) - k + 1 /\ Len(stack) - (k + 1) = Len(rest) - k
        BY <1>1
      <3>3. QED
        BY <1>2, <3>1, <3>2 DEF Books
    <2>3. QED
      BY <1>3, <2>1, <2>2 DEF Books
  <1>6. Needs(rest, v, L[Len(rest)])
    BY <1>5 DEF Needs
  <1>7. QED
    BY <1>1, <1>2, <1>3, <1>4, <1>6 DEF rest

LEMMA NeedsPush ==
  ASSUME NEW stack \in Seq(Cell), NEW v, NEW n, Needs(stack, v, n),
         NEW c \in Cell, Left(c, v) \in Nat,
         c # End => Left(c, v) <= need[c] /\ n <= around[c]
  PROVE  Needs(<<c>> \o stack, v, Left(c, v) + n)
  <1> DEFINE new == <<c>> \o stack
             top == Left(c, v) + n
  <1>1. PICK L : Books(stack, v, L) /\ n = L[Len(stack)]
    BY DEF Needs
  <1>2. /\ Len(stack) \in Nat /\ Len(new) = Len(stack) + 1 /\ new[1] = c
        /\ \A k \in 1..Len(new) : k # 1 => k - 1 \in 1..Len(stack) /\ new[k] = stack[k - 1]
    OBVIOUS
  <1>3. /\ L \in [Nat -> Nat] /\ L[0] = 0 /\ n \in Nat /\ top \in Nat
        /\ \A g, h \in Nat : g <= h /\ h <= Len(stack) => L[g] <= L[h]
    <2>1. /\ L \in [Nat -> Nat] /\ L[0] = 0 /\ n \in Nat
          /\ \A g, h \in Nat : g <= h /\ h <= Len(stack) => L[g] <= L[h]
      BY <1>1, BooksSay
    <2>2. \A a, b \in Nat : a + b \in Nat
      OBVIOUS
    <2>3. top \in Nat
      BY <2>1, <2>2
    <2> HIDE DEF top
    <2>4. QED
      BY <2>1, <2>3
  <1> DEFINE M == [L EXCEPT ![Len(stack) + 1] = top]
  <1>4. /\ M \in [Nat -> Nat] /\ M[Len(new)] = top
        /\ \A h \in 0..Len(stack) : M[h] = L[h]
    <2> HIDE DEF top, new
    <2>1. Len(stack) + 1 \in Nat /\ \A h \in 0..Len(stack) : h \in Nat /\ h # Len(stack) + 1
      BY <1>2
    <2>2. QED
      BY <1>2, <1>3, <2>1
  <1> HIDE DEF new, M
  <1>5. \A h \in 0..Len(new) : \A g \in 0..h : M[g] <= M[h]
    <2> SUFFICES ASSUME NEW h \in 0..Len(new), NEW g \in 0..h PROVE M[g] <= M[h]
      OBVIOUS
    <2>1. CASE h \in 0..Len(stack)
      <3>1. g \in 0..Len(stack) /\ g <= h /\ g \in Nat /\ h \in Nat /\ h <= Len(stack)
        BY <1>2, <2>1
      <3>2. QED
        BY <1>3, <1>4, <2>1, <3>1
    <2>2. CASE h = Len(new) /\ g = h
      BY <1>3, <1>4, <2>2
    <2>3. CASE h = Len(new) /\ g # h
      <3>1. g \in 0..Len(stack) /\ Len(stack) \in 0..Len(stack)
        BY <1>2, <2>3
      <3>2. L[g] <= n /\ L[g] \in Nat
        <4>1. g \in Nat /\ g <= Len(stack) /\ Len(stack) \in Nat /\ Len(stack) <= Len(stack)
          BY <1>2, <3>1
        <4>2. QED
          BY <1>1, <1>3, <4>1
      <3>3. M[g] = L[g] /\ M[h] = top
        BY <1>4, <2>3, <3>1
      <3>4. QED
        BY <1>3, <3>2, <3>3
    <2>4. QED
      BY <1>2, <2>1, <2>2, <2>3
  <1>6. ASSUME NEW k \in 1..Len(new)
        PROVE  /\ Left(new[k], v) \in Nat
               /\ M[Len(new) - k + 1] = Left(new[k], v) + M[Len(new) - k]
               /\ new[k] # End =>
                   Left(new[k], v) <= need[new[k]] /\ M[Len(new) - k] <= around[new[k]]
    <2>1. CASE k = 1
      <3>1. /\ Len(new) - k + 1 = Len(new) /\ Len(new) - k = Len(stack) /\ Len(stack) \in 0..Len(stack)
            /\ new[k] = c
        BY <1>2, <2>1
      <3>2. M[Len(new) - k + 1] = top /\ M[Len(new) - k] = n
        BY <1>1, <1>4, <3>1
      <3>3. QED
        BY <3>1, <3>2
    <2>2. CASE k # 1
      <3>1. k - 1 \in 1..Len(stack) /\ new[k] = stack[k - 1]
        BY <1>2, <2>2
      <3>2. /\ Len(stack) - (k - 1) + 1 = Len(new) - k + 1 /\ Len(stack) - (k - 1) = Len(new) - k
            /\ Len(new) - k + 1 \in 0..Len(stack) /\ Len(new) - k \in 0..Len(stack)
        BY <1>2, <3>1
      <3>3. M[Len(new) - k + 1] = L[Len(new) - k + 1] /\ M[Len(new) - k] = L[Len(new) - k]
        BY <1>4, <3>2
      <3>4. QED
        BY <1>1, <3>1, <3>2, <3>3 DEF Books
    <2>3. QED
      BY <2>1, <2>2
  <1>7. M[0] = 0
    BY <1>2, <1>3, <1>4
  <1>8. Books(new, v, M)
    BY <1>4, <1>5, <1>6, <1>7 DEF Books
  <1>9. QED
    BY <1>4, <1>8 DEF Needs, new

\* The ends of lists need nothing.
LEMMA NeedsUnroll ==
  ASSUME NEW stack \in Seq(Cell), NEW v, NEW n, Needs(stack, v, n)
  PROVE  \E m \in Nat : m <= n /\ Needs(Unroll(stack), v, m)
  <1>1. PICK L : Books(stack, v, L) /\ n = L[Len(stack)]
    BY DEF Needs
  <1>2. /\ L \in [Nat -> Nat] /\ L[0] = 0 /\ n \in Nat /\ Len(stack) \in Nat
        /\ \A g, h \in Nat : g <= h /\ h <= Len(stack) => L[g] <= L[h]
    BY <1>1, BooksSay
  <1> DEFINE live(k) == stack[k] # End /\ \A j \in 1..k - 1 : stack[j] = End
  <1>3. CASE \A k \in 1..Len(stack) : stack[k] = End
    <2>1. Unroll(stack) = <<>>
      BY <1>3 DEF Unroll
    <2>2. QED
      BY <1>2, <2>1, NeedsNothing
  <1>4. CASE ~(\A k \in 1..Len(stack) : stack[k] = End)
    <2>1. \E k \in 1..Len(stack) : live(k)
      <3> DEFINE T == {k \in 1..Len(stack) : stack[k] # End}
      <3>1. T \subseteq Nat /\ T # {}
        BY <1>4
      <3>2. PICK j \in T : \A k \in T : j <= k
        BY <3>1, Least
      <3>3. \A i \in 1..j - 1 : i \notin T
        BY <3>2
      <3>4. QED
        BY <3>2, <3>3
    <2> DEFINE j == CHOOSE k \in 1..Len(stack) : live(k)
    <2>2. j \in 1..Len(stack) /\ live(j)
      BY <2>1
    <2>3. Unroll(stack) = SubSeq(stack, j, Len(stack))
      BY <1>4 DEF Unroll
    <2> HIDE DEF j
    <2> DEFINE rest == SubSeq(stack, j, Len(stack))
    <2>4. /\ Len(rest) = Len(stack) - j + 1
          /\ \A k \in 1..Len(rest) : j + k - 1 \in 1..Len(stack) /\ rest[k] = stack[j + k - 1]
      <3>1. \A k \in j..Len(stack) : stack[k] \in Cell
        BY <2>2
      <3>2. /\ Len(rest) = Len(stack) - j + 1
            /\ \A k \in 1..Len(rest) : rest[k] = stack[j + k - 1]
        BY <2>2, <3>1, SubSeqProperties
      <3>3. j \in Nat /\ 1 <= j /\ j <= Len(stack)
        BY <2>2
      <3> HIDE DEF rest
      <3>4. \A k \in 1..Len(rest) : j + k - 1 \in 1..Len(stack)
        BY <1>2, <3>2, <3>3
      <3>5. QED
        BY <3>2, <3>4
    <2> HIDE DEF rest
    <2>5. /\ Len(rest) \in Nat /\ Len(rest) <= Len(stack) /\ j \in Nat
          /\ \A h \in 0..Len(rest) : \A g \in 0..h : L[g] <= L[h]
      <3>1. j \in Nat /\ 1 <= j /\ j <= Len(stack)
        BY <2>2
      <3>2. Len(rest) \in Nat /\ Len(rest) <= Len(stack)
        BY <1>2, <2>4, <3>1
      <3>3. \A h \in 0..Len(rest) : \A g \in 0..h : g \in Nat /\ h \in Nat /\ g <= h /\ h <= Len(stack)
        BY <1>2, <3>2
      <3>4. QED
        BY <1>2, <3>1, <3>2, <3>3
    <2>6. ASSUME NEW k \in 1..Len(rest)
          PROVE  /\ Left(rest[k], v) \in Nat
                 /\ L[Len(rest) - k + 1] = Left(rest[k], v) + L[Len(rest) - k]
                 /\ rest[k] # End =>
                     Left(rest[k], v) <= need[rest[k]] /\ L[Len(rest) - k] <= around[rest[k]]
      <3>1. j + k - 1 \in 1..Len(stack) /\ rest[k] = stack[j + k - 1]
        BY <2>4
      <3>2. Len(rest) - k = Len(stack) - (j + k - 1)
        BY <1>2, <2>4, <2>5
      <3>3. QED
        BY <1>1, <3>1, <3>2, BooksAt
    <2>7. Books(rest, v, L)
      BY <1>2, <2>5, <2>6 DEF Books
    <2>8. L[Len(rest)] \in Nat /\ L[Len(rest)] <= n
      <3>1. Len(stack) <= Len(stack)
        BY <1>2
      <3>2. QED
        BY <1>1, <1>2, <2>5, <3>1
    <2>9. QED
      BY <2>3, <2>7, <2>8 DEF Needs, rest
  <1>5. QED
    BY <1>3, <1>4

LEMMA NeedsSame ==
  ASSUME NEW stack \in Seq(Cell), NEW v, NEW n, Needs(stack, v, n), NEW w,
         \A k \in 1..Len(stack) : stack[k] # End => w[stack[k]] = v[stack[k]]
  PROVE  Needs(stack, w, n)
  <1>1. \A k \in 1..Len(stack) : Left(stack[k], w) = Left(stack[k], v)
    BY DEF Left
  <1>2. PICK L : Books(stack, v, L) /\ n = L[Len(stack)]
    BY DEF Needs
  <1>3. Books(stack, w, L)
    BY <1>1, <1>2 DEF Books
  <1>4. QED
    BY <1>2, <1>3 DEF Needs

\* What is supposed of a statement of a script that is stopped.
LEMMA Frugality ==
  ASSUME FrugalScripts, NEW s \in Stmt, owner[s] \in Stopped
  PROVE  LET c == cmd[s]
             rest == Rest(c.next)
         IN  /\ need[s] \in Nat /\ around[s] \in Nat /\ rest \in Nat /\ rest <= need[s]
             /\ need[s] + around[s] + Unit < Second
             /\ c.next # End => around[c.next] \in Nat /\ around[s] <= around[c.next]
             /\ c.type # "loop"
             /\ c.type = "wait" => c.test = "noevent"
             /\ c.type = "delay" => c.count \in Nat /\ c.count * Unit + rest <= need[s]
             /\ c.type \in Block => need[c.body] \in Nat /\ around[c.body] \in Nat
             /\ c.type = "while" => c.test = "event" /\ need[s] + around[s] <= around[c.body]
             /\ c.type = "repeat" =>
                 /\ c.count \in Nat /\ c.count * need[c.body] + rest <= need[s]
                 /\ need[s] + around[s] <= around[c.body] + need[c.body]
             /\ c.type \in {"inner", "if"} =>
                 need[c.body] + rest <= need[s] /\ rest + around[s] <= around[c.body]
  <1>1. Frugal(need, around)
    BY Chosen
  <1>2. need \in [Stmt -> Nat] /\ around \in [Stmt -> Nat]
    BY <1>1 DEF Frugal
  <1>3. /\ cmd[s].next \in Cell /\ (cmd[s].type \in Block => cmd[s].body \in Stmt)
        /\ cmd[s].type \in {"delay", "repeat"} => cmd[s].count \in Nat
    <2>1. cmd[s] \in Command
      BY CommandAssumption
    <2>2. cmd[s].type \in {"delay", "repeat"} => cmd[s].count \in Nat
      BY <2>1 DEF Command
    <2>3. QED
      BY <2>2, Fields
  <1>4. need[s] \in Nat /\ around[s] \in Nat /\ Rest(cmd[s].next) \in Nat
        /\ (cmd[s].next # End => around[cmd[s].next] \in Nat)
    BY <1>2, <1>3 DEF Rest, Cell
  <1>5. cmd[s].type \in Block => need[cmd[s].body] \in Nat /\ around[cmd[s].body] \in Nat
    BY <1>2, <1>3
  <1>6. Rest(cmd[s].next) = IF cmd[s].next = End THEN 0 ELSE need[cmd[s].next]
    BY DEF Rest
  <1>7. LET c == cmd[s]
            rest == Rest(c.next)
            all == need[s] + around[s]
        IN  /\ all + Unit < Second
            /\ need[s] >= rest
            /\ c.next # End => around[c.next] >= around[s]
            /\ c.type # "loop"
            /\ c.type = "wait" => c.test = "noevent"
            /\ c.type = "delay" => need[s] >= c.count * Unit + rest
            /\ c.type = "while" => c.test = "event" /\ around[c.body] >= all
            /\ c.type = "repeat" =>
                /\ need[s] >= c.count * need[c.body] + rest
                /\ around[c.body] + need[c.body] >= all
            /\ c.type \in {"inner", "if"} =>
                /\ need[s] >= need[c.body] + rest
                /\ around[c.body] >= rest + around[s]
    BY <1>1, <1>6 DEF Frugal
  <1>8. \A a, b : a >= b <=> b <= a
    OBVIOUS
  <1>9. QED
    BY <1>3, <1>4, <1>5, <1>7, <1>8 DEF Block

\* A statement about to be put on a stack isn't in progress.
LEMMA Fresh ==
  ASSUME Stacks, Exact, NEW i \in Script, cursor[i] # <<>>,
         NEW c \in Stmt, owner[c] = i, level[c] >= Len(cursor[i]), c # Top(i)
  PROVE  value[c] = Unset
  <1> SUFFICES ASSUME value[c] # Unset PROVE FALSE
    OBVIOUS
  <1>1. PICK j \in Script : Holds(cursor[j], c)
    BY DEF Stacks, CountsAreUsed
  <1>2. PICK k \in 1..Len(cursor[j]) : cursor[j][k] = c
    BY <1>1 DEF Holds
  <1>3. c # End
    BY EndAssumption
  <1>4. j = i
    BY <1>2, <1>3 DEF Exact, Mine
  <1>5. level[c] = Len(cursor[i]) - k + 1
    BY <1>2, <1>3, <1>4 DEF Stacks, Nest
  <1>6. k = 1 /\ cursor[i] \in Seq(Cell)
    BY <1>2, <1>4, <1>5 DEF Stacks, StackTypes
  <1>7. QED
    BY <1>2, <1>4, <1>6 DEF Top

\* A stack is its top and the rest.
LEMMA Split ==
  ASSUME NEW stack \in Seq(Cell), stack # <<>>
  PROVE  stack = <<Head(stack)>> \o Tail(stack)
  OBVIOUS

\* The rest of a stack keeps what it needs while its top changes.
LEMMA BelowTop ==
  ASSUME Stacks, NEW i \in Script, cursor[i] # <<>>, NEW n, Needs(cursor[i], value, n),
         NEW v, \A s \in Stmt \ {Top(i)} : v[s] = value[s]
  PROVE  /\ Left(Top(i), value) \in Nat /\ Left(Top(i), value) <= need[Top(i)]
         /\ \E m \in Nat : /\ Needs(Tail(cursor[i]), v, m)
                           /\ n = Left(Top(i), value) + m
                           /\ m <= around[Top(i)]
  <1>1. /\ Top(i) \in Stmt /\ level[Top(i)] = Len(cursor[i])
        /\ cursor[i] \in Seq(Cell) /\ Nest(cursor[i])
    BY TopIsNested
  <1>2. Head(cursor[i]) = Top(i) /\ Top(i) # End
    BY <1>1, EndAssumption DEF Top
  <1> DEFINE rest == Tail(cursor[i])
  <1>3. /\ rest \in Seq(Cell) /\ Nest(rest) /\ Len(rest) = Len(cursor[i]) - 1
    BY <1>1, TailKeeps
  <1>4. /\ Left(Top(i), value) \in Nat /\ Left(Top(i), value) <= need[Top(i)]
        /\ \E m \in Nat : Needs(rest, value, m) /\ n = Left(Top(i), value) + m /\ m <= around[Top(i)]
    BY <1>1, <1>2, NeedsTail
  <1> HIDE DEF rest
  <1>5. ASSUME NEW k \in 1..Len(rest), rest[k] # End PROVE v[rest[k]] = value[rest[k]]
    <2>1. rest[k] \in Stmt /\ level[rest[k]] = Len(rest) - k + 1
      BY <1>3, <1>5 DEF Nest, Cell
    <2>2. level[rest[k]] # level[Top(i)]
      BY <1>1, <1>3, <2>1
    <2>3. QED
      BY <2>1, <2>2
  <1>6. \A m : Needs(rest, value, m) => Needs(rest, v, m)
    BY <1>3, <1>5, NeedsSame
  <1>7. QED
    BY <1>4, <1>6 DEF rest

\* The next statement in place of the top.
LEMMA NextNeeds ==
  ASSUME FrugalScripts, Stacks, Exact, NEW i \in Script, i \in Stopped, cursor[i] # <<>>,
         NEW v, \A s \in Stmt \ {Top(i)} : v[s] = value[s], v[Top(i)] = Unset,
         NEW m \in Nat, Needs(Tail(cursor[i]), v, m), m <= around[Top(i)]
  PROVE  LET c == cmd[Top(i)].next
         IN  /\ Rest(c) \in Nat
             /\ Needs(<<c>> \o Tail(cursor[i]), v, Rest(c) + m)
             /\ \E n \in Nat : n <= Rest(c) + m /\ Needs(After(i), v, n)
  <1> DEFINE c == cmd[Top(i)].next
             rest == Tail(cursor[i])
             new == <<c>> \o rest
  <1>1. /\ Top(i) \in Stmt /\ level[Top(i)] = Len(cursor[i]) /\ owner[Top(i)] = i
        /\ cursor[i] \in Seq(Cell) /\ Nest(cursor[i])
    BY TopIsNested, ChangesAreMine DEF Exact
  <1>2. /\ Rest(c) \in Nat /\ c \in Cell /\ around[Top(i)] \in Nat
        /\ c # End => around[c] \in Nat /\ around[Top(i)] <= around[c]
    BY <1>1, Frugality, Fields
  <1>3. c # End => c \in Stmt /\ owner[c] = i /\ level[c] = Len(cursor[i])
    BY <1>1, <1>2, Fields, Owners DEF Cell
  <1>4. rest \in Seq(Cell) /\ new \in Seq(Cell)
    BY <1>1, <1>2, TailKeeps
  <1>5. c # End => v[c] = Unset
    <2>1. Len(cursor[i]) \in Nat
      BY <1>1
    <2>2. QED
      BY <1>3, <2>1, Fresh
  <1> HIDE DEF c, rest
  <1>6. Left(c, v) = Rest(c)
    BY <1>5 DEF Left, Rest
  <1>7. c # End => Left(c, v) <= need[c] /\ m <= around[c]
    <2>1. c # End => Rest(c) = need[c]
      BY DEF Rest
    <2>2. QED
      BY <1>2, <1>6, <2>1
  <1>8. Needs(new, v, Rest(c) + m)
    BY <1>2, <1>4, <1>6, <1>7, NeedsPush DEF rest
  <1>9. \E n \in Nat : n <= Rest(c) + m /\ Needs(Unroll(new), v, n)
    BY <1>4, <1>8, NeedsUnroll
  <1>10. QED
    BY <1>2, <1>8, <1>9 DEF After, c, rest

\* A block on the stack, over its statement or in place of it.
LEMMA BlockNeeds ==
  ASSUME FrugalScripts, Stacks, Exact, NEW i \in Script, i \in Stopped, cursor[i] # <<>>,
         Type(i) \in Block,
         NEW v, \A s \in Stmt \ {Top(i)} : v[s] = value[s],
         NEW stack \in Seq(Cell), NEW m \in Nat, Needs(stack, v, m),
         m <= around[cmd[Top(i)].body]
  PROVE  /\ need[cmd[Top(i)].body] \in Nat
         /\ Needs(<<cmd[Top(i)].body>> \o stack, v, need[cmd[Top(i)].body] + m)
  <1> DEFINE c == cmd[Top(i)].body
  <1>1. /\ Top(i) \in Stmt /\ level[Top(i)] = Len(cursor[i]) /\ owner[Top(i)] = i
        /\ Len(cursor[i]) \in Nat
    BY TopIsNested, ChangesAreMine DEF Exact
  <1>2. /\ c \in Stmt /\ c \in Cell /\ c # End /\ level[c] = Len(cursor[i]) + 1 /\ owner[c] = i
        /\ need[c] \in Nat
    BY <1>1, Fields, Owners, Frugality, EndAssumption DEF Type, Cell
  <1> HIDE DEF c
  <1>3. c # Top(i)
    BY <1>1, <1>2
  <1>4. v[c] = Unset
    BY <1>1, <1>2, <1>3, Fresh
  <1>5. Left(c, v) = need[c]
    BY <1>2, <1>4 DEF Left
  <1>6. Left(c, v) \in Nat /\ Left(c, v) <= need[c] /\ m <= around[c]
    BY <1>2, <1>5 DEF c
  <1>7. Needs(<<c>> \o stack, v, Left(c, v) + m)
    BY <1>2, <1>6, NeedsPush
  <1>8. QED
    BY <1>2, <1>5, <1>7 DEF c

\* A count that is kept is a number.
ValueTypes == \A s \in Stmt : value[s] # Unset => value[s] \in Nat

\* What the statement at the top needs, its count if it has one.
LEMMA TopNeeds ==
  ASSUME FrugalScripts, Stacks, Exact, ValueTypes, NEW i \in Script, i \in Stopped, cursor[i] # <<>>
  PROVE  LET s == Top(i)
             rest == Rest(cmd[s].next)
         IN  /\ s \in Stmt /\ owner[s] = i /\ s # End
             /\ value = [x \in Stmt |-> value[x]] /\ DOMAIN value = Stmt
             /\ Type(i) \notin {"delay", "repeat"} => value[s] = Unset /\ Left(s, value) = need[s]
             /\ Type(i) = "delay" => Count(i) \in Nat /\ Count(i) * Unit + rest <= Left(s, value)
             /\ Type(i) = "repeat" =>
                 Count(i) \in Nat /\ Count(i) * need[cmd[s].body] + rest <= Left(s, value)
  <1> DEFINE s == Top(i)
             rest == Rest(cmd[s].next)
  <1>1. s \in Stmt /\ owner[s] = i /\ s # End
    BY TopIsNested, ChangesAreMine, EndAssumption DEF Exact
  <1>2. value = [x \in Stmt |-> value[x]] /\ DOMAIN value = Stmt
    BY DEF Stacks, StackTypes
  <1>3. Type(i) \notin {"delay", "repeat"} => value[s] = Unset /\ Left(s, value) = need[s]
    BY <1>1 DEF Stacks, CountsAreUsed, Type, Left
  <1>4. owner[s] \in Stopped
    BY <1>1
  <1> HIDE DEF s
  <1>5. /\ rest \in Nat /\ need[s] \in Nat
        /\ cmd[s].type = "delay" => cmd[s].count \in Nat /\ cmd[s].count * Unit + rest <= need[s]
        /\ cmd[s].type = "repeat" =>
            /\ need[cmd[s].body] \in Nat
            /\ cmd[s].count \in Nat /\ cmd[s].count * need[cmd[s].body] + rest <= need[s]
    BY <1>1, <1>4, Frugality DEF Block
  <1> HIDE DEF rest
  <1>6. Type(i) = cmd[s].type /\ Count(i) = IF value[s] = Unset THEN cmd[s].count ELSE value[s]
    BY DEF Type, Count, s
  <1>7. CASE value[s] = Unset
    <2>1. Left(s, value) = need[s] /\ Count(i) = cmd[s].count
      BY <1>1, <1>6, <1>7 DEF Left
    <2>2. QED
      BY <1>1, <1>2, <1>3, <1>5, <1>6, <2>1 DEF s, rest
  <1>8. CASE value[s] # Unset
    <2>1. value[s] \in Nat /\ Count(i) = value[s]
      BY <1>1, <1>6, <1>8 DEF ValueTypes
    <2>2. Left(s, value) = (IF cmd[s].type = "repeat" THEN value[s] * need[cmd[s].body]
                            ELSE value[s] * Unit) + rest
      BY <1>1, <1>8 DEF Left, rest
    <2>3. /\ cmd[s].type = "delay" => Left(s, value) = value[s] * Unit + rest /\ value[s] * Unit \in Nat
          /\ cmd[s].type = "repeat" =>
              /\ Left(s, value) = value[s] * need[cmd[s].body] + rest
              /\ value[s] * need[cmd[s].body] \in Nat
      BY <1>5, <2>1, <2>2, Product, TimeAssumption
    <2>4. \A a, b \in Nat : a + b <= a + b
      OBVIOUS
    <2>5. QED
      BY <1>1, <1>2, <1>3, <1>5, <1>6, <2>1, <2>3, <2>4 DEF s, rest
  <1>9. QED
    BY <1>7, <1>8

\* A statement put back with another count.
LEMMA TopAgain ==
  ASSUME Stacks, NEW i \in Script, cursor[i] # <<>>, NEW v,
         NEW m \in Nat, Needs(Tail(cursor[i]), v, m), m <= around[Top(i)],
         Left(Top(i), v) \in Nat, Left(Top(i), v) <= need[Top(i)]
  PROVE  Needs(cursor[i], v, Left(Top(i), v) + m)
  <1>1. Top(i) \in Cell /\ cursor[i] \in Seq(Cell) /\ Tail(cursor[i]) \in Seq(Cell)
    BY TopIsNested DEF Cell
  <1>2. cursor[i] = <<Top(i)>> \o Tail(cursor[i])
    BY <1>1, Split DEF Top
  <1> DEFINE rest == Tail(cursor[i])
  <1> HIDE DEF rest
  <1>3. Needs(<<Top(i)>> \o rest, v, Left(Top(i), v) + m)
    BY <1>1, NeedsPush DEF rest
  <1>4. QED
    BY <1>2, <1>3 DEF rest

\* script_run_next() after a statement that leaves no count.
LEMMA NextStep ==
  ASSUME FrugalScripts, Stacks, Exact, ValueTypes, NEW i \in Script, i \in Stopped, cursor[i] # <<>>,
         NextCmd(i), \A s \in Stmt \ {Top(i)} : value'[s] = value[s], value'[Top(i)] = Unset,
         NEW n, Needs(cursor[i], value, n), NEW t \in Nat,
         t + Rest(cmd[Top(i)].next) <= Left(Top(i), value)
  PROVE  n \in Nat /\ \E l \in Nat : Needs(cursor'[i], value', l) /\ l + t <= n
  <1>1. Left(Top(i), value) \in Nat
    BY BelowTop
  <1>2. PICK m \in Nat : /\ Needs(Tail(cursor[i]), value', m)
                         /\ n = Left(Top(i), value) + m
                         /\ m <= around[Top(i)]
    BY BelowTop
  <1> DEFINE rest == Rest(cmd[Top(i)].next)
  <1>3. rest \in Nat /\ \E l \in Nat : l <= rest + m /\ Needs(After(i), value', l)
    BY <1>2, NextNeeds
  <1>4. cursor'[i] = After(i)
    BY DEF NextCmd, After, Stacks, StackTypes
  <1> HIDE DEF rest
  <1>5. PICK l \in Nat : l <= rest + m /\ Needs(cursor'[i], value', l)
    BY <1>3, <1>4
  <1>6. l + t <= n
    BY <1>1, <1>2, <1>3, <1>5 DEF rest
  <1>7. QED
    BY <1>1, <1>2, <1>5, <1>6

LEMMA TwoOnTop ==
  ASSUME NEW x \in Cell, NEW y \in Cell, NEW q \in Seq(Cell)
  PROVE  <<x, y>> \o q = <<x>> \o (<<y>> \o q)
  <1> DEFINE a == <<x, y>> \o q
             b == <<x>> \o (<<y>> \o q)
  <1>1. /\ a \in Seq(Cell) /\ Len(a) = Len(q) + 2 /\ a[1] = x /\ a[2] = y
        /\ \A k \in 3..Len(a) : a[k] = q[k - 2]
    OBVIOUS
  <1>2. /\ b \in Seq(Cell) /\ Len(b) = Len(q) + 2 /\ b[1] = x /\ b[2] = y
        /\ \A k \in 3..Len(b) : b[k] = q[k - 2]
    OBVIOUS
  <1> HIDE DEF a, b
  <1>3. \A k \in 1..Len(a) : a[k] = b[k]
    BY <1>1, <1>2
  <1>4. a = b
    BY <1>1, <1>2, <1>3, SeqEqual
  <1>5. QED
    BY <1>4 DEF a, b

\* script_run_inner() and script_run_if()
LEMMA LeaveStep ==
  ASSUME FrugalScripts, Stacks, Exact, ValueTypes, NEW i \in Script, i \in Stopped, cursor[i] # <<>>,
         Leave(i), Type(i) \in {"inner", "if"}, UNCHANGED value,
         NEW n, Needs(cursor[i], value, n)
  PROVE  n \in Nat /\ \E l \in Nat : Needs(cursor'[i], value', l) /\ l <= n
  <1> DEFINE s == Top(i)
             c == cmd[s].body
             d == cmd[s].next
             rest == Tail(cursor[i])
  <1>1. /\ s \in Stmt /\ owner[s] \in Stopped /\ value[s] = Unset /\ Left(s, value) = need[s]
    BY TopNeeds
  <1>2. /\ need[s] \in Nat /\ around[s] \in Nat /\ Rest(d) \in Nat
        /\ need[c] \in Nat /\ around[c] \in Nat
        /\ need[c] + Rest(d) <= need[s] /\ Rest(d) + around[s] <= around[c]
    BY <1>1, Frugality DEF Type, Block
  <1>3. PICK m \in Nat : Needs(rest, value, m) /\ n = Left(s, value) + m /\ m <= around[s]
    BY BelowTop
  <1>4. Needs(<<d>> \o rest, value, Rest(d) + m)
    BY <1>1, <1>3, NextNeeds
  <1>5. /\ <<d>> \o rest \in Seq(Cell) /\ rest \in Seq(Cell) /\ c \in Cell /\ d \in Cell
    <2>1. cursor[i] \in Seq(Cell) /\ d \in Cell /\ c \in Stmt
      BY <1>1, TopIsNested, Fields DEF Type, Block
    <2>2. rest \in Seq(Cell)
      BY <2>1
    <2> HIDE DEF rest, c, d
    <2>3. QED
      BY <2>1, <2>2 DEF Cell
  <1>6. cursor'[i] = <<c>> \o (<<d>> \o rest)
    <2>1. cursor'[i] = <<c, d>> \o rest
      BY DEF Leave, Stacks, StackTypes
    <2> HIDE DEF rest, c, d
    <2>2. <<c, d>> \o rest = <<c>> \o (<<d>> \o rest)
      BY <1>5, TwoOnTop
    <2>3. QED
      BY <2>1, <2>2
  <1> DEFINE stack == <<d>> \o rest
             k == Rest(d) + m
  <1>7. k \in Nat /\ k <= around[c]
    <2> HIDE DEF c, d, s
    <2>1. QED
      BY <1>2, <1>3
  <1>8. Type(i) \in Block /\ stack \in Seq(Cell) /\ Needs(stack, value, k)
    BY <1>4, <1>5 DEF Block
  <1> HIDE DEF stack, k
  <1>9. Needs(<<c>> \o stack, value, need[c] + k)
    BY <1>7, <1>8, BlockNeeds
  <1>10. need[c] + k \in Nat /\ need[c] + k <= n /\ n \in Nat
    <2>1. k = Rest(d) + m
      BY DEF k
    <2>2. n = need[s] + m
      BY <1>1, <1>3
    <2>3. need[c] \in Nat /\ need[s] \in Nat /\ Rest(d) \in Nat /\ need[c] + Rest(d) <= need[s]
      BY <1>2
    <2>4. m \in Nat
      OBVIOUS
    <2> HIDE DEF c, d, s
    <2>5. QED
      BY <2>1, <2>2, <2>3, <2>4
  <1>11. QED
    BY <1>6, <1>9, <1>10 DEF stack

\* A block over its statement, that keeps the count of what is left.
LEMMA EnterStep ==
  ASSUME FrugalScripts, Stacks, Exact, ValueTypes, NEW i \in Script, i \in Stopped, cursor[i] # <<>>,
         Enter(i), Type(i) \in Block, \A s \in Stmt \ {Top(i)} : value'[s] = value[s],
         Left(Top(i), value') \in Nat, Left(Top(i), value') <= need[Top(i)],
         Left(Top(i), value') + around[Top(i)] <= around[cmd[Top(i)].body],
         NEW n, Needs(cursor[i], value, n)
  PROVE  /\ need[cmd[Top(i)].body] \in Nat
         /\ \E m \in Nat : /\ n = Left(Top(i), value) + m
                           /\ Needs(cursor'[i], value',
                                    need[cmd[Top(i)].body] + (Left(Top(i), value') + m))
  <1> DEFINE s == Top(i)
             c == cmd[s].body
  <1>1. s \in Stmt /\ owner[s] \in Stopped /\ cursor[i] \in Seq(Cell)
    BY TopNeeds, TopIsNested
  <1>2. need[c] \in Nat /\ around[c] \in Nat /\ around[s] \in Nat
    BY <1>1, Frugality DEF Type
  <1>3. PICK m \in Nat : Needs(Tail(cursor[i]), value', m) /\ n = Left(s, value) + m /\ m <= around[s]
    BY BelowTop
  <1>4. Needs(cursor[i], value', Left(s, value') + m)
    BY <1>3, TopAgain
  <1> DEFINE k == Left(s, value') + m
  <1>5. k \in Nat /\ k <= around[c]
    <2> HIDE DEF c, s
    <2>1. Left(s, value') \in Nat /\ Left(s, value') + around[s] <= around[c]
      BY DEF c, s
    <2>2. QED
      BY <1>2, <1>3, <2>1
  <1> HIDE DEF k
  <1>6. Needs(<<c>> \o cursor[i], value', need[c] + k)
    BY <1>1, <1>4, <1>5, BlockNeeds DEF k
  <1>7. cursor'[i] = <<c>> \o cursor[i]
    BY DEF Enter, Stacks, StackTypes
  <1>8. QED
    BY <1>2, <1>3, <1>6, <1>7 DEF k

\* A delay that goes on has something left.
LEMMA LessIsLeft ==
  ASSUME NEW u \in Nat, u > 0, NEW a \in Nat, NEW t \in Nat, t < a * u
  PROVE  t \div u \in Nat /\ a - t \div u \in Nat
  <1> DEFINE q == t \div u
             r == t % u
  <1>1. q \in Nat /\ r \in Nat /\ t = u * q + r
    BY Division
  <1> HIDE DEF q, r
  <1>2. u * q < a * u /\ a * u = u * a
    <2>1. u * q \in Nat /\ a * u \in Nat /\ u * a = a * u
      BY <1>1, Product
    <2>2. QED
      BY <1>1, <2>1
  <1>3. q < a
    BY <1>1, <1>2
  <1>4. QED
    BY <1>1, <1>3 DEF q

\* What a statement does not use of the time it still needs it leaves to the others.
LEMMA StepNeeds ==
  ASSUME FrugalScripts, Stacks, Exact, ValueTypes, NEW i \in Script, i \in Stopped, Step(i),
         NEW n, Needs(cursor[i], value, n)
  PROVE  \E l : /\ Needs(cursor'[i], value', l)
                /\ ~condition[i] /\ n + Unit < time_to_play[i] => l + Unit < time_to_play'[i]
  <1> DEFINE s == Top(i)
             c == cmd[s].body
             rest == Rest(cmd[s].next)
  <1>1. cursor[i] # <<>>
    BY DEF Step, Plays
  <1>2. /\ s \in Stmt /\ owner[s] = i /\ s # End
        /\ value = [x \in Stmt |-> value[x]] /\ DOMAIN value = Stmt
        /\ Type(i) \notin {"delay", "repeat"} => value[s] = Unset /\ Left(s, value) = need[s]
        /\ Type(i) = "delay" => Count(i) \in Nat /\ Count(i) * Unit + rest <= Left(s, value)
        /\ Type(i) = "repeat" => Count(i) \in Nat /\ Count(i) * need[c] + rest <= Left(s, value)
    BY <1>1, TopNeeds
  <1>3. Left(s, value) \in Nat /\ Left(s, value) <= need[s]
    BY <1>1, BelowTop
  <1>4. /\ need[s] \in Nat /\ around[s] \in Nat /\ rest \in Nat /\ rest <= need[s]
        /\ Type(i) # "loop"
        /\ Type(i) = "wait" => cmd[s].test = "noevent"
        /\ Type(i) \in Block => need[c] \in Nat /\ around[c] \in Nat
        /\ Type(i) = "while" => cmd[s].test = "event" /\ need[s] + around[s] <= around[c]
        /\ Type(i) = "repeat" => need[s] + around[s] <= around[c] + need[c]
    BY <1>2, Frugality DEF Type
  <1>5. n \in Nat /\ time_to_play[i] \in Nat /\ Unit \in Nat
    <2>1. cursor[i] \in Seq(Cell)
      BY DEF Stacks, StackTypes
    <2>2. QED
      BY <2>1, NeedsNat, TimeAssumption DEF Exact, TimeTypes
  <1> SUFFICES \E l : /\ Needs(cursor'[i], value', l)
                      /\ \/ l \in Nat /\ l <= n /\ time_to_play'[i] = time_to_play[i]
                         \/ condition[i] = TRUE
                         \/ ~(n + Unit < time_to_play[i])
                         \/ \E t \in Nat : /\ l \in Nat /\ l + t <= n
                                           /\ time_to_play'[i] = time_to_play[i] - t
    <2>1. ASSUME NEW l \in Nat, NEW t \in Nat, l + t <= n, n + Unit < time_to_play[i]
          PROVE  l + Unit < time_to_play[i] - t
      BY <1>5, <2>1
    <2>2. ASSUME NEW l \in Nat, l <= n, n + Unit < time_to_play[i]
          PROVE  l + Unit < time_to_play[i]
      BY <1>5, <2>2
    <2>3. QED
      BY <2>1, <2>2
  <1>6. ASSUME NextCmd(i), value'[s] = Unset, \A x \in Stmt \ {s} : value'[x] = value[x],
               NEW t \in Nat, t + rest <= Left(s, value)
        PROVE  \E l \in Nat : Needs(cursor'[i], value', l) /\ l + t <= n
    BY <1>1, <1>6, NextStep
  <1>7. ASSUME NextCmd(i), value'[s] = Unset, \A x \in Stmt \ {s} : value'[x] = value[x],
               rest <= Left(s, value)
        PROVE  \E l \in Nat : Needs(cursor'[i], value', l) /\ l <= n
    <2>1. 0 + rest <= Left(s, value) /\ 0 \in Nat
      BY <1>4, <1>7
    <2>2. PICK l \in Nat : Needs(cursor'[i], value', l) /\ l + 0 <= n
      BY <1>6, <1>7, <2>1
    <2>3. QED
      BY <2>2
  <1>8. CASE Evaluate(i)
    <2>1. NextCmd(i) /\ UNCHANGED <<time_to_play, value>> /\ value[s] = Unset /\ rest <= Left(s, value)
      BY <1>2, <1>4, <1>8 DEF Evaluate
    <2>2. QED
      BY <1>7, <2>1
  <1>9. CASE Wait(i)
    <2>1. UNCHANGED value /\ value[s] = Unset /\ rest <= Left(s, value)
      BY <1>2, <1>4, <1>9 DEF Wait
    <2>2. CASE NextCmd(i) /\ UNCHANGED <<time_to_play, debt>>
      BY <1>7, <2>1, <2>2
    <2>3. CASE FALSE \in Test(i) /\ UNCHANGED cursor
      <3>1. Test(i) = {~condition[i]}
        BY <1>4, <1>9 DEF Wait, Test
      <3>2. condition[i] = TRUE
        BY <2>3, <3>1
      <3>3. QED
        BY <2>1, <2>3, <3>2
    <2>4. QED
      BY <1>9, <2>2, <2>3 DEF Wait
  <1>10. CASE Delay(i)
    <2> DEFINE t == Count(i) * Unit
    <2>1. Type(i) = "delay" /\ Count(i) \in Nat /\ t \in Nat /\ t + rest <= Left(s, value)
      BY <1>2, <1>10, Product, TimeAssumption DEF Delay
    <2>2. PICK m \in Nat : /\ Needs(Tail(cursor[i]), value', m)
                           /\ n = Left(s, value) + m /\ m <= around[s]
      <3>1. \A x \in Stmt \ {s} : value'[x] = value[x]
        BY <1>2, <1>10 DEF Delay, DelayGoesOn, DelayEnds
      <3>2. QED
        BY <1>1, <3>1, BelowTop
    <2>3. CASE time_to_play[i] < t
      <3> DEFINE q == time_to_play[i] \div Unit
      <3>1. cursor'[i] = cursor[i] /\ value'[s] = Count(i) - q
        BY <1>2, <1>10, <2>3 DEF Delay, DelayGoesOn
      <3>2. t <= n
        BY <1>3, <1>4, <2>1, <2>2
      <3>3. ~(n + Unit < time_to_play[i])
        BY <1>5, <2>1, <2>3, <3>2
      <3>4. q \in Nat /\ Count(i) - q \in Nat
        BY <1>5, <2>1, <2>3, LessIsLeft, TimeAssumption
      <3> HIDE DEF q
      <3>5. Left(s, value') = (Count(i) - q) * Unit + rest
        <4>1. value'[s] # Unset
          BY <3>1, <3>4 DEF Unset
        <4>2. QED
          BY <1>2, <2>1, <3>1, <4>1 DEF Left, Type
      <3>6. (Count(i) - q) * Unit \in Nat /\ (Count(i) - q) * Unit <= t
        <4>1. Unit * (Count(i) - q) = Count(i) * Unit - q * Unit
              /\ (Count(i) - q) * Unit = Unit * (Count(i) - q)
              /\ q * Unit \in Nat /\ (Count(i) - q) * Unit \in Nat
          BY <1>5, <2>1, <3>4, Product
        <4>2. QED
          BY <2>1, <4>1
      <3>7. Left(s, value') \in Nat /\ Left(s, value') <= need[s]
        BY <1>3, <1>4, <2>1, <3>5, <3>6
      <3>8. Needs(cursor'[i], value', Left(s, value') + m)
        BY <1>1, <2>2, <3>1, <3>7, TopAgain
      <3>9. QED
        BY <3>3, <3>8
    <2>4. CASE ~(time_to_play[i] < t)
      <3>1. /\ NextCmd(i) /\ value'[s] = Unset /\ \A x \in Stmt \ {s} : value'[x] = value[x]
            /\ time_to_play'[i] = time_to_play[i] - t
        BY <1>2, <1>10, <2>4 DEF Delay, DelayEnds, Exact, TimeTypes
      <3> HIDE DEF t
      <3>2. PICK l \in Nat : Needs(cursor'[i], value', l) /\ l + t <= n
        BY <1>6, <2>1, <3>1
      <3>3. QED
        BY <2>1, <3>1, <3>2
    <2>5. QED
      BY <2>3, <2>4
  <1>11. CASE Repeat(i)
    <2>1. Type(i) = "repeat" /\ Type(i) \in Block /\ UNCHANGED time_to_play
      BY <1>11 DEF Repeat, Block
    <2> DEFINE t == Count(i) * need[c]
    <2>2. Count(i) \in Nat /\ need[c] \in Nat /\ around[c] \in Nat /\ t \in Nat /\ t + rest <= Left(s, value)
      BY <1>2, <1>4, <2>1, Product
    <2>3. CASE Count(i) = 0 /\ NextCmd(i) /\ value' = [value EXCEPT ![s] = Unset]
      <3>1. rest <= Left(s, value)
        BY <1>3, <1>4, <2>2
      <3>2. value'[s] = Unset /\ \A x \in Stmt \ {s} : value'[x] = value[x]
        BY <1>2, <2>3
      <3>3. QED
        BY <1>7, <2>1, <2>3, <3>1, <3>2
    <2>4. CASE Count(i) > 0 /\ Enter(i) /\ value' = [value EXCEPT ![s] = Count(i) - 1]
      <3>1. value'[s] = Count(i) - 1 /\ \A x \in Stmt \ {s} : value'[x] = value[x]
        BY <1>2, <2>4
      <3>2. Count(i) - 1 \in Nat
        BY <2>2, <2>4
      <3>3. Left(s, value') = (Count(i) - 1) * need[c] + rest
        <4>1. value'[s] # Unset
          BY <3>1, <3>2 DEF Unset
        <4>2. QED
          BY <1>2, <2>1, <3>1, <4>1 DEF Left, Type
      <3>4. (Count(i) - 1) * need[c] \in Nat /\ (Count(i) - 1) * need[c] + need[c] = t
        <4>1. need[c] * (Count(i) - 1) = t - 1 * need[c]
              /\ (Count(i) - 1) * need[c] = need[c] * (Count(i) - 1)
              /\ (Count(i) - 1) * need[c] \in Nat
          BY <2>2, <3>2, Product
        <4>2. QED
          BY <2>2, <4>1
      <3> DEFINE u == (Count(i) - 1) * need[c]
      <3> HIDE DEF t, u
      <3>5. /\ Left(s, value') \in Nat /\ Left(s, value') + need[c] <= Left(s, value)
            /\ Left(s, value') = u + rest
        <4>1. Left(s, value') = u + rest /\ u \in Nat /\ u + need[c] = t
          BY <3>3, <3>4 DEF u
        <4>2. QED
          BY <1>3, <1>4, <2>2, <4>1
      <3>6. Left(s, value') <= need[s] /\ Left(s, value') + around[s] <= around[c]
        BY <1>3, <1>4, <2>1, <2>2, <3>5
      <3>7. PICK m \in Nat : /\ n = Left(s, value) + m
                             /\ Needs(cursor'[i], value', need[c] + (Left(s, value') + m))
        BY <1>1, <2>1, <2>4, <3>1, <3>5, <3>6, EnterStep
      <3>8. need[c] + (Left(s, value') + m) \in Nat /\ need[c] + (Left(s, value') + m) <= n
        BY <1>3, <2>2, <3>5, <3>7
      <3>9. QED
        BY <2>1, <3>7, <3>8
    <2>5. QED
      BY <1>11, <2>3, <2>4 DEF Repeat
  <1>12. CASE LoopWhile(i)
    <2>1. /\ Type(i) = "while" /\ Type(i) \in Block /\ UNCHANGED <<time_to_play, value>>
          /\ value[s] = Unset /\ Left(s, value) = need[s] /\ Left(s, value') = need[s]
      BY <1>2, <1>4, <1>12 DEF LoopWhile, Block
    <2>2. CASE TRUE \in Test(i) /\ Enter(i)
      <3>1. Test(i) = {condition[i]}
        BY <1>4, <2>1 DEF Test
      <3>2. condition[i] = TRUE
        BY <2>2, <3>1
      <3>3. /\ Left(s, value') \in Nat /\ Left(s, value') <= need[s]
            /\ Left(s, value') + around[s] <= around[c]
        BY <1>4, <2>1
      <3>4. \A x \in Stmt \ {s} : value'[x] = value[x]
        BY <2>1
      <3>5. PICK m \in Nat : Needs(cursor'[i], value', need[c] + (Left(s, value') + m))
        BY <1>1, <2>1, <2>2, <3>3, <3>4, EnterStep
      <3>6. QED
        BY <3>2, <3>5
    <2>3. CASE NextCmd(i)
      BY <1>4, <1>7, <2>1, <2>3
    <2>4. QED
      BY <1>12, <2>1, <2>2, <2>3 DEF LoopWhile
  <1>13. CASE InnerIf(i)
    <2>1. /\ Type(i) \in {"inner", "if"} /\ UNCHANGED <<time_to_play, value>>
          /\ value[s] = Unset /\ Left(s, value) = need[s]
      BY <1>2, <1>13 DEF InnerIf
    <2>2. CASE Leave(i)
      <3>1. PICK l \in Nat : Needs(cursor'[i], value', l) /\ l <= n
        BY <1>1, <2>1, <2>2, LeaveStep
      <3>2. QED
        BY <2>1, <3>1
    <2>3. CASE NextCmd(i)
      BY <1>4, <1>7, <2>1, <2>3
    <2>4. QED
      BY <1>13, <2>2, <2>3 DEF InnerIf
  <1>14. QED
    BY <1>8, <1>9, <1>10, <1>11, <1>12, <1>13 DEF Step

---------------------------------------------------------------------------
(* The three scripts that are stopped end in their second.               *)

\* A script that plays its last second, and the scripts that are ended in this phase.
Closing(i) == current = i /\ phase \in {"reset", "done"}
Ends(i) == phase = "done" \/ (phase = "reset" /\ i # "video")

\* Each of the scripts that have to end is still to play, plays, or has ended.
Turns ==
    /\ condition \in [Script -> BOOLEAN]
    /\ phase \in {"reset", "frame", "game", "done", "end"}
    /\ phase \in {"game", "end"} => Idle
    /\ phase \in {"reset", "done"} => todo \in Seq(Stopped) /\ current \in Stopped \union {Nobody}
    /\ \A i \in Stopped :
        /\ Ends(i) => current = i \/ cursor[i] = <<>> \/ \E k \in 1..Len(todo) : todo[k] = i
        /\ phase = "end" => cursor[i] = <<>>
        /\ Closing(i) => ~condition[i]

\* A script has the time for what it needs to end, when it has to.
Reserve ==
    \A i \in Stopped : \E n : /\ Needs(cursor[i], value, n)
                              /\ Closing(i) => n + Unit < time_to_play[i]

Ready == ValueTypes /\ Turns /\ Reserve

LEMMA StoppedAreScripts ==
  ASSUME FrugalScripts
  PROVE  Stopped \subseteq Script /\ Nobody \notin Stopped
         /\ \A i \in Stopped : i \notin Input /\ i \notin Event
  BY Chosen, OwnerAssumption DEF Frugal

\* A script that starts.
LEMMA FirstNeeds ==
  ASSUME Stacks, Exact, FrugalScripts, NEW i \in Stopped, cursor[i] = <<>>
  PROVE  \E n : Needs(<<first[i]>>, value, n)
  <1> DEFINE c == first[i]
  <1>1. i \in Script /\ c \in Stmt /\ owner[c] = i /\ c # End /\ c \in Cell
    BY StoppedAreScripts, FirstAssumption, OwnerAssumption, EndAssumption DEF Cell
  <1>2. need[c] \in Nat /\ around[c] \in Nat
    BY <1>1, Frugality
  <1>3. value[c] = Unset
    <2> SUFFICES ASSUME value[c] # Unset PROVE FALSE
      OBVIOUS
    <2>1. PICK j \in Script : Holds(cursor[j], c)
      BY <1>1 DEF Stacks, CountsAreUsed
    <2>2. PICK k \in 1..Len(cursor[j]) : cursor[j][k] = c
      BY <2>1 DEF Holds
    <2>3. j = i
      BY <1>1, <2>2 DEF Exact, Mine
    <2>4. QED
      BY <2>2, <2>3
  <1> HIDE DEF c
  <1>4. Left(c, value) = need[c]
    BY <1>1, <1>3 DEF Left
  <1>5. Left(c, value) \in Nat /\ Left(c, value) <= need[c] /\ 0 <= around[c]
    BY <1>2, <1>4
  <1>6. Needs(<<>>, value, 0) /\ <<>> \in Seq(Cell)
    BY NeedsNothing
  <1>7. Needs(<<c>> \o <<>>, value, Left(c, value) + 0)
    BY <1>1, <1>5, <1>6, NeedsPush
  <1>8. <<c>> \o <<>> = <<c>>
    BY <1>1, <1>6, ConcatEmptySeq
  <1>9. QED
    BY <1>7, <1>8 DEF c

LEMMA ReadyInit == FrugalScripts /\ Init => Ready
  <1> SUFFICES ASSUME FrugalScripts, Init PROVE Ready
    OBVIOUS
  <1>1. Stacks /\ Exact
    BY StacksInit, ExactInit
  <1>2. Stopped \subseteq Script
    BY StoppedAreScripts
  <1>3. /\ phase = "reset" /\ current = Nobody /\ todo = <<"play", "emulation">>
        /\ condition \in [Script -> BOOLEAN] /\ \A x \in Stmt : value[x] = Unset
        /\ \A i \in Script : cursor[i] = IF i = "video" THEN <<first[i]>> ELSE <<>>
    BY DEF Init
  <1>4. current \notin Stopped
    BY <1>3, StoppedAreScripts
  <1>5. Turns
    <2>1. todo \in Seq(Stopped) /\ Len(todo) = 2 /\ todo[1] = "play" /\ todo[2] = "emulation"
      BY <1>3 DEF Stopped
    <2>2. \A i \in Stopped : Ends(i) => \E k \in 1..Len(todo) : todo[k] = i
      BY <1>3, <2>1 DEF Ends, Stopped
    <2>3. QED
      BY <1>3, <1>4, <2>1, <2>2 DEF Turns, Closing
  <1>6. ASSUME NEW i \in Stopped PROVE \E n : Needs(cursor[i], value, n)
    <2>1. CASE i # "video"
      <3>1. cursor[i] = <<>>
        BY <1>2, <1>3, <2>1
      <3>2. QED
        BY <3>1, NeedsNothing
    <2>2. CASE i = "video"
      <3> DEFINE c == first[i]
      <3>0. i \in Script /\ first[i] \in Stmt /\ owner[first[i]] = i
        BY <1>2, FirstAssumption, OwnerAssumption
      <3>1. /\ c \in Stmt /\ owner[c] = i /\ c # End /\ c \in Cell /\ value[c] = Unset
            /\ cursor[i] = <<c>>
        <4>1. cursor[i] = <<c>>
          BY <1>3, <2>2, <3>0
        <4>2. value[c] = Unset
          BY <1>3, <3>0
        <4>3. c # End /\ c \in Cell
          BY <3>0, EndAssumption DEF Cell
        <4>4. QED
          BY <3>0, <4>1, <4>2, <4>3
      <3>2. need[c] \in Nat /\ around[c] \in Nat
        BY <3>1, Frugality
      <3> HIDE DEF c
      <3>3. Left(c, value) = need[c]
        BY <3>1 DEF Left
      <3>4. Left(c, value) \in Nat /\ Left(c, value) <= need[c] /\ 0 <= around[c]
        BY <3>2, <3>3
      <3>5. Needs(<<>>, value, 0) /\ <<>> \in Seq(Cell)
        BY NeedsNothing
      <3>6. Needs(<<c>> \o <<>>, value, Left(c, value) + 0)
        BY <3>1, <3>4, <3>5, NeedsPush
      <3>7. <<c>> \o <<>> = <<c>>
        BY <3>1, <3>5, ConcatEmptySeq
      <3>8. QED
        BY <3>1, <3>6, <3>7
    <2>3. QED
      BY <2>1, <2>2
  <1>7. Reserve
    BY <1>4, <1>6 DEF Reserve, Closing
  <1>8. QED
    BY <1>3, <1>5, <1>7 DEF Ready, ValueTypes

\* The counts are numbers.
LEMMA ValueStep ==
  ASSUME Stacks, Exact, Exact', ValueTypes, NEW i \in Script, Step(i)
  PROVE  ValueTypes'
  <1>1. cursor[i] # <<>> /\ Top(i) \in Stmt /\ value = [s \in Stmt |-> value[s]]
    BY TopIsNested DEF Step, Plays, Stacks, StackTypes
  <1>2. ASSUME NEW s \in Stmt, cmd[s].type = "delay", value'[s] # Unset PROVE value'[s] \in Nat
    BY <1>2 DEF Exact, DelaysAreTops
  <1>3. CASE Type(i) = "delay"
    <2>1. \A s \in Stmt \ {Top(i)} : value'[s] = value[s]
      BY <1>1, <1>3 DEF Step, Evaluate, Wait, Delay, DelayGoesOn, DelayEnds, Repeat, LoopWhile, InnerIf
    <2>2. QED
      BY <1>2, <1>3, <2>1 DEF ValueTypes, Type
  <1>4. CASE Type(i) = "repeat"
    <2>1. cmd[Top(i)].count \in Nat
      <3>1. cmd[Top(i)] \in Command /\ cmd[Top(i)].type = "repeat"
        BY <1>1, <1>4, CommandAssumption DEF Type
      <3>2. QED
        BY <3>1 DEF Command
    <2>2. Count(i) \in Nat
      BY <1>1, <2>1 DEF Count, ValueTypes
    <2>3. Repeat(i)
      BY <1>4 DEF Step, Evaluate, Wait, Delay, LoopWhile, InnerIf
    <2>4. \/ Count(i) > 0 /\ value' = [value EXCEPT ![Top(i)] = Count(i) - 1]
          \/ value' = [value EXCEPT ![Top(i)] = Unset]
      BY <2>3 DEF Repeat
    <2>5. Count(i) > 0 => Count(i) - 1 \in Nat
      BY <2>2
    <2>6. QED
      BY <1>1, <2>4, <2>5 DEF ValueTypes
  <1>5. CASE Type(i) \notin {"delay", "repeat"}
    <2>1. UNCHANGED value
      BY <1>5 DEF Step, Evaluate, Wait, Delay, Repeat, LoopWhile, InnerIf
    <2>2. QED
      BY <2>1 DEF ValueTypes
  <1>6. QED
    BY <1>3, <1>4, <1>5

\* A step of a script.
LEMMA StepIsReady ==
  ASSUME FrugalScripts, Stacks, Exact, Exact', Ready, NEW i \in Script, Step(i)
  PROVE  Ready'
  <1>1. ValueTypes'
    BY ValueStep DEF Ready
  <1>2. UNCHANGED <<condition, phase, todo, current>> /\ current = i
    BY DEF Step, Plays, control
  <1>3. ASSUME NEW j \in Script, j # i
        PROVE  cursor'[j] = cursor[j] /\ time_to_play'[j] = time_to_play[j]
    <2>1. cursor = [k \in Script |-> cursor[k]] /\ time_to_play = [k \in Script |-> time_to_play[k]]
      BY DEF Stacks, StackTypes, Exact, TimeTypes
    <2>2. QED
      BY <1>3, <2>1 DEF Step, Evaluate, Wait, Delay, DelayGoesOn, DelayEnds, Repeat, LoopWhile, InnerIf,
                        NextCmd, Enter, Leave
  <1>4. Stopped \subseteq Script
    BY StoppedAreScripts
  <1>5. Turns'
    <2>1. Idle' <=> Idle
      BY <1>2 DEF Idle
    <2>2. phase # "end"
      BY <1>2, OwnerAssumption DEF Ready, Turns, Idle
    <2>3. \A j \in Stopped : j = i \/ cursor'[j] = cursor[j]
      BY <1>3, <1>4
    <2>4. QED
      BY <1>2, <2>1, <2>2, <2>3 DEF Ready, Turns, Ends, Closing
  <1>6. ASSUME NEW j \in Stopped
        PROVE  \E n : Needs(cursor'[j], value', n) /\ (Closing(j)' => n + Unit < time_to_play'[j])
    <2>1. PICK n : Needs(cursor[j], value, n) /\ (Closing(j) => n + Unit < time_to_play[j])
      BY DEF Ready, Reserve
    <2>2. (Closing(j)' <=> Closing(j)) /\ (Closing(j) => ~condition[j]) /\ j \in Script
      BY <1>2, <1>4 DEF Closing, Ready, Turns
    <2>3. CASE j = i
      <3>1. PICK l : /\ Needs(cursor'[j], value', l)
                     /\ ~condition[j] /\ n + Unit < time_to_play[j] => l + Unit < time_to_play'[j]
        BY <2>1, <2>3, StepNeeds DEF Ready
      <3>2. QED
        BY <2>1, <2>2, <3>1
    <2>4. CASE j # i
      <3>1. cursor'[j] = cursor[j] /\ time_to_play'[j] = time_to_play[j]
        BY <1>3, <2>2, <2>4
      <3>2. ASSUME NEW k \in 1..Len(cursor[j]), cursor[j][k] # End
            PROVE  value'[cursor[j][k]] = value[cursor[j][k]]
        <4>1. cursor[i] # <<>>
          BY DEF Step, Plays
        <4>2. Top(i) \in Stmt /\ owner[Top(i)] = i
          BY <4>1, TopIsNested, ChangesAreMine DEF Exact
        <4>3. cursor[j][k] \in Stmt /\ owner[cursor[j][k]] = j
          BY <2>2, <3>2 DEF Exact, Mine, Stacks, StackTypes, Cell
        <4>4. \A s \in Stmt \ {Top(i)} : value'[s] = value[s]
          <5>1. value = [s \in Stmt |-> value[s]]
            BY DEF Stacks, StackTypes
          <5>2. QED
            BY <4>2, <5>1 DEF Step, Evaluate, Wait, Delay, DelayGoesOn, DelayEnds, Repeat, LoopWhile, InnerIf
        <4>5. QED
          BY <2>4, <4>2, <4>3, <4>4
      <3>3. cursor[j] \in Seq(Cell)
        BY <2>2 DEF Stacks, StackTypes
      <3>4. Needs(cursor[j], value', n)
        BY <2>1, <3>2, <3>3, NeedsSame
      <3>5. QED
        BY <2>1, <2>2, <3>1, <3>4
    <2>5. QED
      BY <2>3, <2>4
  <1>7. Reserve'
    BY <1>6 DEF Reserve
  <1>8. QED
    BY <1>1, <1>5, <1>7 DEF Ready

\* hardware_script_terminate() gives a second.
LEMMA GiveIsReady ==
  ASSUME FrugalScripts, Stacks, Exact, Ready, Give
  PROVE  Ready'
  <1> DEFINE i == Head(todo)
  <1>1. /\ current = Nobody /\ todo # <<>> /\ todo' = Tail(todo)
        /\ UNCHANGED <<cursor, value, phase>>
        /\ condition' = IF phase = "frame" THEN condition ELSE [condition EXCEPT ![i] = FALSE]
        /\ cursor[i] = <<>> => UNCHANGED <<current, time_to_play>>
        /\ cursor[i] # <<>> =>
            /\ current' = i
            /\ time_to_play' = [time_to_play EXCEPT ![i] = @ + (IF phase = "frame" THEN FrameTime ELSE Second)]
    BY DEF Give
  <1>2. phase \in {"reset", "frame", "done"} /\ condition \in [Script -> BOOLEAN]
    BY <1>1 DEF Ready, Turns, Idle
  <1>3. Stopped \subseteq Script /\ Nobody \notin Stopped
    BY StoppedAreScripts
  <1>4. phase # "frame" =>
            /\ todo \in Seq(Stopped) /\ i \in Stopped /\ Tail(todo) \in Seq(Stopped)
            /\ \A j \in Stopped, k \in 1..Len(todo) :
                   todo[k] = j => j = i \/ \E h \in 1..Len(Tail(todo)) : Tail(todo)[h] = j
    <2> SUFFICES ASSUME phase # "frame"
                 PROVE  /\ todo \in Seq(Stopped) /\ i \in Stopped /\ Tail(todo) \in Seq(Stopped)
                        /\ \A j \in Stopped, k \in 1..Len(todo) :
                             todo[k] = j => j = i \/ \E h \in 1..Len(Tail(todo)) : Tail(todo)[h] = j
      OBVIOUS
    <2>1. todo \in Seq(Stopped)
      BY <1>2 DEF Ready, Turns
    <2>2. i \in Stopped /\ Tail(todo) \in Seq(Stopped) /\ i = todo[1]
          /\ Len(Tail(todo)) = Len(todo) - 1
          /\ \A h \in 1..Len(Tail(todo)) : Tail(todo)[h] = todo[h + 1]
      BY <1>1, <2>1
    <2> HIDE DEF i
    <2>3. ASSUME NEW j \in Stopped, NEW k \in 1..Len(todo), todo[k] = j, j # i
          PROVE  \E h \in 1..Len(Tail(todo)) : Tail(todo)[h] = j
      <3>1. k - 1 \in 1..Len(Tail(todo)) /\ k - 1 + 1 = k
        BY <2>1, <2>2, <2>3
      <3>2. Tail(todo)[k - 1] = j
        BY <2>2, <2>3, <3>1
      <3>3. QED
        BY <3>1, <3>2
    <2>4. QED
      BY <2>1, <2>2, <2>3
  <1> HIDE DEF i
  <1>5. ASSUME phase = "frame" PROVE Ready'
    <2>1. Turns'
      BY <1>1, <1>2, <1>5 DEF Ready, Turns, Ends, Closing
    <2>2. QED
      BY <1>1, <1>5, <2>1 DEF Ready, ValueTypes, Reserve, Closing
  <1>6. ASSUME phase # "frame" PROVE Ready'
    <2>1. i \in Stopped /\ i \in Script
      BY <1>3, <1>4, <1>6
    <2>2. /\ condition' \in [Script -> BOOLEAN] /\ condition'[i] = FALSE
          /\ current' \in Stopped \union {Nobody} /\ current' \in {i, Nobody}
      BY <1>1, <1>2, <1>6, <2>1
    <2>3. \A j \in Stopped : Ends(j)' <=> Ends(j)
      BY <1>1 DEF Ends
    <2>4. ASSUME NEW j \in Stopped, Ends(j)
          PROVE  current' = j \/ cursor'[j] = <<>> \/ \E h \in 1..Len(todo') : todo'[h] = j
      <3>1. cursor[j] = <<>> \/ \E k \in 1..Len(todo) : todo[k] = j
        BY <1>1, <1>3, <2>4 DEF Ready, Turns
      <3>2. QED
        BY <1>1, <1>4, <1>6, <3>1
    <2>5. \A j \in Stopped : Closing(j)' => j = i /\ cursor[i] # <<>> /\ ~condition'[j]
      BY <1>1, <1>3, <2>2 DEF Closing
    <2>6. Turns'
      BY <1>1, <1>2, <1>4, <1>6, <2>2, <2>3, <2>4, <2>5 DEF Turns
    <2>7. ASSUME NEW j \in Stopped
          PROVE  \E n : Needs(cursor'[j], value', n) /\ (Closing(j)' => n + Unit < time_to_play'[j])
      <3>1. PICK n : Needs(cursor[j], value, n)
        BY DEF Ready, Reserve
      <3>2. ASSUME Closing(j)' PROVE n + Unit < time_to_play'[j]
        <4>1. j = i /\ cursor[i] # <<>>
          BY <2>5, <3>2
        <4>2. time_to_play'[i] = time_to_play[i] + Second /\ time_to_play[i] \in Nat
          BY <1>1, <1>6, <2>1, <4>1 DEF Exact, TimeTypes
        <4>3. /\ Left(Top(i), value) \in Nat /\ Left(Top(i), value) <= need[Top(i)]
              /\ \E m \in Nat : n = Left(Top(i), value) + m /\ m <= around[Top(i)]
          BY <2>1, <3>1, <4>1, BelowTop
        <4>4. /\ need[Top(i)] \in Nat /\ around[Top(i)] \in Nat
              /\ need[Top(i)] + around[Top(i)] + Unit < Second
          <5>1. Top(i) \in Stmt /\ owner[Top(i)] = i
            BY <2>1, <4>1, TopIsNested, ChangesAreMine DEF Exact
          <5>2. QED
            BY <2>1, <5>1, Frugality
        <4>5. n + Unit < Second /\ n \in Nat
          BY <4>3, <4>4, TimeAssumption
        <4>6. QED
          BY <4>1, <4>2, <4>5, TimeAssumption
      <3>3. QED
        BY <1>1, <3>1, <3>2
    <2>8. Reserve'
      BY <2>7 DEF Reserve
    <2>9. QED
      BY <1>1, <2>6, <2>8 DEF Ready, ValueTypes
  <1>7. QED
    BY <1>5, <1>6

\* A script whose last second is over has ended.
LEMMA ReturnIsReady ==
  ASSUME FrugalScripts, Stacks, Exact, Ready, NEW i \in Script, Return(i)
  PROVE  Ready'
  <1>1. /\ current = i /\ ~Plays(i) /\ current' = Nobody
        /\ UNCHANGED <<cursor, value, condition, phase, todo>>
    BY DEF Return, control
  <1>2. Stopped \subseteq Script /\ Nobody \notin Stopped /\ i # Nobody
    BY StoppedAreScripts, OwnerAssumption
  <1>3. ASSUME i \in Stopped, phase \in {"reset", "done"} PROVE cursor[i] = <<>>
    <2>1. PICK n : Needs(cursor[i], value, n) /\ n + Unit < time_to_play[i]
      BY <1>1, <1>3 DEF Ready, Reserve, Closing
    <2>2. cursor[i] \in Seq(Cell)
      BY DEF Stacks, StackTypes
    <2>3. n \in Nat /\ time_to_play[i] \in Nat
      BY <2>1, <2>2, NeedsNat DEF Exact, TimeTypes
    <2>4. time_to_play[i] > Unit
      BY <2>1, <2>3, TimeAssumption
    <2>5. QED
      BY <1>1, <2>4 DEF Plays
  <1>4. phase \notin {"game", "end"}
    BY <1>1, <1>2 DEF Ready, Turns, Idle
  <1>5. \A j \in Stopped : ~Closing(j)' /\ (Ends(j)' <=> Ends(j)) /\ (Ends(j) => phase \in {"reset", "done"})
    BY <1>1, <1>2 DEF Closing, Ends
  <1>6. Turns'
    BY <1>1, <1>2, <1>3, <1>4, <1>5 DEF Ready, Turns
  <1>7. QED
    BY <1>1, <1>5, <1>6 DEF Ready, ValueTypes, Reserve

\* Scripts start only while nothing has to end.
LEMMA RestartIsReady ==
  ASSUME FrugalScripts, Stacks, Exact, Ready, NEW ids, Restart(ids),
         phase' \in {"frame", "game"}, condition' \in [Script -> BOOLEAN],
         phase' = "game" => Idle'
  PROVE  Ready'
  <1>1. \A i \in Stopped : ~Closing(i)' /\ ~Ends(i)'
    BY DEF Closing, Ends
  <1>2. Turns'
    BY <1>1 DEF Turns
  <1>3. ASSUME NEW i \in Stopped PROVE \E n : Needs(cursor'[i], value', n)
    <2>1. UNCHANGED value /\ i \in Script
      BY StoppedAreScripts DEF Restart
    <2>2. cursor' = [j \in Script |->
                       IF j \in ids /\ cursor[j] = <<>> THEN <<first[j]>> ELSE cursor[j]]
      BY DEF Restart
    <2>3. CASE cursor'[i] = cursor[i]
      BY <2>1, <2>3 DEF Ready, Reserve
    <2>4. CASE cursor[i] = <<>> /\ cursor'[i] = <<first[i]>>
      BY <2>1, <2>4, FirstNeeds
    <2>5. QED
      BY <2>1, <2>2, <2>3, <2>4
  <1>4. Reserve'
    BY <1>1, <1>3 DEF Reserve
  <1>5. UNCHANGED value
    BY DEF Restart
  <1>6. QED
    BY <1>2, <1>4, <1>5 DEF Ready, ValueTypes

LEMMA ReadyStep ==
  ASSUME FrugalScripts, Stacks, Exact, Exact', Ready, [Next]_vars
  PROVE  Ready'
  <1>1. ASSUME NEW i \in Script, Step(i) \/ Return(i) PROVE Ready'
    BY <1>1, StepIsReady, ReturnIsReady
  <1>2. CASE Give
    BY <1>2, GiveIsReady
  <1>3. condition = [i \in Script |-> condition[i]] /\ condition \in [Script -> BOOLEAN]
    BY DEF Ready, Turns
  <1>4. CASE Frame
    <2>1. PICK ids \in SUBSET Input :
            /\ Restart(Events(ids) \ event_mask_old)
            /\ condition' = [i \in Script |->
                   IF i \in Events(ids) \ event_mask_old THEN TRUE
                   ELSE IF i \in event_mask_old \ Events(ids) THEN FALSE
                   ELSE condition[i]]
      BY <1>4 DEF Frame
    <2>2. condition' \in [Script -> BOOLEAN] /\ phase' = "frame"
      BY <1>3, <1>4, <2>1 DEF Frame
    <2>3. QED
      BY <2>1, <2>2, RestartIsReady
  <1>5. CASE FrameEnd
    <2>1. phase = "frame" /\ phase' = "game" /\ Idle'
      BY <1>5 DEF FrameEnd, Idle
    <2>2. CASE UNCHANGED <<fastest_flag, machine, condition>>
      <3>1. \A i \in Stopped : ~Closing(i)' /\ ~Ends(i)'
        BY <2>1 DEF Closing, Ends
      <3>2. UNCHANGED <<cursor, value, condition>>
        BY <2>2 DEF machine
      <3>3. Turns'
        BY <1>3, <2>1, <3>1, <3>2 DEF Turns
      <3>4. QED
        BY <3>1, <3>2, <3>3 DEF Ready, ValueTypes, Reserve
    <2>3. CASE Restart({"play"}) /\ condition' = [condition EXCEPT !["play"] = TRUE]
      BY <1>3, <2>1, <2>3, RestartIsReady
    <2>4. QED
      BY <1>5, <2>2, <2>3 DEF FrameEnd
  <1>6. CASE ResetEnd
    <2>1. PICK ids : /\ Restart(ids)
                     /\ condition' = [i \in Script |-> i \in ids \/ condition[i]]
      BY <1>6 DEF ResetEnd
    <2>2. phase' = "game" /\ Idle'
      BY <1>6 DEF ResetEnd, Idle
    <2>3. condition' \in [Script -> BOOLEAN]
      BY <1>3, <2>1
    <2>4. QED
      BY <2>1, <2>2, <2>3, RestartIsReady
  <1>7. CASE Reset \/ Done
    <2>1. /\ current = Nobody /\ UNCHANGED <<cursor, value, condition, current>>
          /\ \/ phase' = "reset" /\ todo' = <<"play", "emulation">>
             \/ phase' = "done" /\ todo' = <<"play", "emulation", "video">>
      BY <1>7 DEF Reset, Done, machine, Ready, Turns, Idle
    <2>2. \A i \in Stopped : ~Closing(i)'
      BY <2>1, StoppedAreScripts DEF Closing
    <2>3. todo' \in Seq(Stopped)
      <3>1. <<"play", "emulation">> \in Seq(Stopped) /\ <<"play", "emulation", "video">> \in Seq(Stopped)
        BY DEF Stopped
      <3>2. QED
        BY <2>1, <3>1
    <2>4. ASSUME NEW i \in Stopped, Ends(i)' PROVE \E k \in 1..Len(todo') : todo'[k] = i
      <3>1. CASE phase' = "reset"
        <4>1. Len(todo') = 2 /\ todo'[1] = "play" /\ todo'[2] = "emulation"
          BY <2>1, <3>1
        <4>2. i \in {"play", "emulation"}
          BY <2>4, <3>1 DEF Ends, Stopped
        <4>3. QED
          BY <4>1, <4>2
      <3>2. CASE phase' = "done"
        <4>1. Len(todo') = 3 /\ todo'[1] = "play" /\ todo'[2] = "emulation" /\ todo'[3] = "video"
          BY <2>1, <3>2
        <4>2. QED
          BY <4>1 DEF Stopped
      <3>3. QED
        BY <2>1, <3>1, <3>2
    <2>5. Turns'
      BY <1>3, <2>1, <2>2, <2>3, <2>4 DEF Turns
    <2>6. QED
      BY <2>1, <2>2, <2>5 DEF Ready, ValueTypes, Reserve
  <1>8. CASE DoneEnd
    <2>1. /\ phase = "done" /\ phase' = "end" /\ current = Nobody /\ todo = <<>> /\ Idle'
          /\ UNCHANGED <<cursor, value, condition>>
      BY <1>8 DEF DoneEnd, machine, Idle
    <2>2. ASSUME NEW i \in Stopped PROVE cursor[i] = <<>> /\ ~Closing(i)' /\ ~Ends(i)'
      <3>1. i # Nobody /\ ~(\E k \in 1..Len(todo) : todo[k] = i)
        BY <2>1, StoppedAreScripts
      <3>2. QED
        BY <2>1, <3>1 DEF Ready, Turns, Ends, Closing
    <2>3. Turns'
      BY <1>3, <2>1, <2>2 DEF Turns
    <2>4. QED
      BY <2>1, <2>2, <2>3 DEF Ready, ValueTypes, Reserve
  <1>9. CASE Ended \/ UNCHANGED vars
    <2>1. UNCHANGED <<cursor, value, condition, time_to_play, phase, todo, current>>
      BY <1>9 DEF Ended, vars, machine, control
    <2>2. QED
      BY <2>1 DEF Ready, ValueTypes, Reserve, Turns, Idle, Closing, Ends
  <1>10. QED
    BY <1>1, <1>2, <1>4, <1>5, <1>6, <1>7, <1>8, <1>9 DEF Next, Go

---------------------------------------------------------------------------
(* The leds that the video script turns off.                             *)

\* The video script waits at its first statement, with its condition, until it is
\* stopped, the last of the three; then it turns the leds off and ends.
Video == first["video"]
Clearing == cmd[Video].next
ResetLists == {<<"play", "emulation">>, <<"emulation">>, <<>>}
DoneLists == {<<"play", "emulation", "video">>, <<"emulation", "video">>, <<"video">>, <<>>}

LedTypes == kdb_state \in SUBSET Led /\ status \subseteq Event /\ "video" \notin event_mask_old

Shown ==
    /\ phase \notin {"done", "end"} => cursor["video"] = <<Video>> /\ condition["video"]
    /\ phase = "reset" => todo \in ResetLists
    /\ phase = "done" =>
        /\ todo \in DoneLists
        /\ current = "video" => todo = <<>>
        /\ \/ cursor["video"] = <<Video>> /\ (todo # <<>> => condition["video"])
           \/ /\ cursor["video"] \in {<<Clearing>>, <<>>}
              /\ todo = <<>> /\ current \in {"video", Nobody}
        /\ cursor["video"] = <<>> => kdb_state = {}
    /\ phase = "end" => kdb_state = {}

Leds == LedTypes /\ Shown

LEMMA UnrollOfOne == \A s \in Stmt : Unroll(<<s>>) = <<s>> /\ Unroll(<<End>>) = <<>>
  <1> SUFFICES ASSUME NEW s \in Stmt PROVE Unroll(<<s>>) = <<s>> /\ Unroll(<<End>>) = <<>>
    OBVIOUS
  <1>1. Unroll(<<End>>) = <<>>
    BY DEF Unroll
  <1>2. Len(<<s>>) = 1 /\ <<s>>[1] = s /\ s # End
    BY EndAssumption
  <1> DEFINE P(k) == k \in 1..1 /\ <<s>>[k] # End /\ \A j \in 1..k - 1 : <<s>>[j] = End
  <1>3. (CHOOSE k \in 1..Len(<<s>>) : <<s>>[k] # End /\ \A j \in 1..k - 1 : <<s>>[j] = End) = 1
    <2>1. P(1)
      BY <1>2
    <2>2. \A k \in 1..1 : k = 1
      OBVIOUS
    <2>3. QED
      BY <1>2, <2>1, <2>2
  <1>4. ~(\A k \in 1..Len(<<s>>) : <<s>>[k] = End)
    BY <1>2
  <1>5. Unroll(<<s>>) = SubSeq(<<s>>, 1, 1)
    BY <1>2, <1>3, <1>4 DEF Unroll
  <1>6. SubSeq(<<s>>, 1, 1) = <<s>>
    <2>1. <<s>> \in Seq({s})
      OBVIOUS
    <2>2. QED
      BY <1>2, <2>1, SubSeqFull
  <1>7. QED
    BY <1>1, <1>5, <1>6

LEMMA VideoIsKnown ==
  ASSUME FrugalScripts, DefaultVideo
  PROVE  /\ "video" \in Script /\ "video" \notin Input /\ "video" \notin Event
         /\ Video \in Stmt /\ Video # End /\ cmd[Video].type = "wait" /\ cmd[Video].test = "noevent"
         /\ Clearing \in Stmt /\ cmd[Clearing].type = "evaluate" /\ cmd[Clearing].next = End
         /\ cmd[Clearing].effect = [leds \in SUBSET Led |-> {}]
  <1>1. "video" \in Stopped
    BY DEF Stopped
  <1>2. "video" \in Script /\ "video" \notin Input /\ "video" \notin Event
    BY <1>1, StoppedAreScripts
  <1>3. Video \in Stmt /\ Video # End
    BY <1>2, FirstAssumption, EndAssumption DEF Video
  <1>4. QED
    BY <1>2, <1>3 DEF DefaultVideo, Video, Clearing

LEMMA LedsInit == FrugalScripts /\ DefaultVideo /\ Init => Leds
  <1> SUFFICES ASSUME FrugalScripts, DefaultVideo, Init PROVE Leds
    OBVIOUS
  <1>1. "video" \in Script
    BY VideoIsKnown
  <1>2. LedTypes
    BY DEF Init, SafeInit, LedTypes
  <1>3. Shown
    BY <1>1 DEF Init, Shown, Video, ResetLists
  <1>4. QED
    BY <1>2, <1>3 DEF Leds

\* A statement changes the leds only to other leds.
LEMMA LedsAreLeds ==
  ASSUME LedTypes, NEW i \in Script, Stacks, Step(i)
  PROVE  LedTypes'
  <1>1. UNCHANGED <<status, event_mask_old>>
    BY DEF Step, safeVars
  <1>2. kdb_state' = kdb_state \/ (Type(i) = "evaluate" /\ kdb_state' = cmd[Top(i)].effect[kdb_state])
    BY DEF Step, Evaluate, Wait, Delay, Repeat, LoopWhile, InnerIf
  <1>3. ASSUME Type(i) = "evaluate" PROVE cmd[Top(i)].effect[kdb_state] \in SUBSET Led
    <2>1. Top(i) \in Stmt /\ cmd[Top(i)].type = "evaluate" /\ cmd[Top(i)] \in Command
      BY <1>3, TopIsNested, CommandAssumption DEF Step, Plays, Type
    <2>2. cmd[Top(i)].effect \in [SUBSET Led -> SUBSET Led]
      BY <2>1 DEF Command
    <2>3. QED
      BY <2>2 DEF LedTypes
  <1>4. QED
    BY <1>1, <1>2, <1>3 DEF LedTypes

\* The steps of the video script.
LEMMA VideoStep ==
  ASSUME FrugalScripts, DefaultVideo, Stacks, LedTypes, Step("video")
  PROVE  /\ cursor["video"] # <<>>
         /\ cursor["video"] = <<Video>> =>
              /\ UNCHANGED kdb_state
              /\ \/ cursor'["video"] = <<Video>>
                 \/ cursor'["video"] = <<Clearing>> /\ ~condition["video"]
         /\ cursor["video"] = <<Clearing>> => cursor'["video"] = <<>> /\ kdb_state' = {}
  <1>1. cursor["video"] # <<>> /\ "video" \in Script /\ cursor = [j \in Script |-> cursor[j]]
    BY VideoIsKnown DEF Step, Plays, Stacks, StackTypes
  <1>2. ASSUME cursor["video"] = <<Video>>
        PROVE  /\ UNCHANGED kdb_state
               /\ \/ cursor'["video"] = <<Video>>
                  \/ cursor'["video"] = <<Clearing>> /\ ~condition["video"]
    <2>1. Top("video") = Video /\ Type("video") = "wait" /\ Tail(cursor["video"]) = <<>>
      BY <1>2, VideoIsKnown DEF Top, Type
    <2>2. Wait("video")
      BY <2>1 DEF Step, Evaluate, Delay, Repeat, LoopWhile, InnerIf
    <2>3. Test("video") = {~condition["video"]}
      BY <2>1, VideoIsKnown DEF Test
    <2>4. \/ UNCHANGED cursor
          \/ NextCmd("video") /\ TRUE \in Test("video")
      BY <2>2 DEF Wait
    <2>5. ASSUME NextCmd("video") PROVE cursor'["video"] = <<Clearing>>
      <3>1. cursor'["video"] = Unroll(<<Clearing>> \o <<>>)
        BY <1>1, <2>1, <2>5 DEF NextCmd, Clearing
      <3>2. <<Clearing>> \o <<>> = <<Clearing>>
        OBVIOUS
      <3>3. QED
        BY <3>1, <3>2, UnrollOfOne, VideoIsKnown
    <2>6. QED
      BY <1>2, <2>2, <2>3, <2>4, <2>5 DEF Wait
  <1>3. ASSUME cursor["video"] = <<Clearing>> PROVE cursor'["video"] = <<>> /\ kdb_state' = {}
    <2>1. Top("video") = Clearing /\ Type("video") = "evaluate" /\ Tail(cursor["video"]) = <<>>
      BY <1>3, VideoIsKnown DEF Top, Type
    <2>2. Evaluate("video")
      BY <2>1 DEF Step, Wait, Delay, Repeat, LoopWhile, InnerIf
    <2>3. kdb_state' = {}
      BY <2>1, <2>2, VideoIsKnown DEF Evaluate, LedTypes
    <2>4. cursor'["video"] = Unroll(<<End>> \o <<>>)
      BY <1>1, <2>1, <2>2, VideoIsKnown DEF Evaluate, NextCmd
    <2>5. <<End>> \o <<>> = <<End>>
      OBVIOUS
    <2>6. QED
      BY <2>3, <2>4, <2>5, UnrollOfOne, VideoIsKnown
  <1>4. QED
    BY <1>1, <1>2, <1>3

LEMMA StepShows ==
  ASSUME FrugalScripts, DefaultVideo, Stacks, Ready, Leds, NEW i \in Script, Step(i)
  PROVE  Leds'
  <1>1. LedTypes'
    BY LedsAreLeds DEF Leds
  <1>2. UNCHANGED <<condition, phase, todo, current>> /\ current = i /\ i # Nobody
    BY OwnerAssumption DEF Step, Plays, control
  <1>3. phase \notin {"game", "end"}
    BY <1>2 DEF Ready, Turns, Idle
  <1>4. CASE i # "video"
    <2>1. cursor'["video"] = cursor["video"]
      <3>1. cursor = [k \in Script |-> cursor[k]] /\ "video" \in Script
        BY VideoIsKnown DEF Stacks, StackTypes
      <3>2. QED
        BY <1>4, <3>1 DEF Step, Evaluate, Wait, Delay, DelayGoesOn, DelayEnds, Repeat, LoopWhile, InnerIf,
                          NextCmd, Enter, Leave
    <2>2. cursor["video"] = <<Video>>
      BY <1>2, <1>3, <1>4 DEF Leds, Shown
    <2>3. <<Video>> # <<>>
      OBVIOUS
    <2>4. QED
      BY <1>1, <1>2, <1>3, <2>1, <2>2, <2>3 DEF Leds, Shown
  <1>5. CASE i = "video"
    <2>1. /\ cursor["video"] # <<>>
          /\ cursor["video"] = <<Video>> =>
               /\ UNCHANGED kdb_state
               /\ \/ cursor'["video"] = <<Video>>
                  \/ cursor'["video"] = <<Clearing>> /\ ~condition["video"]
          /\ cursor["video"] = <<Clearing>> => cursor'["video"] = <<>> /\ kdb_state' = {}
      BY <1>5, VideoStep DEF Leds
    <2>2. <<Video>> # <<>> /\ <<Clearing>> # <<>>
      OBVIOUS
    <2>3. CASE phase # "done"
      <3>1. cursor["video"] = <<Video>> /\ condition["video"]
        BY <1>3, <2>3 DEF Leds, Shown
      <3>2. cursor'["video"] = <<Video>>
        BY <2>1, <3>1
      <3>3. QED
        BY <1>1, <1>2, <1>3, <2>3, <3>2 DEF Leds, Shown
    <2>4. CASE phase = "done"
      <3>1. todo = <<>> /\ todo \in DoneLists
        BY <1>2, <1>5, <2>4 DEF Leds, Shown
      <3>2. cursor["video"] \in {<<Video>>, <<Clearing>>}
        BY <2>1, <2>4 DEF Leds, Shown
      <3>3. /\ cursor'["video"] \in {<<Video>>, <<Clearing>>, <<>>}
            /\ cursor'["video"] = <<>> => kdb_state' = {}
        BY <2>1, <2>2, <3>2
      <3>4. QED
        BY <1>1, <1>2, <1>5, <2>4, <3>1, <3>3 DEF Leds, Shown
    <2>5. QED
      BY <2>3, <2>4
  <1>6. QED
    BY <1>4, <1>5

LEMMA GiveShows ==
  ASSUME FrugalScripts, DefaultVideo, Ready, Leds, Give
  PROVE  Leds'
  <1> DEFINE i == Head(todo)
  <1>1. /\ current = Nobody /\ todo # <<>> /\ todo' = Tail(todo)
        /\ UNCHANGED <<status, cursor, phase, event_mask_old, kdb_state>>
        /\ condition' = IF phase = "frame" THEN condition ELSE [condition EXCEPT ![i] = FALSE]
        /\ current' \in {Nobody, i}
    BY DEF Give, safeVars
  <1>2. phase \in {"reset", "frame", "done"} /\ condition = [j \in Script |-> condition[j]]
    BY <1>1 DEF Ready, Turns, Idle
  <1>3. "video" \in Script /\ Nobody # "video"
    BY VideoIsKnown, OwnerAssumption
  <1>4. i # "video" => condition'["video"] = condition["video"]
    BY <1>1, <1>2, <1>3
  <1>5. LedTypes'
    BY <1>1 DEF Leds, LedTypes
  <1>6. CASE phase = "frame"
    BY <1>1, <1>5, <1>6 DEF Leds, Shown
  <1>7. CASE phase = "reset"
    <2>1. \/ todo = <<"play", "emulation">> /\ i = "play" /\ todo' = <<"emulation">>
          \/ todo = <<"emulation">> /\ i = "emulation" /\ todo' = <<>>
      <3>1. todo \in {<<"play", "emulation">>, <<"emulation">>}
        BY <1>1, <1>7 DEF Leds, Shown, ResetLists
      <3>2. CASE todo = <<"play", "emulation">>
        <4>1. Head(todo) = "play" /\ Tail(todo) = <<"emulation">>
          BY <3>2
        <4>2. QED
          BY <1>1, <3>2, <4>1
      <3>3. CASE todo = <<"emulation">>
        <4>1. Head(todo) = "emulation" /\ Tail(todo) = <<>>
          BY <3>3
        <4>2. QED
          BY <1>1, <3>3, <4>1
      <3>4. QED
        BY <3>1, <3>2, <3>3
    <2>2. i # "video" /\ todo' \in ResetLists
      BY <2>1 DEF ResetLists
    <2> HIDE DEF i
    <2>3. QED
      BY <1>1, <1>4, <1>5, <1>7, <2>2 DEF Leds, Shown
  <1>8. CASE phase = "done"
    <2>1. \/ todo = <<"play", "emulation", "video">> /\ i = "play" /\ todo' = <<"emulation", "video">>
          \/ todo = <<"emulation", "video">> /\ i = "emulation" /\ todo' = <<"video">>
          \/ todo = <<"video">> /\ i = "video" /\ todo' = <<>>
      <3>1. todo \in {<<"play", "emulation", "video">>, <<"emulation", "video">>, <<"video">>}
        BY <1>1, <1>8 DEF Leds, Shown, DoneLists
      <3>2. CASE todo = <<"play", "emulation", "video">>
        <4>1. Head(todo) = "play" /\ Tail(todo) = <<"emulation", "video">>
          BY <3>2
        <4>2. QED
          BY <1>1, <3>2, <4>1
      <3>3. CASE todo = <<"emulation", "video">>
        <4>1. Head(todo) = "emulation" /\ Tail(todo) = <<"video">>
          BY <3>3
        <4>2. QED
          BY <1>1, <3>3, <4>1
      <3>4. CASE todo = <<"video">>
        <4>1. Head(todo) = "video" /\ Tail(todo) = <<>>
          BY <3>4
        <4>2. QED
          BY <1>1, <3>4, <4>1
      <3>5. QED
        BY <3>1, <3>2, <3>3, <3>4
    <2>2. /\ todo' \in DoneLists
          /\ i = "video" => todo' = <<>>
          /\ todo' # <<>> => i # "video"
      BY <2>1 DEF DoneLists
    <2> HIDE DEF i
    <2>3. cursor["video"] = <<Video>> /\ condition["video"]
      BY <1>1, <1>8 DEF Leds, Shown
    <2>4. cursor'["video"] = <<Video>> /\ (todo' # <<>> => condition'["video"])
      BY <1>1, <1>4, <2>2, <2>3
    <2>5. <<Video>> # <<>>
      OBVIOUS
    <2>6. current' = "video" => todo' = <<>>
      BY <1>1, <1>3, <2>2
    <2>7. QED
      BY <1>1, <1>5, <1>8, <2>2, <2>4, <2>5, <2>6 DEF Leds, Shown
  <1>9. QED
    BY <1>2, <1>6, <1>7, <1>8

\* The video script runs: it isn't started again.
LEMMA RestartShows ==
  ASSUME FrugalScripts, DefaultVideo, Leds, NEW ids, Restart(ids),
         phase \notin {"done", "end"}, phase' \in {"frame", "game"},
         LedTypes', condition'["video"]
  PROVE  Leds'
  <1>1. cursor["video"] = <<Video>> /\ "video" \in Script
    BY VideoIsKnown DEF Leds, Shown
  <1>2. <<Video>> # <<>>
    OBVIOUS
  <1>3. cursor'["video"] = <<Video>>
    BY <1>1, <1>2 DEF Restart
  <1>4. QED
    BY <1>3 DEF Leds, Shown

LEMMA LedsStep ==
  ASSUME FrugalScripts, DefaultVideo, Stacks, Ready, Leds, [Next]_vars
  PROVE  Leds'
  <1>1. ASSUME NEW i \in Script, Step(i) PROVE Leds'
    BY <1>1, StepShows
  <1>2. ASSUME NEW i \in Script, Return(i) PROVE Leds'
    <2>1. /\ current' = Nobody /\ current = i
          /\ UNCHANGED <<status, cursor, condition, event_mask_old, kdb_state, phase, todo>>
      BY <1>2 DEF Return, control, safeVars
    <2>2. Nobody # "video"
      BY VideoIsKnown, OwnerAssumption
    <2>3. QED
      BY <2>1, <2>2 DEF Leds, LedTypes, Shown
  <1>3. CASE Give
    BY <1>3, GiveShows
  <1>4. "video" \in Script /\ "video" \notin Input /\ "video" \notin Event
    BY VideoIsKnown
  <1>5. phase \notin {"done", "end"} => condition["video"]
    BY DEF Leds, Shown
  <1>6. CASE Frame
    <2>1. PICK ids \in SUBSET Input :
            /\ event_mask_old' = Events(ids)
            /\ Restart(Events(ids) \ event_mask_old)
            /\ condition' = [i \in Script |->
                   IF i \in Events(ids) \ event_mask_old THEN TRUE
                   ELSE IF i \in event_mask_old \ Events(ids) THEN FALSE
                   ELSE condition[i]]
      BY <1>6 DEF Frame
    <2>2. phase = "game" /\ phase' = "frame" /\ UNCHANGED <<status, kdb_state>>
      BY <1>6 DEF Frame, safeVars
    <2>3. "video" \notin Events(ids)
      BY <1>4 DEF Events, Leds, LedTypes
    <2>4. LedTypes'
      BY <2>1, <2>2, <2>3 DEF Leds, LedTypes
    <2>5. condition'["video"]
      BY <1>4, <1>5, <2>1, <2>2, <2>3 DEF Leds, LedTypes
    <2>6. QED
      BY <2>1, <2>2, <2>4, <2>5, RestartShows
  <1>7. CASE FrameEnd
    <2>1. phase = "frame" /\ phase' = "game" /\ UNCHANGED <<event_mask_old, kdb_state>>
      BY <1>7 DEF FrameEnd
    <2>2. LedTypes'
      <3>1. PICK match \in SUBSET entry_map : SafeUpdate(match)
        BY <1>7 DEF FrameEnd
      <3>2. status' \subseteq Event
        BY <3>1 DEF SafeUpdate, Status, Event
      <3>3. QED
        BY <2>1, <3>2 DEF Leds, LedTypes
    <2>3. CASE UNCHANGED <<fastest_flag, machine, condition>>
      BY <2>1, <2>2, <2>3 DEF Leds, Shown, machine
    <2>4. CASE Restart({"play"}) /\ condition' = [condition EXCEPT !["play"] = TRUE]
      <3>1. condition = [i \in Script |-> condition[i]]
        BY DEF Ready, Turns
      <3>2. condition'["video"]
        BY <1>4, <1>5, <2>1, <2>4, <3>1
      <3>3. QED
        BY <2>1, <2>2, <2>4, <3>2, RestartShows
    <2>5. QED
      BY <1>7, <2>3, <2>4 DEF FrameEnd
  <1>8. CASE ResetEnd
    <2>1. PICK ids : /\ Restart(ids)
                     /\ condition' = [i \in Script |-> i \in ids \/ condition[i]]
      BY <1>8 DEF ResetEnd
    <2>2. phase = "reset" /\ phase' = "game" /\ UNCHANGED <<status, event_mask_old, kdb_state>>
      BY <1>8 DEF ResetEnd, safeVars
    <2>3. LedTypes' /\ condition'["video"]
      BY <1>4, <1>5, <2>1, <2>2 DEF Leds, LedTypes
    <2>4. QED
      BY <2>1, <2>2, <2>3, RestartShows
  <1>9. CASE Reset \/ Done
    <2>1. /\ phase = "game"
          /\ UNCHANGED <<status, cursor, condition, event_mask_old, kdb_state, current>>
          /\ \/ phase' = "reset" /\ todo' = <<"play", "emulation">>
             \/ phase' = "done" /\ todo' = <<"play", "emulation", "video">>
      BY <1>9 DEF Reset, Done, machine, safeVars
    <2>2. current = Nobody /\ Nobody # "video"
      BY <1>4, <2>1, OwnerAssumption DEF Ready, Turns, Idle
    <2>3. cursor["video"] = <<Video>> /\ condition["video"]
      BY <2>1 DEF Leds, Shown
    <2>4. <<Video>> # <<>>
      OBVIOUS
    <2>5. /\ phase' = "reset" => todo' \in ResetLists
          /\ phase' = "done" => todo' \in DoneLists
      BY <2>1 DEF ResetLists, DoneLists
    <2>6. QED
      BY <2>1, <2>2, <2>3, <2>4, <2>5 DEF Leds, LedTypes, Shown
  <1>10. CASE DoneEnd
    <2>1. /\ phase = "done" /\ phase' = "end" /\ current = Nobody /\ todo = <<>>
          /\ UNCHANGED <<status, cursor, event_mask_old, kdb_state>>
      BY <1>10 DEF DoneEnd, machine, safeVars, Idle
    <2>2. "video" \in Stopped /\ Nobody # "video"
      BY <1>4, OwnerAssumption DEF Stopped
    <2>3. cursor["video"] = <<>>
      BY <2>1, <2>2 DEF Ready, Turns, Ends
    <2>4. kdb_state' = {}
      BY <2>1, <2>3 DEF Leds, Shown
    <2>5. QED
      BY <2>1, <2>4 DEF Leds, LedTypes, Shown
  <1>11. CASE Ended \/ UNCHANGED vars
    <2>1. UNCHANGED <<status, cursor, condition, event_mask_old, kdb_state, phase, todo, current>>
      BY <1>11 DEF Ended, vars, machine, control, safeVars
    <2>2. QED
      BY <2>1 DEF Leds, LedTypes, Shown
  <1>12. QED
    BY <1>1, <1>2, <1>3, <1>6, <1>7, <1>8, <1>9, <1>10, <1>11 DEF Next, Go

\* Whatever the scripts are, if those that are stopped at a reset and at the end of
\* the game (hardware_script_terminate()) need no more than the second that they are
\* given, they have ended when the next start, and with the default video script the
\* program leaves no led on.
THEOREM EndsAreClean ==
  ASSUME FrugalScripts, DefaultVideo
  PROVE  Spec => []EndIsClean
  <1>1. Ready /\ Leds => EndIsClean
    <2> SUFFICES ASSUME Ready, Leds PROVE EndIsClean
      OBVIOUS
    <2>1. "play" \in Stopped /\ "emulation" \in Stopped /\ "video" \in Stopped /\ Nobody \notin Stopped
      BY StoppedAreScripts DEF Stopped
    <2>2. ASSUME phase \in {"reset", "done"}, Idle, NEW i \in Stopped, Ends(i) PROVE cursor[i] = <<>>
      BY <2>1, <2>2 DEF Ready, Turns, Idle
    <2>3. phase \in {"reset", "done"} => Ends("play") /\ Ends("emulation")
      BY DEF Ends
    <2>4. phase = "end" => cursor["video"] = <<>> /\ kdb_state = {}
      BY <2>1 DEF Ready, Turns, Leds, Shown
    <2>5. QED
      BY <2>1, <2>2, <2>3, <2>4 DEF EndIsClean
  <1>2. Init => Ready /\ Leds
    BY ReadyInit, LedsInit
  <1>3. Stacks /\ Exact /\ Exact' /\ Ready /\ Leds /\ [Next]_vars => Ready' /\ Leds'
    BY ReadyStep, LedsStep
  <1>4. QED
    BY <1>1, <1>2, <1>3, StacksInit, StackStep, ExactInit, ExactStep, PTL DEF Spec
=============================================================================
