-------------------------- MODULE PreludeFanProofs --------------------------
(***************************************************************************)
(* Machine-checked proofs about the two models of prelude_fan.rs.          *)
(*                                                                         *)
(* FanArms: the live-arm count is exact, the threads stay within their     *)
(* bound, each arm runs once and a block is left by its first Err, for     *)
(* every tree of blocks and every bound.                                   *)
(*                                                                         *)
(* FanTimeline: a trap that has waited at a level stays the first one      *)
(* there, for every tree of fans and every program.                        *)
(***************************************************************************)
EXTENDS FanArms, FanTimeline, FiniteSetTheorems, TLAPS
-----------------------------------------------------------------------------
(* The arms of fan blocks *)


\* Which arms may have a thread, by where they are.
OwnOK ==
  \A a \in Arms :
    /\ pc[a] \in {"idle", "over", "slot", "refused"} => ~own[a]
    /\ pc[a] \in {"spawned", "ret", "fail"} => own[a]

\* An arm that its block has not reached is idle.
ReachedOK ==
  \A n \in Nodes :
    /\ reached[n] <= Len(Block[n])
    /\ \A i \in 1..Len(Block[n]) : i > reached[n] => pc[Block[n][i]] = "idle"

\* The outermost thread is not inside almide_fan_spawn.
RootOK == pc[Root] \in {"run", "leave", "unwind"} \cup Over /\ ~own[Root]

\* Arms past "over" were counted below the bound.
GrantedOK == Cardinality(Granted) <= MaxThreads

ArmsInv == CountExact /\ OwnOK /\ ReachedOK /\ RootOK /\ GrantedOK

\* An arm's closure has been called exactly when it is past the spawn.
RanOK ==
  \A a \in Arms :
    ran[a] = IF pc[a] \in {"idle", "over", "slot", "spawned", "refused"} THEN 0 ELSE 1

\* An arm that the block went past has a thread or is over, and so is the last
\* one when the block is left early.
GonePast(n) ==
  \A i \in 1..Len(Block[n]) :
    i < reached[n] \/ (i = reached[n] /\ pc[n] = "leave") =>
      own[Block[n][i]] \/ pc[Block[n][i]] \in Settled

\* Values are taken of arms that are done.
Taken(n) ==
  /\ taken[n] <= Len(Block[n])
  /\ \A i \in 1..Len(Block[n]) : i <= taken[n] => pc[Block[n][i]] = "done"

\* A block is left early at an Err, once every arm was reached.
Leaving(n) ==
  pc[n] = "leave" =>
    /\ reached[n] = Len(Block[n]) /\ taken[n] < Len(Block[n])
    /\ n \in Effect /\ pc[Block[n][taken[n] + 1]] = "err"

\* Every arm of a block that was left is over, and none unwound.
Left(n) ==
  pc[n] \in Settled \cup {"ret"} =>
    /\ \A i \in 1..Len(Block[n]) : pc[Block[n][i]] \in Settled
    /\ LeftInOrder(n)

BlocksOK == \A n \in Nodes : GonePast(n) /\ Taken(n) /\ Leaving(n) /\ Left(n)
-----------------------------------------------------------------------------
(* Counting *)

\* A set of arms has a size.
LEMMA ArmsFinite ==
  ASSUME NEW S \in SUBSET Arms
  PROVE  IsFiniteSet(S) /\ Cardinality(S) \in Nat
  BY ArmsAssumption, FS_Subset, FS_CardinalityType

\* An arm that joins is one more ...
LEMMA CountAdd ==
  ASSUME NEW S \in SUBSET Arms, NEW a \in Arms, a \notin S
  PROVE  Cardinality(S \cup {a}) = Cardinality(S) + 1
  BY ArmsFinite, FS_AddElement

\* ... and one that leaves is one less.
LEMMA CountRemove ==
  ASSUME NEW S \in SUBSET Arms, NEW a \in S
  PROVE  Cardinality(S \ {a}) = Cardinality(S) - 1
  BY ArmsFinite, FS_RemoveElement

\* An arm stands at one place of one block.
LEMMA OneParent ==
  ASSUME NEW n \in Nodes, NEW m \in Nodes,
         NEW i \in 1..Len(Block[n]), NEW j \in 1..Len(Block[m]), Block[n][i] = Block[m][j]
  PROVE  n = m /\ i = j
  BY ArmsAssumption, Zenon

\* The next arm of a block is an arm, idle, and reached by this block alone.
LEMMA NextArm ==
  ASSUME ArmsInv, NEW n \in Nodes, reached[n] < Len(Block[n])
  PROVE  /\ Block[n][reached[n] + 1] \in Arms
         /\ pc[Block[n][reached[n] + 1]] = "idle"
  <1>1. reached[n] \in Nat /\ Block[n] \in Seq(Arms)
    BY ArmsAssumption DEF ArmsInv, CountExact, TypeOK
  <1>2. reached[n] + 1 \in 1..Len(Block[n]) /\ reached[n] + 1 > reached[n]
    BY <1>1
  <1> QED
    BY <1>1, <1>2 DEF ArmsInv, ReachedOK

-----------------------------------------------------------------------------
(* The invariant *)

\* Before the outermost block starts nothing is counted.
LEMMA InitInv == Init => ArmsInv /\ RanOK /\ BlocksOK
  <1> SUFFICES ASSUME Init PROVE ArmsInv /\ RanOK /\ BlocksOK
    OBVIOUS
  <1>0. Root \notin Arms /\ Arms \subseteq Nodes /\ Root \in Nodes /\ MaxThreads \in Nat
    BY ArmsAssumption DEF Nodes
  <1>1. Counted = {} /\ Granted = {}
    BY <1>0 DEF Init, Counted, Granted
  <1>2. TypeOK /\ OwnOK /\ RootOK
    BY <1>0 DEF Init, TypeOK, OwnOK, RootOK, Pcs, Over, Settled
  <1>3. ReachedOK /\ BlocksOK
    <2> SUFFICES ASSUME NEW n \in Nodes
                 PROVE  /\ Len(Block[n]) \in Nat
                        /\ \A i \in 1..Len(Block[n]) : Block[n][i] \in Arms
      BY <1>0 DEF Init, ReachedOK, BlocksOK, GonePast, Taken, Leaving, Left, Settled
    <2> QED
      BY ArmsAssumption
  <1>4. RanOK
    BY <1>0 DEF Init, RanOK
  <1> QED
    BY <1>0, <1>1, <1>2, <1>3, <1>4, FS_EmptySet DEF Init, ArmsInv, CountExact, GrantedOK

\* almide_fan_spawn's add, the drop of a slot and the thread's end keep the
\* count equal to the arms counted, and those below the bound below it.
LEMMA CountStep ==
  ASSUME ArmsInv, [Next]_vars
  PROVE  count' = Cardinality(Counted') /\ Cardinality(Granted') <= MaxThreads
  <1>0. Root \notin Arms /\ Arms \subseteq Nodes /\ MaxThreads \in Nat \ {0}
    BY ArmsAssumption DEF Nodes
  <1>a. /\ pc \in [Nodes -> Pcs] /\ own \in [Nodes -> BOOLEAN]
        /\ count = Cardinality(Counted) /\ count \in Nat
        /\ OwnOK /\ RootOK /\ Cardinality(Granted) <= MaxThreads
    BY DEF ArmsInv, CountExact, TypeOK, GrantedOK
  <1>b. Counted \subseteq Arms /\ Granted \subseteq Counted
    BY DEF Counted, Granted
  <1>c. Cardinality(Counted) \in Nat /\ Cardinality(Granted) \in Nat
    BY <1>b, ArmsFinite
  <1>d. Cardinality(Granted) <= Cardinality(Counted)
    BY <1>b, ArmsFinite, FS_Subset
  <1> USE <1>0, <1>a, <1>b, <1>c
  <1>1. ASSUME UNCHANGED count, Counted' = Counted, Granted' = Granted
        PROVE  count' = Cardinality(Counted') /\ Cardinality(Granted') <= MaxThreads
    BY <1>1
  <1>2. ASSUME NEW a \in Counted, count' = count - 1, Counted' = Counted \ {a},
               Granted' = Granted \ {a}
        PROVE  count' = Cardinality(Counted') /\ Cardinality(Granted') <= MaxThreads
    <2>1. count' = Cardinality(Counted')
      BY <1>2, CountRemove
    <2>2. Cardinality(Granted') <= Cardinality(Granted)
      BY <1>2, ArmsFinite, FS_Subset
    <2>3. Cardinality(Granted') \in Nat
      BY <1>2, ArmsFinite
    <2> QED
      BY <2>1, <2>2, <2>3
  <1>3. ASSUME NEW n \in Nodes, NEW a \in Arms, Reach(n, a)
        PROVE  count' = Cardinality(Counted') /\ Cardinality(Granted') <= MaxThreads
    <2>1. pc[a] = "idle" /\ ~own[a]
      BY <1>3, NextArm DEF Reach, OwnOK, ArmsInv
    <2>2. Counted' = Counted \cup {a} /\ a \notin Counted
      BY <1>3, <2>1 DEF Reach, To, Counted, PastBound
    <2>3. count' = Cardinality(Counted')
      BY <1>3, <2>2, CountAdd DEF Reach
    <2>4. CASE PastBound
      <3>1. Granted' = Granted
        BY <1>3, <2>1, <2>4 DEF Reach, To, Counted, Granted
      <3> QED
        BY <2>3, <3>1
    <2>5. CASE ~PastBound
      <3>1. Granted' = Granted \cup {a} /\ a \notin Granted
        BY <1>3, <2>1, <2>2, <2>5 DEF Reach, To, Counted, Granted
      <3>2. Cardinality(Granted') = Cardinality(Granted) + 1
        BY <3>1, CountAdd
      <3> QED
        BY <1>d, <2>3, <2>5, <3>2 DEF PastBound
    <2> QED
      BY <2>4, <2>5
  <1>4. ASSUME NEW a \in Arms, GiveBack(a) \/ RefuseSpawn(a) \/ DropSlot(a)
        PROVE  count' = Cardinality(Counted') /\ Cardinality(Granted') <= MaxThreads
    <2>1. a \in Counted /\ count' = count - 1
      BY <1>4 DEF GiveBack, RefuseSpawn, DropSlot, Counted
    <2>2. pc' = [pc EXCEPT ![a] = pc'[a]] /\ UNCHANGED own
      BY <1>4 DEF GiveBack, RefuseSpawn, DropSlot, Dropped, To
    <2>3. \/ pc'[a] \in {"refused", "done", "err", "panicked"}
          \/ pc'[a] = "run" /\ ~own[a]
      BY <1>4 DEF GiveBack, RefuseSpawn, DropSlot, Dropped, Endings, To, OwnOK
    <2>4. Counted' = Counted \ {a} /\ Granted' = Granted \ {a}
      BY <2>2, <2>3 DEF Counted, Granted
    <2> QED
      BY <1>2, <2>1, <2>4
  <1>5. ASSUME NEW a \in Arms, Spawn(a) \/ TakeClosure(a)
        PROVE  count' = Cardinality(Counted') /\ Cardinality(Granted') <= MaxThreads
    <2>1. UNCHANGED count /\ Counted' = Counted /\ Granted' = Granted
      BY <1>5 DEF Spawn, TakeClosure, To, OwnOK, Counted, Granted
    <2> QED
      BY <1>1, <2>1
  <1>6. ASSUME NEW n \in Nodes, TakeResult(n) \/ ReturnBody(n) \/ Unwind(n) \/ Panic(n)
        PROVE  count' = Cardinality(Counted') /\ Cardinality(Granted') <= MaxThreads
    <2>1. UNCHANGED <<count, own>> /\ pc' = [pc EXCEPT ![n] = pc'[n]]
      BY <1>6 DEF TakeResult, ReturnBody, Unwind, Panic, To
    <2>2. pc[n] \in {"run", "leave", "unwind"}
      BY <1>6 DEF TakeResult, ReturnBody, Unwind, Panic, Free
    <2>3. pc'[n] \in (IF own[n] THEN {"run", "leave", "unwind", "ret", "fail"}
                                ELSE {"run", "leave", "unwind", "done", "err", "panicked"})
      BY <1>6, <2>2 DEF TakeResult, ReturnBody, Unwind, Panic, Free, Endings, To
    <2>4. Counted' = Counted /\ Granted' = Granted
      BY <2>1, <2>2, <2>3 DEF Counted, Granted
    <2> QED
      BY <1>1, <2>1, <2>4
  <1>7. CASE UNCHANGED vars
    BY <1>1, <1>7 DEF vars, Counted, Granted
  <1> QED
    BY <1>3, <1>4, <1>5, <1>6, <1>7 DEF Next, Step, ArmStep

\* Where an arm is goes with whether it has a thread, and blocks reach their
\* arms in order.
LEMMA ShapeStep ==
  ASSUME ArmsInv, [Next]_vars
  PROVE  /\ pc' \in [Nodes -> Pcs] /\ own' \in [Nodes -> BOOLEAN]
         /\ cell' \in [Arms -> BOOLEAN]
         /\ reached' \in [Nodes -> Nat] /\ taken' \in [Nodes -> Nat]
         /\ ran' \in [Arms -> Nat]
         /\ OwnOK' /\ ReachedOK' /\ RootOK'
  <1>0. Root \notin Arms /\ Arms \subseteq Nodes /\ Root \in Nodes
    BY ArmsAssumption DEF Nodes
  <1>a. TypeOK /\ OwnOK /\ ReachedOK /\ RootOK
    BY DEF ArmsInv, CountExact
  <1>b. \A n \in Nodes : /\ Len(Block[n]) \in Nat
                         /\ \A i \in 1..Len(Block[n]) : Block[n][i] \in Arms
    BY ArmsAssumption
  <1> DEFINE Shape == /\ pc' \in [Nodes -> Pcs] /\ own' \in [Nodes -> BOOLEAN]
                      /\ cell' \in [Arms -> BOOLEAN]
                      /\ reached' \in [Nodes -> Nat] /\ taken' \in [Nodes -> Nat]
                      /\ ran' \in [Arms -> Nat]
                      /\ OwnOK' /\ ReachedOK' /\ RootOK'
  <1> SUFFICES Shape
    OBVIOUS
  <1> USE <1>0, <1>a, <1>b DEF TypeOK, Pcs, Over, Settled, To
  <1>1. ASSUME NEW n \in Nodes, NEW a \in Arms, Reach(n, a)
        PROVE  Shape
    <2>1. /\ pc[a] = "idle" /\ a = Block[n][reached[n] + 1]
          /\ reached[n] + 1 \in 1..Len(Block[n])
      BY <1>1, NextArm DEF Reach
    <2>2. /\ pc' \in [Nodes -> Pcs] /\ OwnOK' /\ RootOK'
          /\ UNCHANGED <<own, cell, taken, ran>>
      BY <1>1, <2>1 DEF Reach, OwnOK, RootOK
    <2>3. reached' = [reached EXCEPT ![n] = reached[n] + 1] /\ reached' \in [Nodes -> Nat]
      BY <1>1 DEF Reach
    <2>4. ReachedOK'
      <3> SUFFICES ASSUME NEW m \in Nodes
                   PROVE  /\ reached'[m] <= Len(Block[m])
                          /\ \A i \in 1..Len(Block[m]) :
                               i > reached'[m] => pc'[Block[m][i]] = "idle"
        BY DEF ReachedOK
      <3>1. reached'[m] <= Len(Block[m]) /\ reached'[m] >= reached[m]
        BY <2>1, <2>3 DEF ReachedOK
      <3>2. ASSUME NEW i \in 1..Len(Block[m]), i > reached'[m]
            PROVE  pc'[Block[m][i]] = "idle"
        <4>1. Block[m][i] # a
          <5>1. SUFFICES ASSUME Block[m][i] = a PROVE FALSE
            OBVIOUS
          <5>2. m = n /\ i = reached[n] + 1
            BY <2>1, <5>1, OneParent
          <5> QED
            BY <2>3, <3>2, <5>2
        <4>2. pc[Block[m][i]] = "idle"
          BY <2>3, <3>1, <3>2 DEF ReachedOK
        <4> QED
          BY <1>1, <4>1, <4>2 DEF Reach
      <3> QED
        BY <3>1, <3>2
    <2> QED
      BY <2>2, <2>3, <2>4
  <1>2. ASSUME NEW a \in Arms,
               GiveBack(a) \/ RefuseSpawn(a) \/ DropSlot(a) \/ Spawn(a) \/ TakeClosure(a)
        PROVE  Shape
    <2>1. /\ pc' = [pc EXCEPT ![a] = pc'[a]] /\ pc[a] # "idle"
          /\ pc'[a] \in Pcs \ {"idle"} /\ UNCHANGED <<reached, taken>>
      BY <1>2 DEF GiveBack, RefuseSpawn, DropSlot, Dropped, Endings, Spawn, TakeClosure
    <2>2. ReachedOK' /\ RootOK'
      BY <1>2, <2>1, SMTT(60) DEF ReachedOK, RootOK, GiveBack, RefuseSpawn, DropSlot, Dropped,
         Endings, Spawn, TakeClosure
    <2>3. own' \in [Nodes -> BOOLEAN] /\ OwnOK'
      <3>1. CASE GiveBack(a) \/ TakeClosure(a)
        BY <3>1 DEF OwnOK, GiveBack, TakeClosure
      <3>2. CASE RefuseSpawn(a)
        BY <3>2 DEF OwnOK, RefuseSpawn
      <3>3. CASE DropSlot(a)
        BY <3>3 DEF OwnOK, DropSlot, Dropped, Endings
      <3>4. CASE Spawn(a)
        BY <3>4 DEF OwnOK, Spawn
      <3> QED BY <1>2, <3>1, <3>2, <3>3, <3>4
    <2>4. UNCHANGED cell \/ cell' = [cell EXCEPT ![a] = FALSE]
      BY <1>2 DEF GiveBack, RefuseSpawn, DropSlot, Spawn, TakeClosure
    <2>5. UNCHANGED ran \/ ran' = [ran EXCEPT ![a] = ran[a] + 1]
      BY <1>2 DEF GiveBack, RefuseSpawn, DropSlot, Spawn, TakeClosure
    <2>6. cell' \in [Arms -> BOOLEAN]
      <3>1. CASE UNCHANGED cell
        BY <3>1
      <3>2. CASE cell' = [cell EXCEPT ![a] = FALSE]
        BY <3>2
      <3> QED
        BY <2>4, <3>1, <3>2
    <2>7. ran' \in [Arms -> Nat]
      <3>1. CASE UNCHANGED ran
        BY <3>1
      <3>2. CASE ran' = [ran EXCEPT ![a] = ran[a] + 1]
        BY <3>2
      <3> QED
        BY <2>5, <3>1, <3>2
    <2>8. pc' \in [Nodes -> Pcs]
      <3> HIDE DEF Pcs
      <3> QED
        BY <2>1
    <2>9. reached' \in [Nodes -> Nat] /\ taken' \in [Nodes -> Nat]
      BY <2>1
    <2> QED
      BY <2>2, <2>3, <2>6, <2>7, <2>8, <2>9
  <1>3. ASSUME NEW n \in Nodes, TakeResult(n) \/ ReturnBody(n) \/ Unwind(n) \/ Panic(n)
        PROVE  Shape
    <2>1. UNCHANGED <<own, cell, reached, ran>> /\ pc' = [pc EXCEPT ![n] = pc'[n]]
      BY <1>3 DEF TakeResult, ReturnBody, Unwind, Panic
    <2>2. pc[n] \in {"run", "leave", "unwind"}
      BY <1>3 DEF TakeResult, ReturnBody, Unwind, Panic, Free
    <2>3. pc'[n] \in (IF own[n] THEN {"run", "leave", "unwind", "ret", "fail"}
                                ELSE {"run", "leave", "unwind", "done", "err", "panicked"})
      BY <1>3, <2>2 DEF TakeResult, ReturnBody, Unwind, Panic, Free, Endings
    <2>4. OwnOK' /\ RootOK' /\ ReachedOK'
      <3>1. OwnOK'
        BY <2>1, <2>2, <2>3 DEF OwnOK
      <3>2. RootOK'
        BY <2>1, <2>3 DEF RootOK
      <3>3. ReachedOK'
        BY <2>1, <2>2 DEF ReachedOK
      <3> QED
        BY <3>1, <3>2, <3>3
    <2>5. UNCHANGED taken \/ taken' = [taken EXCEPT ![n] = taken[n] + 1]
      BY <1>3 DEF TakeResult, ReturnBody, Unwind, Panic
    <2>6. taken' \in [Nodes -> Nat]
      <3>1. CASE UNCHANGED taken
        BY <3>1
      <3>2. CASE taken' = [taken EXCEPT ![n] = taken[n] + 1]
        BY <3>2
      <3> QED
        BY <2>5, <3>1, <3>2
    <2>7. pc'[n] \in Pcs
      BY <2>3
    <2> QED
      BY <2>1, <2>4, <2>6, <2>7, ZenonT(60)
  <1>4. CASE UNCHANGED vars
    BY <1>4 DEF vars, OwnOK, ReachedOK, RootOK
  <1> QED
    BY <1>1, <1>2, <1>3, <1>4 DEF Next, Step, ArmStep

\* Every step keeps the invariant.
LEMMA InvStep == ArmsInv /\ [Next]_vars => ArmsInv'
  <1> SUFFICES ASSUME ArmsInv, [Next]_vars PROVE ArmsInv'
    OBVIOUS
  <1>1. Counted' \subseteq Arms
    BY DEF Counted
  <1>2. count' \in Nat
    BY <1>1, CountStep, ArmsFinite
  <1> QED
    BY <1>2, CountStep, ShapeStep DEF ArmsInv, CountExact, TypeOK, GrantedOK

\* The closure in the cell is called once, by the new thread or by the one
\* that was refused it.
LEMMA RanStep ==
  ASSUME ArmsInv, RanOK, [Next]_vars
  PROVE  RanOK'
  <1>0. Root \notin Arms /\ Arms \subseteq Nodes
    BY ArmsAssumption DEF Nodes
  <1>a. TypeOK /\ OwnOK
    BY DEF ArmsInv, CountExact
  <1> USE <1>0, <1>a DEF TypeOK, To
  <1>1. ASSUME NEW n \in Nodes, NEW a \in Arms, Reach(n, a)
        PROVE  RanOK'
    <2>1. pc[a] = "idle"
      BY <1>1, NextArm DEF Reach
    <2>2. pc' = [pc EXCEPT ![a] = pc'[a]] /\ pc'[a] \in {"over", "slot"} /\ UNCHANGED ran
      BY <1>1 DEF Reach
    <2> QED
      BY <2>1, <2>2 DEF RanOK
  <1>2. ASSUME NEW a \in Arms, GiveBack(a) \/ TakeClosure(a)
        PROVE  RanOK'
    <2>1. /\ pc[a] \in {"over", "spawned", "refused"} /\ pc' = [pc EXCEPT ![a] = "run"]
          /\ ran' = [ran EXCEPT ![a] = ran[a] + 1]
      BY <1>2 DEF GiveBack, TakeClosure
    <2> QED
      BY <2>1 DEF RanOK
  <1>3. ASSUME NEW a \in Arms, RefuseSpawn(a) \/ DropSlot(a) \/ Spawn(a)
        PROVE  RanOK'
    BY <1>3 DEF RanOK, RefuseSpawn, DropSlot, Dropped, Endings, Spawn
  <1>4. ASSUME NEW n \in Nodes, TakeResult(n) \/ ReturnBody(n) \/ Unwind(n) \/ Panic(n)
        PROVE  RanOK'
    <2>1. /\ pc' = [pc EXCEPT ![n] = pc'[n]] /\ UNCHANGED ran
          /\ pc[n] \in {"run", "leave", "unwind"}
      BY <1>4 DEF TakeResult, ReturnBody, Unwind, Panic, Free
    <2>2. pc'[n] \in {"run", "leave", "unwind", "ret", "fail", "done", "err", "panicked"}
      BY <1>4 DEF TakeResult, ReturnBody, Unwind, Panic, Free, Endings
    <2> QED
      BY <2>1, <2>2 DEF RanOK
  <1>5. CASE UNCHANGED vars
    BY <1>5 DEF vars, RanOK
  <1> QED
    BY <1>1, <1>2, <1>3, <1>4, <1>5 DEF Next, Step, ArmStep

\* What a step may do to one thread and its block.
ArmMoves(m) ==
  /\ pc[m] \in Settled => pc'[m] = pc[m]
  /\ own[m] => own'[m]
  /\ reached'[m] = reached[m] \/ (Free(m) /\ pc'[m] = "run" /\ reached'[m] = reached[m] + 1)
  /\ \/ taken'[m] = taken[m]
     \/ /\ taken[m] < Len(Block[m]) /\ pc[Block[m][taken[m] + 1]] = "done"
        /\ taken'[m] = taken[m] + 1 /\ pc'[m] = "run"
  /\ pc'[m] = "leave" /\ pc[m] # "leave" =>
       /\ Free(m) /\ m \in Effect
       /\ reached[m] = Len(Block[m]) /\ taken[m] < Len(Block[m])
       /\ pc[Block[m][taken[m] + 1]] = "err"
  /\ pc'[m] \in Settled \cup {"ret"} /\ pc[m] \notin Settled \cup {"ret"} =>
       /\ pc[m] = "leave" \/ AllTaken(m)
       /\ Scope(m) /\ ~ScopePanics(m)

\* Every step does no more than that.
LEMMA ArmsMove ==
  ASSUME ArmsInv, [Next]_vars, NEW m \in Nodes
  PROVE  ArmMoves(m)
  <1>0. Root \notin Arms /\ Arms \subseteq Nodes
    BY ArmsAssumption DEF Nodes
  <1>a. TypeOK /\ OwnOK
    BY DEF ArmsInv, CountExact
  <1> USE <1>0, <1>a DEF TypeOK, To, ArmMoves, Settled
  <1>1. ASSUME NEW n \in Nodes, NEW a \in Arms, Reach(n, a)
        PROVE  ArmMoves(m)
    <2>1. pc[a] = "idle" /\ pc[n] = "run"
      BY <1>1, NextArm DEF Reach, Free
    <2>2. /\ pc' = [pc EXCEPT ![a] = pc'[a]] /\ pc'[a] \in {"over", "slot"}
          /\ UNCHANGED <<own, taken>> /\ reached' = [reached EXCEPT ![n] = reached[n] + 1]
          /\ Free(n)
      BY <1>1 DEF Reach
    <2> QED
      BY <2>1, <2>2
  <1>2. ASSUME NEW a \in Arms, GiveBack(a) \/ RefuseSpawn(a) \/ Spawn(a) \/ TakeClosure(a)
        PROVE  ArmMoves(m)
    BY <1>2 DEF GiveBack, RefuseSpawn, Spawn, TakeClosure
  <1>3. ASSUME NEW a \in Arms, DropSlot(a)
        PROVE  ArmMoves(m)
    BY <1>3 DEF DropSlot, Dropped, Endings
  <1>4. ASSUME NEW n \in Nodes, TakeResult(n)
        PROVE  ArmMoves(m)
    BY <1>4 DEF TakeResult, Free
  <1>5. ASSUME NEW n \in Nodes, ReturnBody(n)
        PROVE  ArmMoves(m)
    <2>1. /\ UNCHANGED <<own, reached, taken>> /\ pc' = [pc EXCEPT ![n] = pc'[n]]
          /\ pc[n] \in {"run", "leave"} /\ (pc[n] = "leave" \/ AllTaken(n)) /\ Scope(n)
      BY <1>5 DEF ReturnBody, Free
    <2>2. pc'[n] \in {"unwind", "ret", "done", "err"} /\ (pc'[n] # "unwind" => ~ScopePanics(n))
      BY <1>5 DEF ReturnBody, Endings
    <2> QED
      BY <2>1, <2>2
  <1>6. ASSUME NEW n \in Nodes, Unwind(n) \/ Panic(n)
        PROVE  ArmMoves(m)
    BY <1>6 DEF Unwind, Panic, Free
  <1>7. CASE UNCHANGED vars
    BY <1>7 DEF vars
  <1> QED
    BY <1>1, <1>2, <1>3, <1>4, <1>5, <1>6, <1>7 DEF Next, Step, ArmStep

\* Blocks pass their arms, take their values and are left in order.
LEMMA BlocksStep ==
  ASSUME ArmsInv, BlocksOK, [Next]_vars
  PROVE  BlocksOK'
  <1> SUFFICES ASSUME NEW m \in Nodes
               PROVE  (GonePast(m) /\ Taken(m) /\ Leaving(m) /\ Left(m))'
    BY DEF BlocksOK
  <1>0. Arms \subseteq Nodes
    BY DEF Nodes
  <1>a. /\ reached[m] \in Nat /\ taken[m] \in Nat /\ Len(Block[m]) \in Nat
        /\ \A i \in 1..Len(Block[m]) : Block[m][i] \in Nodes
    BY <1>0, ArmsAssumption DEF ArmsInv, CountExact, TypeOK
  <1>b. GonePast(m) /\ Taken(m) /\ Leaving(m) /\ Left(m)
    BY DEF BlocksOK
  <1>c. ArmMoves(m)
    BY ArmsMove
  <1>d. \A i \in 1..Len(Block[m]) :
          /\ pc[Block[m][i]] \in Settled => pc'[Block[m][i]] = pc[Block[m][i]]
          /\ own[Block[m][i]] => own'[Block[m][i]]
    BY <1>a, ArmsMove DEF ArmMoves
  <1>e. pc[m] = "leave" => pc[m] # "run" /\ pc[m] \notin Settled \cup {"ret"}
    BY DEF Settled
  <1>1. GonePast(m)'
    <2> SUFFICES ASSUME NEW i \in 1..Len(Block[m]),
                        i < reached'[m] \/ (i = reached'[m] /\ pc'[m] = "leave")
                 PROVE  own'[Block[m][i]] \/ pc'[Block[m][i]] \in Settled
      BY DEF GonePast
    <2>1. \/ i < reached[m] \/ (i = reached[m] /\ pc[m] = "leave")
          \/ i = reached[m] /\ Free(m)
      BY <1>a, <1>c DEF ArmMoves
    <2>2. own[Block[m][i]] \/ pc[Block[m][i]] \in Settled
      BY <1>a, <1>b, <2>1 DEF GonePast, Free, Current
    <2> QED
      BY <1>d, <2>2
  <1>2. Taken(m)'
    BY <1>a, <1>b, <1>c, <1>d DEF Taken, ArmMoves, Settled
  <1>3. Leaving(m)'
    <2> SUFFICES ASSUME pc'[m] = "leave" PROVE Leaving(m)'
      BY DEF Leaving
    <2>1. UNCHANGED <<reached[m], taken[m]>>
      BY <1>c DEF ArmMoves
    <2>2. /\ reached[m] = Len(Block[m]) /\ taken[m] < Len(Block[m]) /\ m \in Effect
          /\ pc[Block[m][taken[m] + 1]] = "err"
      BY <1>b, <1>c DEF ArmMoves, Leaving
    <2>3. taken[m] + 1 \in 1..Len(Block[m])
      BY <1>a, <2>2
    <2>4. pc'[Block[m][taken[m] + 1]] = "err"
      BY <1>d, <2>2, <2>3 DEF Settled
    <2> QED
      BY <2>1, <2>2, <2>4 DEF Leaving
  <1>4. Left(m)'
    <2> SUFFICES ASSUME pc'[m] \in Settled \cup {"ret"} PROVE Left(m)'
      BY DEF Left
    <2>0. taken'[m] = taken[m]
      BY <1>c DEF ArmMoves, Settled
    <2>1. (\A i \in 1..Len(Block[m]) : pc[Block[m][i]] \in Settled) /\ LeftInOrder(m)
      <3>1. CASE pc[m] \in Settled \cup {"ret"}
        BY <1>b, <3>1 DEF Left
      <3>2. CASE pc[m] \notin Settled \cup {"ret"} /\ AllTaken(m)
        BY <1>a, <1>b, <3>2 DEF Taken, AllTaken, LeftInOrder, Settled
      <3>3. CASE pc[m] \notin Settled \cup {"ret"} /\ ~AllTaken(m)
        <4>1. pc[m] = "leave" /\ Scope(m) /\ ~ScopePanics(m)
          BY <1>c, <3>3 DEF ArmMoves
        <4>2. /\ reached[m] = Len(Block[m]) /\ taken[m] < Len(Block[m]) /\ m \in Effect
              /\ pc[Block[m][taken[m] + 1]] = "err"
          BY <1>b, <4>1 DEF Leaving
        <4>3. ASSUME NEW i \in 1..Len(Block[m])
              PROVE  pc[Block[m][i]] \in Settled
          <5>1. CASE i <= taken[m]
            BY <1>b, <5>1 DEF Taken, Settled
          <5>2. CASE ~(i <= taken[m]) /\ own[Block[m][i]]
            <6>1. i \in (taken[m] + 1)..Len(Block[m])
              BY <1>a, <5>2
            <6>2. Block[m][i] \in ArmsOf(m) /\ Block[m][i] \in Unjoined(m)
              BY <6>1 DEF ArmsOf, Unjoined
            <6>3. pc[Block[m][i]] \in Over /\ pc[Block[m][i]] # "panicked"
              BY <4>1, <5>2, <6>2 DEF Scope, ScopePanics
            <6> QED
              BY <6>3 DEF Over
          <5>3. CASE ~own[Block[m][i]]
            <6>1. i < reached[m] \/ (i = reached[m] /\ pc[m] = "leave")
              BY <1>a, <4>1, <4>2
            <6>2. own[Block[m][i]] \/ pc[Block[m][i]] \in Settled
              BY <1>b, <6>1 DEF GonePast
            <6> QED
              BY <5>3, <6>2
          <5> QED
            BY <5>1, <5>2, <5>3
        <4>4. \A i \in 1..taken[m] : pc[Block[m][i]] = "done"
          BY <1>a, <1>b, <4>2 DEF Taken
        <4> QED
          BY <4>2, <4>3, <4>4 DEF LeftInOrder
      <3> QED
        BY <3>1, <3>2, <3>3
    <2>2. taken[m] <= Len(Block[m])
      BY <1>b DEF Taken
    <2>3. \A i \in 1..Len(Block[m]) : pc'[Block[m][i]] = pc[Block[m][i]]
      BY <1>d, <2>1
    <2>4. LeftInOrder(m)'
      <3>1. \A i \in 1..taken[m] : pc'[Block[m][i]] = "done"
        BY <1>a, <2>1, <2>2, <2>3 DEF LeftInOrder
      <3>2. taken[m] # Len(Block[m]) => taken[m] + 1 \in 1..Len(Block[m])
        BY <1>a, <2>2
      <3>3. AllTaken(m)' \/ (m \in Effect /\ pc'[Block[m][taken[m] + 1]] = "err")
        BY <2>0, <2>1, <2>3, <3>2 DEF LeftInOrder, AllTaken
      <3> QED
        BY <2>0, <3>1, <3>3 DEF LeftInOrder
    <2> QED
      BY <2>1, <2>3, <2>4 DEF Left
  <1> QED
    BY <1>1, <1>2, <1>3, <1>4
-----------------------------------------------------------------------------
(* The theorems *)

\* The inductive invariant of the arm threads: the count, who has a thread,
\* how far each block has come, and how many arms were let in below the bound.
THEOREM ArmsInvariant == Spec => []ArmsInv
  <1>1. Init => ArmsInv
    BY InitInv
  <1> QED
    BY <1>1, InvStep, PTL DEF Spec

\* ALMIDE_FAN_ARM_THREADS is exact at every moment, for every tree of blocks,
\* whatever the OS refuses and whichever bodies unwind.
THEOREM CountIsExact == Spec => []CountExact
  <1>1. ArmsInv => CountExact
    BY DEF ArmsInv
  <1> QED
    BY <1>1, ArmsInvariant, PTL

\* Never more arm threads are alive than the bound, though the count, which is
\* added to before it is compared, overshoots it.
THEOREM LiveIsBounded == Spec => []LiveBound
  <1>1. ArmsInv => LiveBound
    <2> SUFFICES ASSUME ArmsInv PROVE LiveBound
      OBVIOUS
    <2>1. Live \subseteq Granted /\ Granted \subseteq Arms /\ Arms \subseteq Nodes
      BY DEF ArmsInv, CountExact, TypeOK, OwnOK, Live, Granted, Counted, Nodes, Pcs, Over, Settled
    <2>2. Cardinality(Live) <= Cardinality(Granted)
      BY <2>1, ArmsFinite, FS_Subset
    <2>3. Cardinality(Live) \in Nat /\ Cardinality(Granted) \in Nat
      BY <2>1, ArmsFinite
    <2> QED
      BY <2>2, <2>3, ArmsAssumption DEF ArmsInv, GrantedOK, LiveBound
  <1> QED
    BY <1>1, ArmsInvariant, PTL

\* No arm runs twice.  A block that returned, early at an Err too, has run each
\* of its arms once and to its end, and its outcome is the first Err in the list.
THEOREM EachArmOnce == Spec => []ArmsRunOnce
  <1>1. Init => RanOK /\ BlocksOK
    BY InitInv
  <1>2. ArmsInv /\ (RanOK /\ BlocksOK) /\ [Next]_vars => (RanOK /\ BlocksOK)'
    BY RanStep, BlocksStep
  <1>3. RanOK /\ BlocksOK => ArmsRunOnce
    <2> SUFFICES ASSUME RanOK, BlocksOK PROVE ArmsRunOnce
      OBVIOUS
    <2>1. \A a \in Arms : ran[a] \in {0, 1} /\ (pc[a] \in Settled => ran[a] = 1)
      BY DEF RanOK, Settled
    <2>2. ASSUME NEW n \in Nodes, pc[n] \in Settled \cup {"ret"}, NEW a \in ArmsOf(n)
          PROVE  ran[a] = 1 /\ pc[a] \in Settled
      <3>1. PICK i \in 1..Len(Block[n]) : a = Block[n][i]
        BY DEF ArmsOf
      <3>2. a \in Arms
        BY <3>1, ArmsAssumption
      <3>3. pc[a] \in Settled
        BY <2>2, <3>1 DEF BlocksOK, Left
      <3> QED
        BY <2>1, <3>2, <3>3
    <2>3. \A n \in Nodes : pc[n] \in Settled \cup {"ret"} => LeftInOrder(n)
      BY DEF BlocksOK, Left
    <2> QED
      BY <2>1, <2>2, <2>3 DEF ArmsRunOnce
  <1> QED
    BY <1>1, <1>2, <1>3, ArmsInvariant, PTL DEF Spec
-----------------------------------------------------------------------------
(* The output timelines: the invariant *)

Ops == {"line", "part", "err", "fan", "trap"}
Sts == {"unborn", "run", "write", "join", "finish", "drain", "advance",
        "done", "trap", "asleep", "recheck", "parked", "exit"}

TTypes ==
  /\ script \in [Elem -> Seq(Ops)] /\ status \in {"running", "returned", "exited"}
  /\ \A e \in Elem : script[e] \in Scripts[e]
  /\ st \in [Elem -> Sts] /\ ip \in [Elem -> Nat] /\ at \in [Elem -> Elem \cup {Top}]
  /\ \A e \in Elem : ip[e] \in 1..(Len(script[e]) + 1)
  /\ head \in [Groups -> Nat] /\ lock \in [Groups -> Elem \cup {Top}]
  /\ done \in [Groups -> SUBSET Nat] /\ trapped \in [Groups -> SUBSET Nat]
  /\ \A g \in Groups : /\ head[g] \in 1..(Len(Fans[g]) + 1)
                       /\ done[g] \subseteq 1..Len(Fans[g]) /\ trapped[g] \subseteq 1..Len(Fans[g])

\* A thread that drains has its fan's lock; the head has passed only elements
\* that are done, and those are past their last write.
DrainOK ==
  /\ \A e \in Elem : st[e] \in {"drain", "advance"} => lock[GroupOf[e]] = e
  /\ \A g \in Groups : \A i \in 1..Len(Fans[g]) : i < head[g] => i \in done[g]
  /\ \A g \in Groups : \A i \in done[g] : st[Fans[g][i]] \in {"drain", "advance", "done"}

\* Where element e has a fan still to start.
FanAhead(e) == \E k \in ip[e]..Len(script[e]) : script[e][k] = "fan"

\* Whoever runs is inside a fan its enclosing element has started and not
\* joined, and no element runs before that.
NestOK ==
  /\ \A e \in Elem : st[e] = "join" => ip[e] <= Len(script[e]) /\ script[e][ip[e]] = "fan"
  /\ \A e \in Elem : st[e] \notin {"unborn", "done"} =>
       Enclosing[e] = Top \/ st[Enclosing[e]] = "join"
  /\ \A e, x \in Elem : st[e] # "join" /\ FanAhead(e) /\ Enclosing[x] = e => st[x] = "unborn"

\* A trap waits at a sink around its element.
WaitOK ==
  \A e \in Elem :
    /\ Trapping(e) => at[e] \in Outwards[e] \cup {Top}
    /\ st[e] \in {"asleep", "recheck"} => at[e] # Top

\* The invariant's statement about sinks that were passed.
FirstOK ==
  \A e \in Elem : Trapping(e) => \A s \in Passed(e) :
    /\ Turn(s, trapped[GroupOf[s]])
    /\ \A i \in 1..(IndexOf[s] - 1) : st[Fans[GroupOf[s]][i]] = "done"

TimelineInv == TTypes /\ DrainOK /\ NestOK /\ WaitOK /\ FirstOK
-----------------------------------------------------------------------------
(* The tree of fans *)

\* An element has one place, and the place holds it.
LEMMA Places ==
  /\ \A e \in Elem : /\ GroupOf[e] \in Groups /\ IndexOf[e] \in 1..Len(Fans[GroupOf[e]])
                     /\ Fans[GroupOf[e]][IndexOf[e]] = e
                     /\ Enclosing[e] = StartedBy[GroupOf[e]] /\ Enclosing[e] \in Elem \cup {Top}
  /\ \A g \in Groups : /\ Len(Fans[g]) \in Nat
                       /\ \A i \in 1..Len(Fans[g]) :
                            /\ Fans[g][i] \in Elem /\ GroupOf[Fans[g][i]] = g
                            /\ IndexOf[Fans[g][i]] = i
<1>1. ASSUME NEW g \in Groups
      PROVE  /\ Fans[g] \in Seq(Elem) /\ Len(Fans[g]) \in Nat
             /\ Range(Fans[g]) = {Fans[g][i] : i \in 1..Len(Fans[g])}
  <2>1. Fans[g] \in Seq(Elem)
    BY TreeAssumption
  <2>2. DOMAIN Fans[g] = 1..Len(Fans[g]) /\ Len(Fans[g]) \in Nat
    BY <2>1
  <2> QED BY <2>1, <2>2 DEF Range
<1>2. ASSUME NEW e \in Elem
      PROVE  /\ GroupOf[e] \in Groups /\ IndexOf[e] \in 1..Len(Fans[GroupOf[e]])
             /\ Fans[GroupOf[e]][IndexOf[e]] = e
             /\ Enclosing[e] = StartedBy[GroupOf[e]] /\ Enclosing[e] \in Elem \cup {Top}
  <2>1. \E g \in Groups : e \in Range(Fans[g])
    BY DEF Elem
  <2>2. GroupOf[e] \in Groups /\ e \in Range(Fans[GroupOf[e]])
    BY <2>1 DEF GroupOf
  <2>3. \E i \in 1..Len(Fans[GroupOf[e]]) : Fans[GroupOf[e]][i] = e
    BY <1>1, <2>2
  <2>4. IndexOf[e] \in 1..Len(Fans[GroupOf[e]]) /\ Fans[GroupOf[e]][IndexOf[e]] = e
    BY <2>3 DEF IndexOf
  <2>5. Enclosing[e] = StartedBy[GroupOf[e]]
    BY DEF Enclosing
  <2> QED BY <2>2, <2>4, <2>5, TreeAssumption
<1>3. ASSUME NEW g \in Groups, NEW i \in 1..Len(Fans[g])
      PROVE  Fans[g][i] \in Elem /\ GroupOf[Fans[g][i]] = g /\ IndexOf[Fans[g][i]] = i
  <2>1. PICK e \in Elem : e = Fans[g][i]
    BY <1>1 DEF Elem
  <2>2. /\ GroupOf[e] \in Groups /\ IndexOf[e] \in 1..Len(Fans[GroupOf[e]])
        /\ Fans[GroupOf[e]][IndexOf[e]] = Fans[g][i]
    BY <1>2, <2>1
  <2>3. GroupOf[e] = g /\ IndexOf[e] = i
    BY <2>2, TreeAssumption
  <2> QED BY <2>1, <2>3
<1> QED BY <1>1, <1>2, <1>3

\* The fan that an element starts holds the elements it encloses.
LEMMA Children ==
  ASSUME NEW e \in Elem, \E g \in Groups : StartedBy[g] = e
  PROVE  /\ ChildOf(e) \in Groups
         /\ \A x \in Elem : GroupOf[x] = ChildOf(e) <=> Enclosing[x] = e
         /\ \A x \in Elem : x \in Range(Fans[ChildOf(e)]) <=> Enclosing[x] = e
<1>1. ChildOf(e) \in Groups /\ StartedBy[ChildOf(e)] = e
  BY DEF ChildOf
<1>2. \A x \in Elem : GroupOf[x] = ChildOf(e) <=> Enclosing[x] = e
  BY <1>1, Places, TreeAssumption
<1>3. ASSUME NEW x \in Elem PROVE x \in Range(Fans[ChildOf(e)]) <=> GroupOf[x] = ChildOf(e)
  <2>1. Fans[ChildOf(e)] \in Seq(Elem)
    BY <1>1, TreeAssumption
  <2>2. DOMAIN Fans[ChildOf(e)] = 1..Len(Fans[ChildOf(e)])
    BY <2>1
  <2>3. Range(Fans[ChildOf(e)]) = {Fans[ChildOf(e)][i] : i \in 1..Len(Fans[ChildOf(e)])}
    BY <2>2 DEF Range
  <2> QED BY <1>1, <2>3, Places
<1> QED BY <1>1, <1>2, <1>3

\* A set that goes outwards from each of its members.
Closed(S) == S \in SUBSET Elem /\ \A x \in S : Enclosing[x] # Top => Enclosing[x] \in S

\* The sinks around an element are the least such set it is in.
LEMMA OutwardsIs ==
  ASSUME NEW e \in Elem
  PROVE  /\ e \in Outwards[e] /\ Closed(Outwards[e])
         /\ \A S : Closed(S) /\ e \in S => Outwards[e] \subseteq S
         /\ Enclosing[e] = Top => Outwards[e] = {e}
         /\ Enclosing[e] # Top => Enclosing[e] \in Elem /\ Outwards[e] = {e} \cup Outwards[Enclosing[e]]
<1>1. ASSUME NEW d \in Elem
      PROVE  /\ d \in Outwards[d] /\ Closed(Outwards[d])
             /\ \A S : Closed(S) /\ d \in S => Outwards[d] \subseteq S
  <2>1. Outwards[d] = {s \in Elem : \A S \in SUBSET Elem :
           d \in S /\ (\A x \in S : Enclosing[x] # Top => Enclosing[x] \in S) => s \in S}
    BY DEF Outwards
  <2>2. \A s : s \in Outwards[d] <=> s \in Elem /\ \A S : Closed(S) /\ d \in S => s \in S
    BY <2>1 DEF Closed
  <2>3. d \in Outwards[d] /\ \A S : Closed(S) /\ d \in S => Outwards[d] \subseteq S
    BY <2>2
  <2>4. ASSUME NEW x \in Outwards[d], Enclosing[x] # Top PROVE Enclosing[x] \in Outwards[d]
    <3>1. x \in Elem /\ Enclosing[x] \in Elem
      BY <2>2, <2>4, Places
    <3>2. ASSUME NEW S, Closed(S), d \in S PROVE Enclosing[x] \in S
      BY <2>2, <2>4, <3>2 DEF Closed
    <3> QED BY <2>2, <3>1, <3>2
  <2> QED BY <2>2, <2>3, <2>4 DEF Closed
<1>2. ASSUME Enclosing[e] = Top PROVE Outwards[e] = {e}
  <2>1. Closed({e})
    BY <1>2 DEF Closed
  <2> QED BY <1>1, <2>1
<1>3. ASSUME Enclosing[e] # Top
      PROVE  Enclosing[e] \in Elem /\ Outwards[e] = {e} \cup Outwards[Enclosing[e]]
  <2>1. Enclosing[e] \in Elem
    BY <1>3, Places
  <2>2. Closed({e} \cup Outwards[Enclosing[e]])
    BY <1>1, <2>1 DEF Closed
  <2>3. Outwards[e] \subseteq {e} \cup Outwards[Enclosing[e]]
    BY <1>1, <2>2
  <2>4. Enclosing[e] \in Outwards[e]
    BY <1>1, <1>3 DEF Closed
  <2>5. Outwards[Enclosing[e]] \subseteq Outwards[e]
    BY <1>1, <2>1, <2>4
  <2> QED BY <1>1, <2>1, <2>3, <2>5
<1> QED BY <1>1, <1>2, <1>3
-----------------------------------------------------------------------------
(* Steps of the timelines *)

\* A script has at most one fan, and then the element starts one.
LEMMA OneFan ==
  ASSUME TTypes, NEW e \in Elem
  PROVE  /\ Len(script[e]) \in Nat
         /\ \A j, k \in 1..Len(script[e]) : script[e][j] = "fan" /\ script[e][k] = "fan" => j = k
         /\ \A k \in 1..Len(script[e]) : script[e][k] = "fan" => \E g \in Groups : StartedBy[g] = e
<1>1. script[e] \in Seq(Ops) /\ script[e] \in Scripts[e]
  BY DEF TTypes
<1> QED BY <1>1, ScriptAssumption

\* An element about to start its fan has nobody inside it.
LEMMA FanUnborn ==
  ASSUME TTypes, NestOK, NEW e \in Elem, NextOp(e, "fan")
  PROVE  /\ \E g \in Groups : StartedBy[g] = e
         /\ \A x \in Elem : Enclosing[x] = e => st[x] = "unborn"
         /\ Enclosing[e] # e
<1>1. st[e] = "run" /\ ip[e] <= Len(script[e]) /\ script[e][ip[e]] = "fan"
  BY DEF NextOp
<1>2. ip[e] \in 1..Len(script[e]) /\ Len(script[e]) \in Nat
  BY <1>1, OneFan DEF TTypes
<1>3. FanAhead(e)
  BY <1>1, <1>2 DEF FanAhead
<1>4. \A x \in Elem : Enclosing[x] = e => st[x] = "unborn"
  BY <1>1, <1>3 DEF NestOK
<1> QED BY <1>1, <1>2, <1>4, OneFan

\* An element that joins has a fan to join.
LEMMA JoinHasFan ==
  ASSUME TTypes, NestOK, NEW e \in Elem, st[e] = "join"
  PROVE  \E g \in Groups : StartedBy[g] = e
<1>1. ip[e] \in 1..Len(script[e]) /\ script[e][ip[e]] = "fan"
  BY OneFan DEF NestOK, TTypes
<1> QED BY <1>1, OneFan

\* What any step of element e does to the threads.
LEMMA StepShape ==
  ASSUME TTypes, NestOK, NEW e \in Elem, ElemStep(e)
  PROVE  /\ script' = script /\ st' \in [Elem -> Sts]
         /\ st[e] \notin {"unborn", "done", "asleep", "parked"} /\ st'[e] # "unborn"
         /\ \A x \in Elem \ {e} :
              \/ st'[x] = st[x]
              \/ st[x] = "asleep" /\ st'[x] = "recheck"
              \/ st'[e] = "join" /\ Enclosing[x] = e /\ st[x] = "unborn" /\ st'[x] = "run"
         /\ st'[e] = "join" => st[e] = "run" /\ NextOp(e, "fan") /\ ip' = ip
         /\ st[e] = "join" => /\ \A x \in Elem : Enclosing[x] = e => st[x] = "done"
                              /\ ip'[e] = ip[e] + 1
         /\ ip'[e] \in {ip[e], ip[e] + 1} /\ ip'[e] <= Len(script[e]) + 1
         /\ \A x \in Elem \ {e} : ip'[x] = ip[x]
         /\ ip' \in [Elem -> Nat]
<1>1. /\ st \in [Elem -> Sts] /\ ip \in [Elem -> Nat] /\ Len(script[e]) \in Nat
      /\ ip[e] \in Nat /\ ip[e] <= Len(script[e]) + 1
  BY OneFan DEF TTypes
<1> USE DEF Becomes, NextOp, Sts
<1>2. CASE Write(e)
  BY <1>1, <1>2 DEF Write
<1>3. CASE RouteBuffer(e) \/ RouteReal(e)
  BY <1>1, <1>3 DEF RouteBuffer, RouteReal, Routed, Routing
<1>4. CASE RouteUp(e)
  BY <1>1, <1>4 DEF RouteUp, Routing
<1>5. CASE StartFan(e)
  <2>1. NextOp(e, "fan") /\ ip' = ip /\ script' = script
        /\ st' = [x \in Elem |-> IF x = e THEN "join"
                                 ELSE IF GroupOf[x] = ChildOf(e) THEN "run" ELSE st[x]]
    BY <1>5 DEF StartFan
  <2>2. /\ \E g \in Groups : StartedBy[g] = e
        /\ \A x \in Elem : Enclosing[x] = e => st[x] = "unborn"
    BY <2>1, FanUnborn
  <2>3. \A x \in Elem : GroupOf[x] = ChildOf(e) <=> Enclosing[x] = e
    BY <2>2, Children
  <2> QED BY <1>1, <2>1, <2>2, <2>3
<1>6. CASE JoinFan(e)
  <2>1. \E g \in Groups : StartedBy[g] = e
    BY <1>6, JoinHasFan DEF JoinFan
  <2>2. \A x \in Elem : Enclosing[x] = e => st[x] = "done"
    BY <1>6, <2>1, Children DEF JoinFan
  <2>3. ip[e] <= Len(script[e])
    BY <1>6 DEF JoinFan, NestOK
  <2> QED BY <1>1, <1>6, <2>2, <2>3 DEF JoinFan
<1>7. CASE Finish(e) \/ MarkDone(e) \/ DrainHead(e) \/ Advance(e)
  BY <1>1, <1>7 DEF Finish, MarkDone, DrainHead, Advance
<1>8. CASE Unlock(e)
  BY <1>1, <1>8 DEF Unlock, Notified
<1>9. CASE Trap(e) \/ TrapRecheck(e) \/ Abort(e) \/ Exit(e)
  BY <1>1, <1>9 DEF Trap, TrapRecheck, Abort, Exit
<1>10. CASE TrapLevel(e)
  BY <1>1, <1>10 DEF TrapLevel, Notified
<1> QED
  BY <1>2, <1>3, <1>4, <1>5, <1>6, <1>7, <1>8, <1>9, <1>10 DEF ElemStep

\* The nesting is kept: who runs is inside a fan that is being joined.
LEMMA NestKept ==
  ASSUME TTypes, NestOK, NEW e \in Elem, ElemStep(e)
  PROVE  NestOK'
<1>1. /\ script' = script /\ st' \in [Elem -> Sts]
      /\ st[e] \notin {"unborn", "done", "asleep", "parked"} /\ st'[e] # "unborn"
      /\ \A x \in Elem \ {e} :
           \/ st'[x] = st[x]
           \/ st[x] = "asleep" /\ st'[x] = "recheck"
           \/ st'[e] = "join" /\ Enclosing[x] = e /\ st[x] = "unborn" /\ st'[x] = "run"
      /\ st'[e] = "join" => st[e] = "run" /\ NextOp(e, "fan") /\ ip' = ip
      /\ st[e] = "join" => /\ \A x \in Elem : Enclosing[x] = e => st[x] = "done"
                           /\ ip'[e] = ip[e] + 1
      /\ ip'[e] \in {ip[e], ip[e] + 1}
      /\ \A x \in Elem \ {e} : ip'[x] = ip[x]
  BY StepShape
<1>2. ASSUME NEW x \in Elem, st'[x] = "join"
      PROVE  ip'[x] <= Len(script'[x]) /\ script'[x][ip'[x]] = "fan"
  <2>1. CASE x = e
    BY <1>1, <1>2, <2>1 DEF NextOp
  <2>2. CASE x # e
    <3>1. st[x] = "join" /\ ip'[x] = ip[x]
      BY <1>1, <1>2, <2>2
    <3> QED BY <1>1, <3>1 DEF NestOK
  <2> QED BY <2>1, <2>2
\* A join goes on while somebody below it lives.
<1>3. ASSUME NEW x \in Elem, st[x] \notin {"unborn", "done"}, Enclosing[x] # Top
      PROVE  st'[Enclosing[x]] = "join"
  <2>1. Enclosing[x] \in Elem /\ st[Enclosing[x]] = "join"
    BY <1>3, Places DEF NestOK
  <2>2. Enclosing[x] # e
    BY <1>1, <1>3, <2>1
  <2> QED BY <1>1, <2>1, <2>2
<1>4. ASSUME NEW x \in Elem, st'[x] \notin {"unborn", "done"}
      PROVE  Enclosing[x] = Top \/ st'[Enclosing[x]] = "join"
  <2>1. CASE st[x] \notin {"unborn", "done"}
    BY <1>3, <2>1
  <2>2. CASE st[x] \in {"unborn", "done"}
    BY <1>1, <1>4, <2>2
  <2> QED BY <2>1, <2>2
<1>5. ASSUME NEW p \in Elem, NEW x \in Elem, st'[p] # "join", FanAhead(p)', Enclosing[x] = p
      PROVE  st'[x] = "unborn"
  <2>1. PICK k \in ip'[p]..Len(script[p]) : script[p][k] = "fan"
    BY <1>1, <1>5 DEF FanAhead
  <2>2. /\ ip[p] \in Nat /\ Len(script[p]) \in Nat /\ ip[p] >= 1 /\ ip'[p] \in {ip[p], ip[p] + 1}
    <3>1. ip[p] \in Nat /\ Len(script[p]) \in Nat /\ ip[p] >= 1
      BY OneFan DEF TTypes
    <3>2. ip'[p] \in {ip[p], ip[p] + 1}
      BY <1>1
    <3> QED BY <3>1, <3>2
  <2>3. k \in ip[p]..Len(script[p]) /\ k \in 1..Len(script[p])
    BY <2>2
  <2>4. st[p] # "join"
    <3>1. ASSUME st[p] = "join" PROVE FALSE
      <4>1. p = e
        BY <1>1, <1>5, <3>1
      <4>2. ip'[p] = ip[p] + 1 /\ ip[p] <= Len(script[p]) /\ script[p][ip[p]] = "fan"
        BY <1>1, <3>1, <4>1 DEF NestOK
      <4>3. ip[p] \in 1..Len(script[p]) /\ k # ip[p]
        BY <2>2, <4>2
      <4> QED BY <2>1, <2>3, <4>2, <4>3, OneFan
    <3> QED BY <3>1
  <2>5. st[x] = "unborn"
    <3>1. FanAhead(p)
      BY <2>1, <2>3 DEF FanAhead
    <3> QED BY <1>5, <2>4, <3>1 DEF NestOK
  <2> QED BY <1>1, <1>5, <2>5
<1> QED BY <1>2, <1>4, <1>5 DEF NestOK

\* The types are kept, and the head of a fan never goes back.
LEMMA TypesKept ==
  ASSUME TTypes, NestOK, WaitOK, NEW e \in Elem, ElemStep(e)
  PROVE  TTypes' /\ \A g \in Groups : head'[g] >= head[g]
<1>1. /\ script' = script /\ st' \in [Elem -> Sts] /\ ip' \in [Elem -> Nat]
      /\ ip'[e] \in {ip[e], ip[e] + 1} /\ ip'[e] <= Len(script[e]) + 1
      /\ \A x \in Elem \ {e} : ip'[x] = ip[x]
  BY StepShape
<1>2. \A x \in Elem : ip'[x] \in 1..(Len(script[x]) + 1)
  <2>1. \A x \in Elem : Len(script[x]) \in Nat /\ ip[x] \in 1..(Len(script[x]) + 1) /\ ip'[x] \in Nat
    BY <1>1, OneFan DEF TTypes
  <2> QED BY <1>1, <2>1
<1>3. /\ at \in [Elem -> Elem \cup {Top}] /\ head \in [Groups -> Nat]
      /\ done \in [Groups -> SUBSET Nat] /\ trapped \in [Groups -> SUBSET Nat]
      /\ lock \in [Groups -> Elem \cup {Top}] /\ st \in [Elem -> Sts]
      /\ GroupOf[e] \in Groups /\ IndexOf[e] \in 1..Len(Fans[GroupOf[e]])
      /\ Enclosing[e] \in Elem \cup {Top}
  BY Places DEF TTypes
<1>4. at' \in [Elem -> Elem \cup {Top}]
  <2>1. at[e] # Top => Enclosing[at[e]] \in Elem \cup {Top}
    BY <1>3, Places
  <2>2. CASE Routed(e)
    BY <1>3, <2>2 DEF Routed, FirstSink
  <2>3. CASE Write(e) \/ Trap(e)
    BY <1>3, <2>3 DEF Write, Trap
  <2>4. CASE RouteUp(e)
    BY <1>3, <2>1, <2>4 DEF RouteUp
  <2>5. CASE DrainHead(e)
    BY <1>3, <2>5 DEF DrainHead
  <2>6. CASE TrapLevel(e)
    <3>1. /\ at' \in {at, [at EXCEPT ![e] = Enclosing[at[e]]]} /\ at[e] # Top
      BY <1>3, <2>6 DEF TrapLevel
    <3> QED BY <1>3, <2>1, <3>1
  <2>7. CASE TrapRecheck(e)
    <3>1. at' \in {at, [at EXCEPT ![e] = Enclosing[at[e]]]}
      BY <1>3, <2>7 DEF TrapRecheck
    <3>2. at[e] # Top
      BY <2>7 DEF TrapRecheck, WaitOK
    <3> QED BY <1>3, <2>1, <3>1, <3>2
  <2>8. CASE at' = at
    BY <1>3, <2>8
  <2> QED
    BY <2>2, <2>3, <2>4, <2>5, <2>6, <2>7, <2>8
       DEF ElemStep, RouteBuffer, RouteReal, StartFan, JoinFan, Finish, MarkDone, Advance,
           Unlock, Abort, Exit
<1>5. status' \in {"running", "returned", "exited"}
  BY DEF TTypes, ElemStep, Write, RouteBuffer, RouteUp, RouteReal, StartFan, JoinFan,
     Finish, MarkDone, DrainHead, Advance, Unlock, Trap, TrapLevel, TrapRecheck, Abort, Exit
<1>6. script' \in [Elem -> Seq(Ops)] /\ \A x \in Elem : script'[x] \in Scripts[x]
  BY <1>1 DEF TTypes
<1>7. CASE MarkDone(e)
  <2>1. /\ head' = head /\ trapped' = trapped
        /\ lock' = [lock EXCEPT ![GroupOf[e]] = e]
        /\ done' = [done EXCEPT ![GroupOf[e]] = @ \cup {IndexOf[e]}]
    BY <1>7 DEF MarkDone
  <2>2. lock' \in [Groups -> Elem \cup {Top}]
    BY <1>3, <2>1
  <2>3. done' \in [Groups -> SUBSET Nat] /\ \A g \in Groups : done'[g] \subseteq 1..Len(Fans[g])
    BY <1>3, <2>1 DEF TTypes
  <2>4. /\ head' \in [Groups -> Nat] /\ trapped' \in [Groups -> SUBSET Nat]
        /\ \A g \in Groups : /\ head'[g] \in 1..(Len(Fans[g]) + 1) /\ head'[g] >= head[g]
                             /\ trapped'[g] \subseteq 1..Len(Fans[g])
    BY <1>3, <2>1 DEF TTypes
  <2> QED BY <1>1, <1>2, <1>4, <1>5, <1>6, <2>2, <2>3, <2>4 DEF TTypes
<1>8. CASE Advance(e)
  <2>1. /\ done' = done /\ trapped' = trapped /\ lock' = lock
        /\ head' = [head EXCEPT ![GroupOf[e]] = @ + 1] /\ head[GroupOf[e]] \in done[GroupOf[e]]
    BY <1>8 DEF Advance
  <2>2. head[GroupOf[e]] \in 1..Len(Fans[GroupOf[e]])
    BY <1>3, <2>1 DEF TTypes
  <2>3. /\ head' \in [Groups -> Nat]
        /\ \A g \in Groups : head'[g] \in 1..(Len(Fans[g]) + 1) /\ head'[g] >= head[g]
    <3>1. /\ head'[GroupOf[e]] = head[GroupOf[e]] + 1 /\ head' \in [Groups -> Nat]
          /\ \A g \in Groups \ {GroupOf[e]} : head'[g] = head[g]
      BY <1>3, <2>1
    <3>2. \A g \in Groups : head[g] \in Nat /\ head[g] \in 1..(Len(Fans[g]) + 1) /\ Len(Fans[g]) \in Nat
      BY <1>3, Places DEF TTypes
    <3>3. ASSUME NEW g \in Groups PROVE head'[g] \in 1..(Len(Fans[g]) + 1) /\ head'[g] >= head[g]
      <4>1. CASE g = GroupOf[e]
        <5>1. head'[g] = head[g] + 1 /\ head[g] \in 1..Len(Fans[g]) /\ Len(Fans[g]) \in Nat
          BY <2>2, <3>1, <3>2, <4>1
        <5> QED BY <5>1
      <4>2. CASE g # GroupOf[e]
        <5>1. head'[g] = head[g] /\ head[g] \in Nat /\ head[g] \in 1..(Len(Fans[g]) + 1)
          BY <3>1, <3>2, <4>2
        <5> QED BY <5>1
      <4> QED BY <4>1, <4>2
    <3> QED BY <3>1, <3>3
  <2>4. /\ lock' \in [Groups -> Elem \cup {Top}]
        /\ done' \in [Groups -> SUBSET Nat] /\ trapped' \in [Groups -> SUBSET Nat]
        /\ \A g \in Groups : done'[g] \subseteq 1..Len(Fans[g]) /\ trapped'[g] \subseteq 1..Len(Fans[g])
    BY <1>3, <2>1 DEF TTypes
  <2> QED BY <1>1, <1>2, <1>4, <1>5, <1>6, <2>3, <2>4 DEF TTypes
<1>9. CASE Unlock(e)
  <2>1. /\ done' = done /\ trapped' = trapped /\ head' = head
        /\ lock' = [lock EXCEPT ![GroupOf[e]] = Top]
    BY <1>9 DEF Unlock
  <2>2. lock' \in [Groups -> Elem \cup {Top}]
    BY <1>3, <2>1
  <2> QED BY <1>1, <1>2, <1>3, <1>4, <1>5, <2>1, <2>2 DEF TTypes
<1>10. CASE TrapLevel(e)
  <2> DEFINE g == GroupOf[at[e]]
  <2>1. /\ done' = done /\ head' = head /\ lock' = lock /\ at[e] # Top
        /\ trapped' = [trapped EXCEPT ![g] = trapped[g] \cup {IndexOf[at[e]]}]
    BY <1>10 DEF TrapLevel
  <2>2. g \in Groups /\ IndexOf[at[e]] \in 1..Len(Fans[g])
    BY <1>3, <2>1, Places
  <2> HIDE DEF g
  <2>3. /\ trapped' \in [Groups -> SUBSET Nat]
        /\ \A h \in Groups : trapped'[h] \subseteq 1..Len(Fans[h])
    <3>1. /\ trapped'[g] = trapped[g] \cup {IndexOf[at[e]]} /\ DOMAIN trapped' = Groups
          /\ \A h \in Groups \ {g} : trapped'[h] = trapped[h]
      BY <1>3, <2>1, <2>2
    <3>2. \A h \in Groups : trapped[h] \subseteq 1..Len(Fans[h])
      BY DEF TTypes
    <3>3. \A h \in Groups : trapped'[h] \subseteq 1..Len(Fans[h])
      BY <2>2, <3>1, <3>2
    <3>4. trapped' \in [Groups -> SUBSET Nat]
      BY <1>3, <2>1, <2>2
    <3> QED BY <3>3, <3>4
  <2>4. \A h \in Groups : head'[h] \in 1..(Len(Fans[h]) + 1) /\ head'[h] >= head[h]
    BY <1>3, <2>1 DEF TTypes
  <2>5. /\ head' \in [Groups -> Nat] /\ lock' \in [Groups -> Elem \cup {Top}]
        /\ done' \in [Groups -> SUBSET Nat] /\ \A h \in Groups : done'[h] \subseteq 1..Len(Fans[h])
    BY <1>3, <2>1 DEF TTypes
  <2> QED BY <1>1, <1>2, <1>4, <1>5, <1>6, <2>3, <2>4, <2>5 DEF TTypes
<1>11. CASE UNCHANGED <<head, done, trapped, lock>>
  <2>1. /\ head' \in [Groups -> Nat] /\ lock' \in [Groups -> Elem \cup {Top}]
        /\ done' \in [Groups -> SUBSET Nat] /\ trapped' \in [Groups -> SUBSET Nat]
    BY <1>3, <1>11
  <2>2. \A g \in Groups : /\ head'[g] \in 1..(Len(Fans[g]) + 1)
                          /\ done'[g] \subseteq 1..Len(Fans[g]) /\ trapped'[g] \subseteq 1..Len(Fans[g])
    BY <1>11 DEF TTypes
  <2>3. \A g \in Groups : head'[g] >= head[g]
    BY <1>3, <1>11
  <2> QED BY <1>1, <1>2, <1>4, <1>5, <1>6, <2>1, <2>2, <2>3 DEF TTypes
<1>12. MarkDone(e) \/ Advance(e) \/ Unlock(e) \/ TrapLevel(e) \/ UNCHANGED <<head, done, trapped, lock>>
  BY DEF ElemStep, Write, RouteBuffer, RouteUp, RouteReal, StartFan, JoinFan,
     Finish, MarkDone, DrainHead, Advance, Unlock, Trap, TrapLevel, TrapRecheck, Abort, Exit, groupVars
<1> QED BY <1>7, <1>8, <1>9, <1>10, <1>11, <1>12

\* What e's step does to its place in its fan: the thread that drains has the
\* lock, and what is marked done stays past its last write.
LEMMA DrainKept ==
  ASSUME TTypes, NestOK, DrainOK, NEW e \in Elem, ElemStep(e)
  PROVE  DrainOK'
<1>1. /\ st[e] \notin {"unborn", "done", "asleep", "parked"}
      /\ \A x \in Elem \ {e} :
           \/ st'[x] = st[x]
           \/ st[x] = "asleep" /\ st'[x] = "recheck"
           \/ st[x] = "unborn" /\ st'[x] = "run"
  BY StepShape
<1>2. /\ head \in [Groups -> Nat] /\ done \in [Groups -> SUBSET Nat]
      /\ lock \in [Groups -> Elem \cup {Top}] /\ st \in [Elem -> Sts]
      /\ GroupOf[e] \in Groups /\ IndexOf[e] \in 1..Len(Fans[GroupOf[e]])
      /\ Fans[GroupOf[e]][IndexOf[e]] = e /\ Top \notin Elem
  BY Places, TreeAssumption DEF TTypes
<1>3. \A g \in Groups : done[g] \subseteq 1..Len(Fans[g]) /\ \A i \in done[g] : Fans[g][i] \in Elem
  BY Places DEF TTypes
<1> USE DEF Becomes
<1>4. CASE MarkDone(e)
  <2>1. /\ head' = head /\ lock[GroupOf[e]] = Top /\ st[e] = "finish" /\ st'[e] = "drain"
        /\ \A x \in Elem \ {e} : st'[x] = st[x]
        /\ lock'[GroupOf[e]] = e /\ \A g \in Groups \ {GroupOf[e]} : lock'[g] = lock[g]
        /\ done'[GroupOf[e]] = done[GroupOf[e]] \cup {IndexOf[e]}
        /\ \A g \in Groups \ {GroupOf[e]} : done'[g] = done[g]
    BY <1>2, <1>4 DEF MarkDone
  <2>2. ASSUME NEW x \in Elem, st'[x] \in {"drain", "advance"} PROVE lock'[GroupOf[x]] = x
    <3>1. CASE x = e
      BY <2>1, <3>1
    <3>2. CASE x # e
      <4>1. lock[GroupOf[x]] = x /\ x # Top /\ GroupOf[x] \in Groups
        BY <1>2, <2>1, <2>2, <3>2, Places DEF DrainOK
      <4> QED BY <2>1, <4>1
    <3> QED BY <3>1, <3>2
  <2>3. \A g \in Groups : \A i \in 1..Len(Fans[g]) : i < head'[g] => i \in done'[g]
    BY <2>1 DEF DrainOK
  <2>4. ASSUME NEW g \in Groups, NEW i \in done'[g]
        PROVE  st'[Fans[g][i]] \in {"drain", "advance", "done"}
    <3>1. i \in done[g] \/ (g = GroupOf[e] /\ i = IndexOf[e])
      BY <2>1
    <3>2. CASE i \in done[g]
      BY <1>3, <2>1, <3>2 DEF DrainOK
    <3>3. CASE g = GroupOf[e] /\ i = IndexOf[e]
      BY <1>2, <2>1, <3>3
    <3> QED BY <3>1, <3>2, <3>3
  <2> QED BY <2>2, <2>3, <2>4 DEF DrainOK
<1>5. CASE Advance(e)
  <2> DEFINE g0 == GroupOf[e]
  <2>1. /\ done' = done /\ lock' = lock /\ st[e] = "advance" /\ st'[e] = "drain"
        /\ \A x \in Elem \ {e} : st'[x] = st[x]
        /\ head'[g0] = head[g0] + 1 /\ head[g0] \in done[g0]
        /\ \A g \in Groups \ {g0} : head'[g] = head[g]
    BY <1>2, <1>5 DEF Advance
  <2>2. \A x \in Elem : st'[x] \in {"drain", "advance"} => lock'[GroupOf[x]] = x
    BY <2>1 DEF DrainOK
  <2>3. ASSUME NEW g \in Groups, NEW i \in 1..Len(Fans[g]), i < head'[g] PROVE i \in done[g]
    <3>1. head[g] \in Nat /\ Len(Fans[g]) \in Nat
      BY <1>2, Places
    <3>2. i < head[g] \/ (g = g0 /\ i = head[g])
      <4>1. CASE g = g0
        BY <2>1, <2>3, <3>1, <4>1
      <4>2. CASE g # g0
        BY <2>1, <2>3, <4>2
      <4> QED BY <4>1, <4>2
    <3> QED BY <2>1, <3>2 DEF DrainOK
  <2>4. \A g \in Groups : \A i \in done[g] : st'[Fans[g][i]] \in {"drain", "advance", "done"}
    BY <1>3, <2>1 DEF DrainOK
  <2> QED BY <2>1, <2>2, <2>3, <2>4 DEF DrainOK
<1>6. CASE Unlock(e)
  <2>1. /\ done' = done /\ head' = head /\ st[e] \in {"drain", "advance"} /\ st'[e] = "done"
        /\ lock'[GroupOf[e]] = Top /\ \A g \in Groups \ {GroupOf[e]} : lock'[g] = lock[g]
    BY <1>2, <1>6 DEF Unlock
  <2>2. ASSUME NEW x \in Elem, st'[x] \in {"drain", "advance"} PROVE lock'[GroupOf[x]] = x
    <3>1. x # e /\ st[x] = st'[x]
      BY <1>1, <2>1, <2>2
    <3>2. lock[GroupOf[x]] = x /\ lock[GroupOf[e]] = e /\ GroupOf[x] \in Groups
      BY <2>1, <2>2, <3>1, Places DEF DrainOK
    <3> QED BY <2>1, <3>1, <3>2
  <2>3. \A g \in Groups : \A i \in done[g] : st'[Fans[g][i]] \in {"drain", "advance", "done"}
    <3>1. ASSUME NEW g \in Groups, NEW i \in done[g] PROVE st'[Fans[g][i]] \in {"drain", "advance", "done"}
      <4>1. Fans[g][i] \in Elem /\ st[Fans[g][i]] \in {"drain", "advance", "done"}
        BY <1>3 DEF DrainOK
      <4> QED BY <1>1, <2>1, <4>1
    <3> QED BY <3>1
  <2> QED BY <2>1, <2>2, <2>3 DEF DrainOK
<1>7. CASE UNCHANGED <<head, done, lock>>
           /\ (st[e] \in {"drain", "advance"} <=> st'[e] \in {"drain", "advance"})
           /\ st'[e] # "done"
  <2>1. ASSUME NEW x \in Elem
        PROVE  st[x] \in {"drain", "advance"} <=> st'[x] \in {"drain", "advance"}
    <3>1. CASE x = e
      BY <1>7, <3>1
    <3>2. CASE x # e
      BY <1>1, <3>2
    <3> QED BY <3>1, <3>2
  <2>2. ASSUME NEW x \in Elem, st[x] \in {"drain", "advance", "done"}
        PROVE  st'[x] \in {"drain", "advance", "done"}
    <3>1. CASE x = e
      BY <1>1, <1>7, <2>2, <3>1
    <3>2. CASE x # e
      BY <1>1, <2>2, <3>2
    <3> QED BY <3>1, <3>2
  <2> QED BY <1>3, <1>7, <2>1, <2>2 DEF DrainOK
<1>8. CASE Write(e) \/ RouteBuffer(e) \/ RouteUp(e) \/ RouteReal(e) \/ StartFan(e) \/ JoinFan(e)
  BY <1>2, <1>7, <1>8 DEF Write, RouteBuffer, RouteUp, RouteReal, Routed, Routing, StartFan, JoinFan,
     NextOp, groupVars
<1>9. CASE Finish(e) \/ DrainHead(e) \/ Trap(e) \/ TrapLevel(e) \/ TrapRecheck(e) \/ Abort(e) \/ Exit(e)
  BY <1>2, <1>7, <1>9 DEF Finish, DrainHead, Trap, TrapLevel, TrapRecheck, Abort, Exit, NextOp, groupVars
<1> QED BY <1>4, <1>5, <1>6, <1>8, <1>9 DEF ElemStep

\* What e's step does to the waits of trapped threads: other waits stay where
\* they are, its own starts at e, stays, or goes one level out in its turn.
LEMMA WaitStep ==
  ASSUME TTypes, NestOK, WaitOK, NEW e \in Elem, ElemStep(e)
  PROVE  /\ \A x \in Elem \ {e} : (Trapping(x)' => Trapping(x)) /\ at'[x] = at[x]
         /\ Trapping(e)' =>
              \/ at'[e] = e
              \/ Trapping(e) /\ at'[e] = at[e]
              \/ /\ Trapping(e) /\ at[e] # Top /\ at'[e] = Enclosing[at[e]]
                 /\ lock[GroupOf[at[e]]] = Top /\ head' = head
                 /\ Turn(at[e], trapped'[GroupOf[at[e]]])
         /\ st'[e] \in {"asleep", "recheck"} => at'[e] # Top
         /\ \/ trapped' = trapped
            \/ /\ st[e] = "trap" /\ at[e] # Top
               /\ trapped' = [trapped EXCEPT ![GroupOf[at[e]]] = @ \cup {IndexOf[at[e]]}]
<1>1. /\ st \in [Elem -> Sts] /\ at \in [Elem -> Elem \cup {Top}] /\ trapped \in [Groups -> SUBSET Nat]
      /\ e # Top
  BY TreeAssumption DEF TTypes
<1>2. \A x \in Elem \ {e} : Trapping(x)' => Trapping(x)
  BY StepShape DEF Trapping
<1> USE DEF Becomes, NextOp, Trapping
<1>3. CASE Trap(e)
  BY <1>1, <1>2, <1>3 DEF Trap, groupVars
<1>4. CASE TrapLevel(e)
  <2> DEFINE g == GroupOf[at[e]]
             tr == trapped[g] \cup {IndexOf[at[e]]}
  <2>1. /\ st[e] = "trap" /\ at[e] # Top /\ lock[g] = Top /\ head' = head
        /\ trapped' = [trapped EXCEPT ![g] = tr]
        /\ st'[e] = (IF Turn(at[e], tr) THEN "trap" ELSE "asleep")
        /\ at' = [at EXCEPT ![e] = IF Turn(@, tr) THEN Enclosing[@] ELSE @]
    BY <1>1, <1>4 DEF TrapLevel
  <2>2. g \in Groups
    BY <1>1, <2>1, Places
  <2>3. trapped'[g] = tr
    BY <1>1, <2>1, <2>2
  <2>4. /\ \A x \in Elem \ {e} : at'[x] = at[x]
        /\ at'[e] = IF Turn(at[e], tr) THEN Enclosing[at[e]] ELSE at[e]
    BY <1>1, <2>1
  <2> HIDE DEF tr
  <2>5. CASE Turn(at[e], tr)
    <3>1. at'[e] = Enclosing[at[e]] /\ st'[e] = "trap"
      BY <2>1, <2>4, <2>5
    <3> QED BY <1>2, <2>1, <2>3, <2>4, <2>5, <3>1 DEF tr
  <2>6. CASE ~Turn(at[e], tr)
    <3>1. at'[e] = at[e]
      BY <2>4, <2>6
    <3> QED BY <1>2, <2>1, <2>4, <3>1 DEF tr
  <2> QED BY <2>5, <2>6
<1>5. CASE TrapRecheck(e)
  <2> DEFINE g == GroupOf[at[e]]
  <2>1. /\ st[e] = "recheck" /\ lock[g] = Top /\ head' = head /\ trapped' = trapped /\ at[e] # Top
    BY <1>5 DEF TrapRecheck, groupVars, WaitOK
  <2>2. CASE Turn(at[e], trapped[g])
    <3>1. /\ st'[e] = "trap" /\ at'[e] = Enclosing[at[e]] /\ \A x \in Elem \ {e} : at'[x] = at[x]
      BY <1>1, <1>5, <2>2 DEF TrapRecheck
    <3> QED BY <1>2, <2>1, <2>2, <3>1
  <2>3. CASE ~Turn(at[e], trapped[g])
    <3>1. at' = at
      BY <1>5, <2>3 DEF TrapRecheck
    <3> QED BY <1>2, <2>1, <3>1
  <2> QED BY <2>2, <2>3
<1>6. CASE Abort(e) \/ Exit(e)
  <2>1. at' = at /\ trapped' = trapped /\ Trapping(e) /\ st'[e] \notin {"asleep", "recheck"}
    BY <1>1, <1>6 DEF Abort, Exit, groupVars
  <2> QED BY <1>2, <2>1
<1>7. CASE trapped' = trapped /\ st'[e] \notin {"trap", "asleep", "recheck", "exit", "parked"}
           /\ \A x \in Elem \ {e} : at'[x] = at[x]
  BY <1>2, <1>7
<1>8. CASE Write(e) \/ RouteUp(e)
  BY <1>1, <1>7, <1>8 DEF Write, RouteUp, Routing, groupVars
<1>9. CASE RouteBuffer(e) \/ RouteReal(e)
  <2>1. trapped' = trapped /\ Routed(e) /\ Routing(e)
    BY <1>9 DEF RouteBuffer, RouteReal, groupVars
  <2> QED BY <1>1, <1>7, <2>1 DEF Routed, Routing
<1>10. CASE StartFan(e) \/ JoinFan(e)
  BY <1>1, <1>7, <1>10 DEF StartFan, JoinFan, groupVars
<1>11. CASE Finish(e) \/ MarkDone(e) \/ DrainHead(e)
  BY <1>1, <1>7, <1>11 DEF Finish, MarkDone, DrainHead, groupVars
<1>12. CASE Advance(e) \/ Unlock(e)
  BY <1>1, <1>7, <1>12 DEF Advance, Unlock
<1> QED
  BY <1>3, <1>4, <1>5, <1>6, <1>8, <1>9, <1>10, <1>11, <1>12 DEF ElemStep

\* A trap goes on waiting at a sink around its element.
LEMMA WaitKept ==
  ASSUME TTypes, NestOK, WaitOK, NEW e \in Elem, ElemStep(e)
  PROVE  WaitOK'
<1>1. /\ \A x \in Elem \ {e} : (Trapping(x)' => Trapping(x)) /\ at'[x] = at[x]
      /\ Trapping(e)' =>
           \/ at'[e] = e
           \/ Trapping(e) /\ at'[e] = at[e]
           \/ Trapping(e) /\ at[e] # Top /\ at'[e] = Enclosing[at[e]]
      /\ st'[e] \in {"asleep", "recheck"} => at'[e] # Top
  BY WaitStep
<1>2. \A x \in Elem \ {e} : st'[x] \in {"asleep", "recheck"} => st[x] \in {"asleep", "recheck"}
  BY StepShape
<1>3. ASSUME Trapping(e)' PROVE at'[e] \in Outwards[e] \cup {Top}
  <2>1. CASE at'[e] = e
    BY <2>1, OutwardsIs
  <2>2. CASE Trapping(e) /\ at'[e] = at[e]
    BY <2>2 DEF WaitOK
  <2>3. CASE Trapping(e) /\ at[e] # Top /\ at'[e] = Enclosing[at[e]]
    <3>1. at[e] \in Outwards[e]
      BY <2>3 DEF WaitOK
    <3>2. Closed(Outwards[e])
      BY OutwardsIs
    <3> QED BY <2>3, <3>1, <3>2 DEF Closed
  <2> QED BY <1>1, <1>3, <2>1, <2>2, <2>3
<1>4. \A x \in Elem \ {e} : Trapping(x)' => at'[x] \in Outwards[x] \cup {Top}
  BY <1>1 DEF WaitOK
<1>5. \A x \in Elem \ {e} : st'[x] \in {"asleep", "recheck"} => at'[x] # Top
  BY <1>1, <1>2 DEF WaitOK
<1> QED BY <1>1, <1>3, <1>4, <1>5 DEF WaitOK

\* Every sink around a thread that runs, but its own, belongs to a thread that
\* joins the fan inside it.
LEMMA AroundJoins ==
  ASSUME TTypes, NestOK, NEW e \in Elem, st[e] \notin {"unborn", "done"},
         NEW s \in Outwards[e], s # e
  PROVE  s \in Elem /\ st[s] = "join"
<1> DEFINE S == {e} \cup {x \in Elem : st[x] = "join"}
<1>1. ASSUME NEW x \in S, Enclosing[x] # Top PROVE Enclosing[x] \in S
  <2>1. x \in Elem /\ st[x] \notin {"unborn", "done"}
    OBVIOUS
  <2>2. Enclosing[x] \in Elem /\ st[Enclosing[x]] = "join"
    BY <1>1, <2>1, Places DEF NestOK
  <2> QED BY <2>2
<1>2. Closed(S) /\ e \in S
  BY <1>1 DEF Closed
<1>3. Outwards[e] \subseteq S
  <2> HIDE DEF S
  <2> QED BY <1>2, OutwardsIs
<1> QED BY <1>3

\* Sink s is first in its fan: what a wait that has passed it relies on.
First(s) ==
  /\ head[GroupOf[s]] >= IndexOf[s]
  /\ \A i \in trapped[GroupOf[s]] : i >= IndexOf[s]
  /\ \A i \in 1..(IndexOf[s] - 1) : st[Fans[GroupOf[s]][i]] = "done"

\* A sink that is first stays first: the head does not go back, an element
\* that is done does nothing more, and so it is nobody's sink to trap at.
LEMMA FirstStays ==
  ASSUME TTypes, NestOK, WaitOK, NEW e \in Elem, ElemStep(e), NEW s \in Elem, First(s)
  PROVE  First(s)'
<1> DEFINE g == GroupOf[s]
<1>1. /\ g \in Groups /\ IndexOf[s] \in 1..Len(Fans[g]) /\ Len(Fans[g]) \in Nat
      /\ head[g] \in Nat /\ head'[g] \in Nat /\ head'[g] >= head[g]
      /\ trapped[g] \subseteq Nat
  <2>1. g \in Groups /\ IndexOf[s] \in 1..Len(Fans[g]) /\ Len(Fans[g]) \in Nat
    BY Places
  <2>2. TTypes' /\ head'[g] >= head[g]
    BY <2>1, TypesKept
  <2>3. head[g] \in Nat /\ trapped[g] \subseteq Nat
    BY <2>1 DEF TTypes
  <2>4. head'[g] \in Nat
    BY <2>1, <2>2 DEF TTypes
  <2> QED BY <2>1, <2>2, <2>3, <2>4
<1>2. ASSUME NEW i \in 1..(IndexOf[s] - 1)
      PROVE  st[Fans[g][i]] = "done" /\ st'[Fans[g][i]] = "done"
  <2>1. i \in 1..Len(Fans[g]) /\ st[Fans[g][i]] = "done"
    BY <1>1 DEF First
  <2>2. Fans[g][i] \in Elem
    BY <1>1, <2>1, Places
  <2> QED BY <2>1, <2>2, StepShape
<1>3. ASSUME NEW i \in trapped'[g] PROVE i >= IndexOf[s]
  <2>1. CASE i \in trapped[g]
    BY <2>1 DEF First
  <2>2. CASE i \notin trapped[g]
    <3>1. /\ st[e] = "trap" /\ at[e] # Top
          /\ trapped' = [trapped EXCEPT ![GroupOf[at[e]]] = @ \cup {IndexOf[at[e]]}]
      BY <1>3, <2>2, WaitStep
    <3>2. trapped \in [Groups -> SUBSET Nat] /\ at[e] \in Elem
      BY <3>1 DEF TTypes
    <3>3. g = GroupOf[at[e]] /\ i = IndexOf[at[e]]
      BY <1>1, <1>3, <2>2, <3>1, <3>2
    <3>4. i \in 1..Len(Fans[g]) /\ Fans[g][i] = at[e]
      BY <3>2, <3>3, Places
    <3>5. at[e] \in Outwards[e]
      BY <3>1 DEF WaitOK, Trapping
    <3>6. st[at[e]] # "done"
      BY <3>1, <3>5, AroundJoins
    <3>7. i \notin 1..(IndexOf[s] - 1)
      BY <1>2, <3>4, <3>6
    <3> QED BY <1>1, <3>4, <3>7
  <2> QED BY <2>1, <2>2
<1> QED BY <1>1, <1>2, <1>3 DEF First

\* Every sink that a wait has passed is first, and stays first.
LEMMA FirstKept ==
  ASSUME TTypes, NestOK, DrainOK, WaitOK, FirstOK, NEW e \in Elem, ElemStep(e)
  PROVE  FirstOK'
<1>1. ASSUME NEW x \in Elem, Trapping(x), NEW s \in Passed(x) PROVE First(s)
  BY <1>1 DEF FirstOK, First, Turn
<1>2. \A x \in Elem : Outwards[x] \subseteq Elem
  BY OutwardsIs DEF Closed
<1>3. ASSUME NEW x \in Elem, Trapping(x)', NEW s \in Passed(x)' PROVE s \in Elem /\ First(s)'
  <2>1. s \in Outwards[x] /\ s \in Elem /\ (at'[x] # Top => s \notin Outwards[at'[x]])
    BY <1>2, <1>3 DEF Passed
  <2>2. CASE Trapping(x) /\ s \in Passed(x)
    BY <1>1, <2>1, <2>2, FirstStays
  <2>3. CASE ~(Trapping(x) /\ s \in Passed(x))
    <3>1. x = e
      BY <1>3, <2>3, WaitStep DEF Passed
    <3>2. at'[e] # e
      BY <2>1, <3>1, TreeAssumption
    <3>3. ~(Trapping(e) /\ at'[e] = at[e])
      BY <1>3, <2>3, <3>1 DEF Passed
    <3>4. /\ Trapping(e) /\ at[e] # Top /\ at'[e] = Enclosing[at[e]]
          /\ lock[GroupOf[at[e]]] = Top /\ head' = head
          /\ Turn(at[e], trapped'[GroupOf[at[e]]])
      BY <1>3, <3>1, <3>2, <3>3, WaitStep
    <3>5. at[e] \in Elem /\ s \in Outwards[at[e]]
      BY <2>1, <2>3, <3>1, <3>4 DEF Passed, TTypes
    <3>6. s = at[e]
      BY <2>1, <3>1, <3>4, <3>5, OutwardsIs
    <3> DEFINE g == GroupOf[s]
    <3>7. /\ g \in Groups /\ IndexOf[s] \in 1..Len(Fans[g]) /\ Len(Fans[g]) \in Nat
          /\ head[g] \in Nat /\ head[g] >= IndexOf[s] /\ lock[g] = Top
          /\ \A i \in trapped'[g] : i >= IndexOf[s]
      BY <3>4, <3>5, <3>6, Places DEF TTypes, Turn
    <3>8. ASSUME NEW i \in 1..(IndexOf[s] - 1) PROVE st'[Fans[g][i]] = "done"
      <4>1. i \in 1..Len(Fans[g]) /\ i < head[g]
        BY <3>7
      <4>2. /\ Fans[g][i] \in Elem /\ GroupOf[Fans[g][i]] = g /\ Fans[g][i] # Top
        BY <3>7, <4>1, Places, TreeAssumption
      <4>3. st[Fans[g][i]] \in {"drain", "advance", "done"}
        BY <3>7, <4>1 DEF DrainOK
      <4>4. st[Fans[g][i]] = "done"
        BY <3>7, <4>2, <4>3 DEF DrainOK
      <4> QED BY <4>2, <4>4, StepShape
    <3> QED BY <2>1, <3>4, <3>7, <3>8 DEF First
  <2> QED BY <2>2, <2>3
<1> QED BY <1>3 DEF FirstOK, First, Turn
-----------------------------------------------------------------------------
(* The timelines: the theorems *)

\* The timelines start in the invariant.
LEMMA TimelineInit ==
  ASSUME TInit
  PROVE  TimelineInv
<1>1. \A e \in Elem : GroupOf[e] \in Groups /\ Enclosing[e] \in Elem \cup {Top} /\ e # Top
  BY Places, TreeAssumption
<1>2. \A g \in Groups : Len(Fans[g]) \in Nat
  BY Places
<1>3. /\ script \in [Elem -> Seq(Ops)] /\ \A e \in Elem : script[e] \in Scripts[e]
  BY ScriptAssumption DEF TInit, SInit, Ops
<1>4. \A e \in Elem : Len(script[e]) \in Nat
  BY <1>3
<1>5. TTypes
  <2>1. st \in [Elem -> Sts] /\ ip \in [Elem -> Nat] /\ at \in [Elem -> Elem \cup {Top}]
    BY DEF TInit, Sts
  <2>2. \A e \in Elem : ip[e] \in 1..(Len(script[e]) + 1)
    BY <1>4 DEF TInit
  <2>3. /\ head \in [Groups -> Nat] /\ lock \in [Groups -> Elem \cup {Top}]
        /\ done \in [Groups -> SUBSET Nat] /\ trapped \in [Groups -> SUBSET Nat]
    BY DEF TInit
  <2>4. \A g \in Groups : /\ head[g] \in 1..(Len(Fans[g]) + 1)
                          /\ done[g] \subseteq 1..Len(Fans[g]) /\ trapped[g] \subseteq 1..Len(Fans[g])
    BY <1>2 DEF TInit
  <2>5. status \in {"running", "returned", "exited"}
    BY DEF TInit, SInit
  <2> QED BY <1>3, <2>1, <2>2, <2>3, <2>4, <2>5 DEF TTypes
<1>6. DrainOK
  BY <1>2 DEF TInit, DrainOK
<1>7. NestOK
  <2>1. \A e \in Elem : st[e] \in {"run", "unborn"} /\ (st[e] = "run" <=> GroupOf[e] = RootFan)
    BY DEF TInit
  <2>2. \A e \in Elem : GroupOf[e] = RootFan <=> Enclosing[e] = Top
    BY Places, TreeAssumption
  <2> QED BY <1>1, <2>1, <2>2 DEF NestOK
<1>8. WaitOK /\ FirstOK
  BY DEF TInit, WaitOK, FirstOK, Trapping
<1> QED BY <1>5, <1>6, <1>7, <1>8 DEF TimelineInv

\* Nothing of it is about what the process prints, so its end keeps it.
LEMMA TimelineStep ==
  ASSUME TimelineInv, [TNext]_tvars
  PROVE  TimelineInv'
<1>1. CASE \E e \in Elem : ElemStep(e)
  <2>1. PICK e \in Elem : ElemStep(e)
    BY <1>1
  <2>2. TTypes /\ DrainOK /\ NestOK /\ WaitOK /\ FirstOK
    BY DEF TimelineInv
  <2>3. TTypes'
    BY <2>1, <2>2, TypesKept
  <2>4. NestOK' /\ WaitOK'
    BY <2>1, <2>2, NestKept, WaitKept
  <2>5. DrainOK' /\ FirstOK'
    BY <2>1, <2>2, DrainKept, FirstKept
  <2> QED BY <2>3, <2>4, <2>5 DEF TimelineInv
<1>2. CASE Return \/ UNCHANGED tvars
  <2>1. /\ script' = script /\ st' = st /\ ip' = ip /\ at' = at
        /\ head' = head /\ done' = done /\ trapped' = trapped /\ lock' = lock
        /\ status' \in {status, "returned"}
    BY <1>2 DEF Return, tvars, groupVars
  <2>2. TTypes'
    BY <2>1 DEF TimelineInv, TTypes
  <2>3. DrainOK' /\ NestOK'
    BY <2>1 DEF TimelineInv, DrainOK, NestOK, FanAhead
  <2>4. WaitOK' /\ FirstOK'
    BY <2>1 DEF TimelineInv, WaitOK, FirstOK, Trapping, Passed, Turn
  <2> QED BY <2>2, <2>3, <2>4 DEF TimelineInv
<1> QED BY <1>1, <1>2 DEF TNext

\* The timelines keep their invariant, whatever the tree of fans, the scripts
\* and the order the threads run in.
THEOREM TimelineInvariant == TSpec => []TimelineInv
<1>1. TInit => TimelineInv
  BY TimelineInit
<1>2. TimelineInv /\ [TNext]_tvars => TimelineInv'
  BY TimelineStep
<1> QED BY <1>1, <1>2, PTL DEF TSpec

\* Going outwards ends at the outermost fan.
LEMMA Rooted ==
  ASSUME NEW S, Closed(S), S # {}
  PROVE  \E x \in S : Enclosing[x] = Top
<1> DEFINE G == {GroupOf[x] : x \in S}
<1>1. S \subseteq Elem /\ G \in SUBSET Groups /\ G # {}
  BY Places DEF Closed
<1>2. ASSUME NEW g \in G, NEW h \in Groups, StartedBy[g] \in Range(Fans[h]) PROVE h \in G
  <2>1. PICK x \in S : g = GroupOf[x]
    OBVIOUS
  <2>2. Enclosing[x] = StartedBy[g] /\ Enclosing[x] \in Elem
    <3>1. Enclosing[x] = StartedBy[g]
      BY <1>1, <2>1, Places
    <3>2. StartedBy[g] \in Elem
      BY <1>2 DEF Elem
    <3> QED BY <3>1, <3>2
  <2>3. Enclosing[x] \in S
    BY <2>2, TreeAssumption DEF Closed
  <2>4. Fans[h] \in Seq(Elem)
    BY TreeAssumption
  <2>5. DOMAIN Fans[h] = 1..Len(Fans[h])
    BY <2>4
  <2>6. PICK i \in 1..Len(Fans[h]) : Fans[h][i] = Enclosing[x]
    BY <1>2, <2>2, <2>5 DEF Range
  <2>7. GroupOf[Enclosing[x]] = h
    BY <2>6, Places
  <2> QED BY <2>3, <2>7
<1>3. RootFan \in G
  <2> HIDE DEF G
  <2> QED BY <1>1, <1>2, NestingAssumption
<1>4. PICK x \in S : GroupOf[x] = RootFan
  BY <1>3
<1>5. Enclosing[x] = Top
  BY <1>1, <1>4, Places, TreeAssumption
<1> QED BY <1>5

\* The sinks around an element are a chain: each but its own has one below it.
LEMMA Below ==
  ASSUME NEW f \in Elem, NEW p \in Outwards[f], p # f
  PROVE  \E y \in Outwards[f] : Enclosing[y] = p
<1> SUFFICES ASSUME \A y \in Outwards[f] : Enclosing[y] # p PROVE FALSE
  OBVIOUS
<1>1. f \in Outwards[f] /\ Closed(Outwards[f])
  BY OutwardsIs
<1>2. Closed(Outwards[f] \ {p}) /\ f \in Outwards[f] \ {p}
  BY <1>1 DEF Closed
<1>3. Outwards[f] \subseteq Outwards[f] \ {p}
  BY <1>2, OutwardsIs
<1> QED BY <1>3

\* Two elements of one fan that are both first and neither done are the same.
LEMMA OneFirst ==
  ASSUME TTypes, NEW x \in Elem, NEW y \in Elem, GroupOf[x] = GroupOf[y],
         First(x), First(y), st[x] # "done", st[y] # "done"
  PROVE  x = y
<1> DEFINE g == GroupOf[x]
<1>1. /\ g \in Groups /\ Len(Fans[g]) \in Nat
      /\ IndexOf[x] \in 1..Len(Fans[g]) /\ Fans[g][IndexOf[x]] = x
      /\ IndexOf[y] \in 1..Len(Fans[g]) /\ Fans[g][IndexOf[y]] = y
  BY Places
<1>2. IndexOf[x] \notin 1..(IndexOf[y] - 1) /\ IndexOf[y] \notin 1..(IndexOf[x] - 1)
  BY <1>1 DEF First
<1>3. IndexOf[x] = IndexOf[y]
  BY <1>1, <1>2
<1> QED BY <1>1, <1>3

\* Two traps that are past every fan have the same fans around them.
LEMMA OutTogether ==
  ASSUME TimelineInv, NEW e \in Elem, NEW f \in Elem,
         Trapping(e), Trapping(f), at[e] = Top, at[f] = Top
  PROVE  Outwards[e] \subseteq Outwards[f]
<1>1. TTypes /\ NestOK /\ FirstOK
  BY DEF TimelineInv
<1>2. ASSUME NEW d \in {e, f}, NEW s \in Outwards[d]
      PROVE  s \in Elem /\ First(s) /\ st[s] \notin {"unborn", "done"} /\ (s # d => st[s] = "join")
  <2>1. d \in Elem /\ Trapping(d) /\ at[d] = Top /\ st[d] \notin {"unborn", "done", "join"}
    BY DEF Trapping
  <2>2. s \in Elem
    BY <2>1, OutwardsIs DEF Closed
  <2>3. s \in Passed(d)
    BY <2>1 DEF Passed
  <2>4. First(s)
    BY <1>1, <2>1, <2>3 DEF FirstOK, First, Turn
  <2>5. s # d => st[s] = "join"
    BY <1>1, <2>1, AroundJoins
  <2> QED BY <2>1, <2>2, <2>4, <2>5
<1> DEFINE U == Outwards[e] \ Outwards[f]
<1>3. ASSUME NEW x \in U, Enclosing[x] = Top PROVE FALSE
  <2>1. Closed(Outwards[f]) /\ Outwards[f] # {}
    BY OutwardsIs
  <2>2. PICK y \in Outwards[f] : Enclosing[y] = Top
    BY <2>1, Rooted
  <2>3. x \in Elem /\ y \in Elem
    BY <1>2
  <2>4. GroupOf[x] = GroupOf[y]
    BY <1>3, <2>2, <2>3, Places, TreeAssumption
  <2>5. x = y
    BY <1>1, <1>2, <2>3, <2>4, OneFirst
  <2> QED BY <2>5
<1>4. ASSUME NEW x \in U, Enclosing[x] # Top PROVE Enclosing[x] \in U
  <2>1. x \in Elem /\ st[x] \notin {"unborn", "done"} /\ First(x)
    BY <1>2
  <2>2. Enclosing[x] \in Elem /\ st[Enclosing[x]] = "join"
    BY <1>1, <1>4, <2>1, Places DEF NestOK
  <2>3. Enclosing[x] \in Outwards[e]
    BY <1>4, OutwardsIs DEF Closed
  <2>4. ASSUME Enclosing[x] \in Outwards[f] PROVE FALSE
    <3>1. Enclosing[x] # f
      BY <2>2 DEF Trapping
    <3>2. PICK y \in Outwards[f] : Enclosing[y] = Enclosing[x]
      BY <2>4, <3>1, Below
    <3>3. y \in Elem /\ First(y) /\ st[y] # "done"
      BY <1>2
    <3>4. GroupOf[x] = GroupOf[y]
      BY <2>1, <3>2, <3>3, Places, TreeAssumption
    <3>5. x = y
      BY <1>1, <2>1, <3>3, <3>4, OneFirst
    <3> QED BY <3>5
  <2> QED BY <2>3, <2>4
<1>5. U \subseteq Elem
  BY <1>2
<1>6. Closed(U)
  BY <1>4, <1>5 DEF Closed
<1>7. U = {}
  <2> HIDE DEF U
  <2> QED BY <1>3, <1>6, Rooted
<1> QED BY <1>7

\* Of all the traps a program can meet at once, one gets past its outermost
\* fan (almide_fan_trap_wait): the flags that guard the abort and the panic
\* apart from one another are never raced for.
THEOREM OneTrapGetsOut == TSpec => []OneTrapOut
<1>1. ASSUME TimelineInv, NEW e \in Elem, NEW f \in Elem,
             Trapping(e), Trapping(f), at[e] = Top, at[f] = Top
      PROVE  e = f
  <2>1. e \in Outwards[e] /\ Outwards[e] \subseteq Outwards[f]
    BY <1>1, OutTogether, OutwardsIs
  <2>2. ASSUME e # f PROVE FALSE
    <3>1. st[f] \notin {"unborn", "done"} /\ st[e] # "join"
      BY <1>1 DEF Trapping
    <3> QED BY <1>1, <2>1, <2>2, <3>1, AroundJoins DEF TimelineInv
  <2> QED BY <2>2
<1>2. TimelineInv => OneTrapOut
  BY <1>1 DEF OneTrapOut
<1> QED BY <1>2, TimelineInvariant, PTL

\* A trap that has waited at a level of fans stays the first one there
\* (almide_fan_trap_wait, which never looks again at a level it has passed),
\* and one trap at most is ever past all of them.
THEOREM TrapStaysFirst == TSpec => []TrapIsFirst
<1>1. TimelineInv => TTypeOK
  BY DEF TimelineInv, TTypes, TTypeOK, Sts
<1>2. TimelineInv => FirstOK
  BY DEF TimelineInv
<1>3. TimelineInv /\ OneTrapOut => TrapIsFirst
  BY <1>1, <1>2 DEF FirstOK, TrapIsFirst
<1> QED BY <1>3, TimelineInvariant, OneTrapGetsOut, PTL
=============================================================================
