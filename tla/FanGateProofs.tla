--------------------------- MODULE FanGateProofs ----------------------------
(***************************************************************************)
(* Machine-checked proofs about FanGate, for every number of callers,      *)
(* hands, slots, blocks and offers.                                        *)
(***************************************************************************)
EXTENDS FanGate, FiniteSetTheorems, TLAPS

-----------------------------------------------------------------------------
(* Counting *)

\* The threads of an instance are finitely many.
LEMMA ThreadsFinite == IsFiniteSet(Threads)
  BY GateAssumption, FS_Union DEF Threads

\* A count that follows a set goes up by one with a new member ...
LEMMA CountAdd ==
  ASSUME NEW S \in SUBSET Threads, NEW x \in Threads, x \notin S
  PROVE  Cardinality(S \cup {x}) = Cardinality(S) + 1
  <1>1. IsFiniteSet(S)
    BY ThreadsFinite, FS_Subset
  <1> QED
    BY <1>1, FS_AddElement

\* ... down by one with a member that leaves ...
LEMMA CountRemove ==
  ASSUME NEW S \in SUBSET Threads, NEW x \in S
  PROVE  Cardinality(S \ {x}) = Cardinality(S) - 1
  <1>1. IsFiniteSet(S)
    BY ThreadsFinite, FS_Subset
  <1> QED
    BY <1>1, FS_RemoveElement

\* ... and is zero only for the empty set.
LEMMA CountZero ==
  ASSUME NEW S \in SUBSET Threads, Cardinality(S) = 0
  PROVE  S = {}
  <1>1. IsFiniteSet(S)
    BY ThreadsFinite, FS_Subset
  <1> QED
    BY <1>1, FS_EmptySet

-----------------------------------------------------------------------------
(* One lemma for each conjunct of GateInv *)

\* Before the first offer the invariant holds.
LEMMA InitInv == Init => GateInv
  <1> SUFFICES ASSUME Init PROVE GateInv
    OBVIOUS
  <1>1. TypeOK
    <2>1. running \in Int
      BY GateAssumption, FS_CardinalityType DEF Init, CallerDepth
    <2> QED
      BY <2>1, GateAssumption DEF Init, TypeOK, CallerPc, TakePc, Slots, ScanPos, NoSlot, Threads
  <1>2. RolesOK /\ SlotsOK /\ PointersOK
    BY GateAssumption DEF Init, RolesOK, SlotsOK, PointersOK, Touches, Threads, NoSlot
  <1>3. CountersExact
    <2>1. \A s \in Slots : HoldersOf(s) = {}
      BY DEF Init, HoldersOf
    <2>2. \A c \in Callers : HelpersIn(c) = {}
      BY GateAssumption DEF Init, HelpersIn, Threads
    <2> QED
      BY <2>1, <2>2, FS_EmptySet DEF Init, CountersExact, HoldersExact, HelpersExact
  <1> QED
    BY <1>1, <1>2, <1>3 DEF GateInv


\* Every step of almide_fan_deal, steal, take and help keeps the types.
LEMMA TypeStep == GateInv /\ [Next]_vars => TypeOK'
  <1> SUFFICES ASSUME GateInv, [Next]_vars
               PROVE  TypeOK'
    OBVIOUS
  <1>0. /\ Callers \subseteq Threads /\ Hands \subseteq Threads
        /\ NoGate \notin Threads /\ Callers \cap Hands = {}
        /\ NoSlot \notin Slots
    BY GateAssumption DEF Threads, NoSlot, Slots
  <1>a. TypeOK /\ RolesOK
    BY DEF GateInv
  <1>b. 1 \in ScanPos /\ \A s \in Slots : s + 1 \in ScanPos
    BY GateAssumption DEF Slots, ScanPos
  <1>d. CallerDepth \in {0, 1}
    BY GateAssumption DEF CallerDepth
  <1> USE <1>0, <1>a DEF TypeOK, RolesOK, Touches, CallerPc, TakePc, takeVars, gateVars, statics
  <1>1. ASSUME NEW c \in Callers, NEW n \in 1..MaxBlocks, Deal(c, n)
        PROVE  TypeOK'
    BY <1>d, <1>1, GateAssumption DEF Deal
  <1>2. ASSUME NEW c \in Callers, CallerStep(c)
        PROVE  TypeOK'
    <2>1. CASE CountOpen(c)
      BY <1>b, <2>1 DEF CountOpen
    <2>2. CASE Publish(c)
      BY <2>2 DEF Publish, StartTake
    <2>3. CASE PublishNext(c)
      BY <1>b, <2>3 DEF PublishNext
    <2>4. CASE PublishNone(c)
      BY <2>4 DEF PublishNone, StartTake
    <2>5. CASE Withdraw(c)
      BY <2>5 DEF Withdraw
    <2>6. CASE Drain(c)
      BY <2>6 DEF Drain
    <2>7. CASE Await(c)
      BY <2>7 DEF Await
    <2>8. CASE Return(c)
      BY <1>d, <2>8 DEF Return
    <2> QED
      BY <1>2, <2>1, <2>2, <2>3, <2>4, <2>5, <2>6, <2>7, <2>8 DEF CallerStep
  <1>3. ASSUME NEW c \in Callers, CallerPoll(c)
        PROVE  TypeOK'
    BY <1>b, <1>3 DEF CallerPoll, BeginScan
  <1>4. ASSUME NEW h \in Hands, HandPoll(h)
        PROVE  TypeOK'
    BY <1>b, <1>4 DEF HandPoll, BeginScan
  <1>5. ASSUME NEW t \in Threads, TakeStep(t)
        PROVE  TypeOK'
    <2>1. CASE Skip(t)
      BY <1>b, <2>1 DEF Skip
    <2>2. CASE Peek(t)
      BY <2>2 DEF Peek
    <2>3. CASE ScanEnd(t)
      BY <1>b, <2>3 DEF ScanEnd, DropRunning
    <2>4. CASE Hold(t)
      BY <2>4 DEF Hold
    <2>5. CASE Load(t)
      BY <2>5 DEF Load
    <2>6. CASE Filter(t)
      BY <2>6, SMTT(60) DEF Filter
    <2>7. CASE Enter(t)
      BY <2>7 DEF Enter
    <2>8. CASE Release(t)
      <3>1. cur[t] \in Slots
        BY <2>8 DEF Release
      <3>2. readers' \in [Slots -> Int]
        BY <2>8, <3>1 DEF Release
      <3>3. CASE on[t] = NoGate
        <4>1. /\ hpc' = [hpc EXCEPT ![t] = "scan"]
              /\ cur' = [cur EXCEPT ![t] = cur[t] + 1]
          BY <2>8, <3>3 DEF Release
        <4>2. hpc' \in [Threads -> TakePc] /\ cur' \in [Threads -> ScanPos]
          BY <1>b, <3>1, <4>1
        <4> QED
          BY <2>8, <3>2, <4>2 DEF Release
      <3>4. CASE on[t] # NoGate
        <4>1. hpc' = [hpc EXCEPT ![t] = "draw"] /\ cur' = cur
          BY <2>8, <3>4 DEF Release
        <4>2. hpc' \in [Threads -> TakePc] /\ cur' \in [Threads -> ScanPos]
          BY <4>1
        <4> QED
          BY <2>8, <3>2, <4>2 DEF Release
      <3> QED
        BY <3>3, <3>4
    <2>9. CASE Draw(t)
      BY <2>9 DEF Draw
    <2>10. CASE DrawLast(t)
      BY <2>10 DEF DrawLast
    <2>11. CASE DrawNone(t)
      <3>0. next' \in [Callers -> Nat]
        BY <2>11 DEF DrawNone
      <3>1. CASE Own(t)
        BY <2>11, <3>0, <3>1 DEF DrawNone, EndTake, Own
      <3>2. CASE ~Own(t)
        BY <2>11, <3>0, <3>2 DEF DrawNone, EndTake
      <3> QED
        BY <3>1, <3>2
    <2>12. CASE Uncount(t)
      <3>1. CASE Own(t)
        BY <2>12, <3>1 DEF Uncount, EndTake, Own
      <3>2. CASE ~Own(t)
        BY <2>12, <3>2 DEF Uncount, EndTake
      <3> QED
        BY <3>1, <3>2
    <2>13. CASE Run(t)
      BY <2>13 DEF Run
    <2>14. CASE Unwind(t)
      <3>1. CASE Own(t)
        <4>1. mine' = [mine EXCEPT ![t] = TRUE] /\ UNCHANGED panics
          BY <2>14, <3>1 DEF Unwind
        <4>2. mine' \in [Callers -> BOOLEAN] /\ panics' \in [Callers -> BOOLEAN]
          BY <4>1
        <4>3. t \in Callers
          BY <2>14, <3>1 DEF Unwind, Own
        <4>4. /\ cpc' \in [Callers -> CallerPc]
              /\ hpc' \in [Threads -> TakePc]
              /\ on' \in [Threads -> Callers \cup {NoGate}]
          BY <2>14, <3>1, <4>3, SMTT(60) DEF Unwind, EndTake
        <4>5. blk' \in [Threads -> Nat]
          BY <2>14 DEF Unwind
        <4> QED
          BY <2>14, <4>2, <4>4, <4>5 DEF Unwind
      <3>2. CASE ~Own(t)
        <4>1. panics' = [panics EXCEPT ![on[t]] = TRUE] /\ UNCHANGED mine
          BY <2>14, <3>2 DEF Unwind
        <4>2. mine' \in [Callers -> BOOLEAN] /\ panics' \in [Callers -> BOOLEAN]
          BY <4>1
        <4> QED
          BY <2>14, <3>2, <4>2 DEF Unwind, EndTake
      <3> QED
        BY <3>1, <3>2
    <2>15. CASE CloneCaller(t)
      BY <2>15 DEF CloneCaller
    <2>16. CASE Leave(t)
      BY <2>16 DEF Leave, DropRunning
    <2> QED
      BY <1>5, <2>1, <2>2, <2>3, <2>4, <2>5, <2>6, <2>7, <2>8, <2>9, <2>10,
         <2>11, <2>12, <2>13, <2>14, <2>15, <2>16 DEF TakeStep
  <1>6. CASE UNCHANGED vars
    BY <1>6 DEF vars
  <1> QED
    BY <1>1, <1>2, <1>3, <1>4, <1>5, <1>6 DEF Next


\* Every step keeps the roles of the threads: who takes, who helps, who scans.
LEMMA RolesStep == GateInv /\ [Next]_vars => RolesOK'
  <1> SUFFICES ASSUME GateInv, [Next]_vars
               PROVE  RolesOK'
    OBVIOUS
  <1>0. /\ Callers \subseteq Threads /\ Hands \subseteq Threads
        /\ NoGate \notin Threads /\ Callers \cap Hands = {}
        /\ NoSlot \notin Slots
    BY GateAssumption DEF Threads, NoSlot, Slots
  <1>a. /\ cpc \in [Callers -> CallerPc]
        /\ hpc \in [Threads -> TakePc]
        /\ on \in [Threads -> Callers \cup {NoGate}]
        /\ cur \in [Threads -> ScanPos]
        /\ slotGate \in [Slots -> Callers \cup {NoGate}]
        /\ RolesOK /\ SlotsOK
    BY DEF GateInv, TypeOK
  <1> USE <1>0, <1>a DEF RolesOK, SlotsOK, Touches, CallerPc, TakePc, takeVars
  <1>1. ASSUME NEW c \in Callers, NEW n \in 1..MaxBlocks, Deal(c, n)
        PROVE  RolesOK'
    BY <1>1 DEF Deal, NoSlot
  <1>2. ASSUME NEW c \in Callers, CallerStep(c)
        PROVE  RolesOK'
    <2>1. CASE CountOpen(c)
      BY <2>1 DEF CountOpen
    <2>2. CASE Publish(c)
      BY <2>2 DEF Publish, StartTake
    <2>3. CASE PublishNext(c)
      BY <2>3 DEF PublishNext
    <2>4. CASE PublishNone(c)
      BY <2>4 DEF PublishNone, StartTake, NoSlot
    <2>5. CASE Withdraw(c)
      BY <2>5 DEF Withdraw
    <2>6. CASE Drain(c)
      BY <2>6 DEF Drain
    <2>7. CASE Await(c)
      BY <2>7 DEF Await
    <2>8. CASE Return(c)
      BY <2>8 DEF Return, NoSlot
    <2> QED
      BY <1>2, <2>1, <2>2, <2>3, <2>4, <2>5, <2>6, <2>7, <2>8 DEF CallerStep
  <1>3. ASSUME NEW c \in Callers, CallerPoll(c)
        PROVE  RolesOK'
    BY <1>3 DEF CallerPoll, BeginScan
  <1>4. ASSUME NEW h \in Hands, HandPoll(h)
        PROVE  RolesOK'
    BY <1>4 DEF HandPoll, BeginScan
  <1>5. ASSUME NEW t \in Threads, TakeStep(t)
        PROVE  RolesOK'
    <2>1. CASE Skip(t)
      BY <2>1 DEF Skip
    <2>2. CASE Peek(t)
      BY <2>2 DEF Peek
    <2>3. CASE ScanEnd(t)
      BY <2>3 DEF ScanEnd
    <2>4. CASE Hold(t)
      BY <2>4 DEF Hold
    <2>5. CASE Load(t)
      BY <2>5 DEF Load
    <2>6. CASE Filter(t)
      BY <2>6 DEF Filter
    <2>7. CASE Enter(t)
      BY <2>7 DEF Enter
    <2>8. CASE Release(t)
      BY <2>8 DEF Release
    <2>9. CASE Draw(t)
      BY <2>9 DEF Draw
    <2>10. CASE DrawLast(t)
      BY <2>10 DEF DrawLast
    <2>11. CASE DrawNone(t)
      BY <2>11 DEF DrawNone, EndTake, Own
    <2>12. CASE Uncount(t)
      BY <2>12 DEF Uncount, EndTake, Own
    <2>13. CASE Run(t)
      BY <2>13 DEF Run
    <2>14. CASE Unwind(t)
      BY <2>14 DEF Unwind, EndTake, Own
    <2>15. CASE CloneCaller(t)
      BY <2>15 DEF CloneCaller
    <2>16. CASE Leave(t)
      BY <2>16 DEF Leave
    <2> QED
      BY <1>5, <2>1, <2>2, <2>3, <2>4, <2>5, <2>6, <2>7, <2>8, <2>9, <2>10,
         <2>11, <2>12, <2>13, <2>14, <2>15, <2>16 DEF TakeStep
  <1>6. CASE UNCHANGED vars
    BY <1>6 DEF vars
  <1> QED
    BY <1>1, <1>2, <1>3, <1>4, <1>5, <1>6 DEF Next

\* Every step keeps a published gate and its caller in agreement (publish,
\* withdraw).
LEMMA SlotsStep == GateInv /\ [Next]_vars => SlotsOK'
  <1> SUFFICES ASSUME GateInv, [Next]_vars
               PROVE  SlotsOK'
    OBVIOUS
  <1>0. /\ Callers \subseteq Threads /\ Hands \subseteq Threads
        /\ NoGate \notin Threads /\ Callers \cap Hands = {}
        /\ NoSlot \notin Slots
    BY GateAssumption DEF Threads, NoSlot, Slots
  <1>a. /\ cpc \in [Callers -> CallerPc]
        /\ on \in [Threads -> Callers \cup {NoGate}]
        /\ slot \in [Callers -> ScanPos \cup {NoSlot}]
        /\ slotGate \in [Slots -> Callers \cup {NoGate}]
        /\ RolesOK /\ SlotsOK
    BY DEF GateInv, TypeOK
  <1> USE <1>0, <1>a DEF RolesOK, SlotsOK, CallerPc, takeVars, gateVars, statics
  <1>1. ASSUME NEW c \in Callers, NEW n \in 1..MaxBlocks, Deal(c, n)
        PROVE  SlotsOK'
    BY <1>1 DEF Deal, NoSlot
  <1>2. ASSUME NEW c \in Callers, CallerStep(c)
        PROVE  SlotsOK'
    <2>1. CASE CountOpen(c)
      BY <2>1 DEF CountOpen
    <2>2. CASE Publish(c)
      BY <2>2 DEF Publish, StartTake
    <2>3. CASE PublishNext(c)
      BY <2>3 DEF PublishNext
    <2>4. CASE PublishNone(c)
      BY <2>4 DEF PublishNone, StartTake, NoSlot
    <2>5. CASE Withdraw(c)
      BY <2>5 DEF Withdraw
    <2>6. CASE Drain(c)
      BY <2>6 DEF Drain
    <2>7. CASE Await(c)
      BY <2>7 DEF Await
    <2>8. CASE Return(c)
      BY <2>8 DEF Return, NoSlot
    <2> QED
      BY <1>2, <2>1, <2>2, <2>3, <2>4, <2>5, <2>6, <2>7, <2>8 DEF CallerStep
  <1>3. ASSUME NEW c \in Callers, CallerPoll(c)
        PROVE  SlotsOK'
    BY <1>3 DEF CallerPoll, BeginScan
  <1>4. ASSUME NEW h \in Hands, HandPoll(h)
        PROVE  SlotsOK'
    BY <1>4 DEF HandPoll, BeginScan
  <1>5. ASSUME NEW t \in Threads, TakeStep(t)
        PROVE  SlotsOK'
    <2>1. CASE Skip(t)
      BY <2>1 DEF Skip
    <2>2. CASE Peek(t)
      BY <2>2 DEF Peek
    <2>3. CASE ScanEnd(t)
      BY <2>3 DEF ScanEnd
    <2>4. CASE Hold(t)
      BY <2>4 DEF Hold
    <2>5. CASE Load(t)
      BY <2>5 DEF Load
    <2>6. CASE Filter(t)
      BY <2>6 DEF Filter
    <2>7. CASE Enter(t)
      BY <2>7 DEF Enter
    <2>8. CASE Release(t)
      BY <2>8 DEF Release
    <2>9. CASE Draw(t)
      BY <2>9 DEF Draw
    <2>10. CASE DrawLast(t)
      BY <2>10 DEF DrawLast
    <2>11. CASE DrawNone(t)
      BY <2>11 DEF DrawNone, EndTake, Own
    <2>12. CASE Uncount(t)
      BY <2>12 DEF Uncount, EndTake, Own
    <2>13. CASE Run(t)
      BY <2>13 DEF Run
    <2>14. CASE Unwind(t)
      BY <2>14 DEF Unwind, EndTake, Own
    <2>15. CASE CloneCaller(t)
      BY <2>15 DEF CloneCaller
    <2>16. CASE Leave(t)
      BY <2>16 DEF Leave
    <2> QED
      BY <1>5, <2>1, <2>2, <2>3, <2>4, <2>5, <2>6, <2>7, <2>8, <2>9, <2>10,
         <2>11, <2>12, <2>13, <2>14, <2>15, <2>16 DEF TakeStep
  <1>6. CASE UNCHANGED vars
    BY <1>6 DEF vars
  <1> QED
    BY <1>1, <1>2, <1>3, <1>4, <1>5, <1>6 DEF Next

\* Every step keeps a gate pointer that a thread holds valid: read under
\* `readers`, kept by `inside`.
LEMMA PointersStep == GateInv /\ [Next]_vars => PointersOK'
  <1> SUFFICES ASSUME GateInv, [Next]_vars
               PROVE  PointersOK'
    OBVIOUS
  <1>0. /\ Callers \subseteq Threads /\ Hands \subseteq Threads
        /\ NoGate \notin Threads /\ Callers \cap Hands = {}
        /\ NoSlot \notin Slots
    BY GateAssumption DEF Threads, NoSlot, Slots
  <1>a. /\ cpc \in [Callers -> CallerPc]
        /\ hpc \in [Threads -> TakePc]
        /\ on \in [Threads -> Callers \cup {NoGate}]
        /\ slot \in [Callers -> ScanPos \cup {NoSlot}]
        /\ slotGate \in [Slots -> Callers \cup {NoGate}]
        /\ cur \in [Threads -> ScanPos]
        /\ RolesOK /\ SlotsOK /\ PointersOK
    BY DEF GateInv, TypeOK
  <1> USE <1>0, <1>a DEF RolesOK, SlotsOK, PointersOK, Touches, CallerPc, TakePc, takeVars, gateVars, statics
  <1>1. ASSUME NEW c \in Callers, NEW n \in 1..MaxBlocks, Deal(c, n)
        PROVE  PointersOK'
    BY <1>1 DEF Deal, NoSlot
  <1>2. ASSUME NEW c \in Callers, CallerStep(c)
        PROVE  PointersOK'
    <2>1. CASE CountOpen(c)
      BY <2>1 DEF CountOpen
    <2>2. CASE Publish(c)
      BY <2>2 DEF Publish, StartTake
    <2>3. CASE PublishNext(c)
      BY <2>3 DEF PublishNext
    <2>4. CASE PublishNone(c)
      BY <2>4 DEF PublishNone, StartTake, NoSlot
    <2>5. CASE Withdraw(c)
      BY <2>5 DEF Withdraw
    <2>6. CASE Drain(c)
      <3>1. HoldersOf(slot[c]) \in SUBSET Threads
        BY DEF HoldersOf
      <3>2. Cardinality(HoldersOf(slot[c])) = 0
        BY <2>6 DEF Drain, GateInv, CountersExact, HoldersExact
      <3>3. HoldersOf(slot[c]) = {}
        BY <3>1, <3>2, CountZero
      <3> QED
        BY <2>6, <3>3 DEF Drain, HoldersOf
    <2>7. CASE Await(c)
      <3>1. HelpersIn(c) \in SUBSET Threads
        BY DEF HelpersIn
      <3>2. Cardinality(HelpersIn(c)) = 0
        BY <2>7 DEF Await, GateInv, CountersExact, HelpersExact
      <3>3. HelpersIn(c) = {}
        BY <3>1, <3>2, CountZero
      <3> QED
        BY <2>7, <3>3 DEF Await, HelpersIn
    <2>8. CASE Return(c)
      BY <2>8 DEF Return, NoSlot
    <2> QED
      BY <1>2, <2>1, <2>2, <2>3, <2>4, <2>5, <2>6, <2>7, <2>8 DEF CallerStep
  <1>3. ASSUME NEW c \in Callers, CallerPoll(c)
        PROVE  PointersOK'
    BY <1>3 DEF CallerPoll, BeginScan
  <1>4. ASSUME NEW h \in Hands, HandPoll(h)
        PROVE  PointersOK'
    BY <1>4 DEF HandPoll, BeginScan
  <1>5. ASSUME NEW t \in Threads, TakeStep(t)
        PROVE  PointersOK'
    <2>1. CASE Skip(t)
      BY <2>1 DEF Skip
    <2>2. CASE Peek(t)
      BY <2>2 DEF Peek
    <2>3. CASE ScanEnd(t)
      BY <2>3 DEF ScanEnd
    <2>4. CASE Hold(t)
      BY <2>4 DEF Hold
    <2>5. CASE Load(t)
      BY <2>5 DEF Load
    <2>6. CASE Filter(t)
      BY <2>6 DEF Filter
    <2>7. CASE Enter(t)
      BY <2>7 DEF Enter
    <2>8. CASE Release(t)
      BY <2>8 DEF Release
    <2>9. CASE Draw(t)
      BY <2>9 DEF Draw
    <2>10. CASE DrawLast(t)
      BY <2>10 DEF DrawLast
    <2>11. CASE DrawNone(t)
      BY <2>11 DEF DrawNone, EndTake, Own
    <2>12. CASE Uncount(t)
      BY <2>12 DEF Uncount, EndTake, Own
    <2>13. CASE Run(t)
      BY <2>13 DEF Run
    <2>14. CASE Unwind(t)
      BY <2>14 DEF Unwind, EndTake, Own
    <2>15. CASE CloneCaller(t)
      BY <2>15 DEF CloneCaller
    <2>16. CASE Leave(t)
      BY <2>16 DEF Leave
    <2> QED
      BY <1>5, <2>1, <2>2, <2>3, <2>4, <2>5, <2>6, <2>7, <2>8, <2>9, <2>10,
         <2>11, <2>12, <2>13, <2>14, <2>15, <2>16 DEF TakeStep
  <1>6. CASE UNCHANGED vars
    BY <1>6 DEF vars
  <1> QED
    BY <1>1, <1>2, <1>3, <1>4, <1>5, <1>6 DEF Next

\* Every step keeps `readers` the number of threads that hold the slot.
LEMMA HoldersStep == GateInv /\ [Next]_vars => HoldersExact'
  <1> SUFFICES ASSUME GateInv, [Next]_vars
               PROVE  HoldersExact'
    OBVIOUS
  <1>0. /\ Callers \subseteq Threads /\ Hands \subseteq Threads
        /\ NoGate \notin Threads /\ Callers \cap Hands = {}
        /\ NoSlot \notin Slots
    BY GateAssumption DEF Threads, NoSlot, Slots
  <1>a. /\ hpc \in [Threads -> TakePc]
        /\ cur \in [Threads -> ScanPos]
        /\ readers \in [Slots -> Int]
        /\ RolesOK /\ HoldersExact
    BY DEF GateInv, TypeOK, CountersExact
  <1> USE <1>0, <1>a DEF HoldersExact, HoldersOf, RolesOK, TakePc, takeVars, gateVars, statics
  <1>1. ASSUME NEW c \in Callers, NEW n \in 1..MaxBlocks, Deal(c, n)
        PROVE  HoldersExact'
    <2>1. \A x \in Slots : HoldersOf(x)' = HoldersOf(x)
      BY <1>1 DEF Deal, NoSlot
    <2> QED
      BY <1>1, <2>1 DEF Deal, NoSlot
  <1>2. ASSUME NEW c \in Callers, CallerStep(c)
        PROVE  HoldersExact'
    <2>1. CASE CountOpen(c)
      <3>1. \A x \in Slots : HoldersOf(x)' = HoldersOf(x)
        BY <2>1 DEF CountOpen
      <3> QED
        BY <2>1, <3>1 DEF CountOpen
    <2>2. CASE Publish(c)
      <3>1. \A x \in Slots : HoldersOf(x)' = HoldersOf(x)
        BY <2>2 DEF Publish, StartTake
      <3> QED
        BY <2>2, <3>1 DEF Publish, StartTake
    <2>3. CASE PublishNext(c)
      <3>1. \A x \in Slots : HoldersOf(x)' = HoldersOf(x)
        BY <2>3 DEF PublishNext
      <3> QED
        BY <2>3, <3>1 DEF PublishNext
    <2>4. CASE PublishNone(c)
      <3>1. \A x \in Slots : HoldersOf(x)' = HoldersOf(x)
        BY <2>4 DEF PublishNone, StartTake, NoSlot
      <3> QED
        BY <2>4, <3>1 DEF PublishNone, StartTake, NoSlot
    <2>5. CASE Withdraw(c)
      <3>1. \A x \in Slots : HoldersOf(x)' = HoldersOf(x)
        BY <2>5 DEF Withdraw
      <3> QED
        BY <2>5, <3>1 DEF Withdraw
    <2>6. CASE Drain(c)
      <3>1. \A x \in Slots : HoldersOf(x)' = HoldersOf(x)
        BY <2>6 DEF Drain
      <3> QED
        BY <2>6, <3>1 DEF Drain
    <2>7. CASE Await(c)
      <3>1. \A x \in Slots : HoldersOf(x)' = HoldersOf(x)
        BY <2>7 DEF Await
      <3> QED
        BY <2>7, <3>1 DEF Await
    <2>8. CASE Return(c)
      <3>1. \A x \in Slots : HoldersOf(x)' = HoldersOf(x)
        BY <2>8 DEF Return, NoSlot
      <3> QED
        BY <2>8, <3>1 DEF Return, NoSlot
    <2> QED
      BY <1>2, <2>1, <2>2, <2>3, <2>4, <2>5, <2>6, <2>7, <2>8 DEF CallerStep
  <1>3. ASSUME NEW c \in Callers, CallerPoll(c)
        PROVE  HoldersExact'
    <2>1. \A x \in Slots : HoldersOf(x)' = HoldersOf(x)
      BY <1>3 DEF CallerPoll, BeginScan
    <2> QED
      BY <1>3, <2>1 DEF CallerPoll, BeginScan
  <1>4. ASSUME NEW h \in Hands, HandPoll(h)
        PROVE  HoldersExact'
    <2>1. \A x \in Slots : HoldersOf(x)' = HoldersOf(x)
      BY <1>4 DEF HandPoll, BeginScan
    <2> QED
      BY <1>4, <2>1 DEF HandPoll, BeginScan
  <1>5. ASSUME NEW t \in Threads, TakeStep(t)
        PROVE  HoldersExact'
    <2>1. CASE Skip(t)
      <3>1. \A x \in Slots : HoldersOf(x)' = HoldersOf(x)
        BY <2>1 DEF Skip
      <3> QED
        BY <2>1, <3>1 DEF Skip
    <2>2. CASE Peek(t)
      <3>1. \A x \in Slots : HoldersOf(x)' = HoldersOf(x)
        BY <2>2 DEF Peek
      <3> QED
        BY <2>2, <3>1 DEF Peek
    <2>3. CASE ScanEnd(t)
      <3>1. \A x \in Slots : HoldersOf(x)' = HoldersOf(x)
        BY <2>3 DEF ScanEnd
      <3> QED
        BY <2>3, <3>1 DEF ScanEnd
    <2>4. CASE Hold(t)
      <3>1. t \notin HoldersOf(cur[t]) /\ HoldersOf(cur[t])' = HoldersOf(cur[t]) \cup {t}
        BY <2>4 DEF Hold
      <3>2. \A s \in Slots \ {cur[t]} : HoldersOf(s)' = HoldersOf(s)
        BY <2>4 DEF Hold
      <3>3. Cardinality(HoldersOf(cur[t]) \cup {t}) = Cardinality(HoldersOf(cur[t])) + 1
        BY <3>1, CountAdd
      <3>4. cur[t] \in Slots /\ cur' = cur /\ readers' = [readers EXCEPT ![cur[t]] = @ + 1]
        BY <2>4 DEF Hold
      <3> HIDE DEF HoldersOf, HoldersExact
      <3>5. \A s \in Slots : readers[s] = Cardinality(HoldersOf(s))
        BY DEF HoldersExact
      <3>6. ASSUME NEW s \in Slots
            PROVE  readers'[s] = Cardinality(HoldersOf(s)')
        <4>1. CASE s = cur[t]
          <5>1. HoldersOf(s)' = HoldersOf(s) \cup {t}
            BY <3>1, <3>4, <4>1
          <5>2. Cardinality(HoldersOf(s) \cup {t}) = readers[s] + 1
            BY <3>3, <3>5, <4>1
          <5> QED
            BY <3>4, <4>1, <5>1, <5>2
        <4>2. CASE s # cur[t]
          BY <3>2, <3>4, <3>5, <4>2
        <4> QED
          BY <4>1, <4>2
      <3> QED
        BY <3>6 DEF HoldersExact
    <2>5. CASE Load(t)
      <3>1. \A x \in Slots : HoldersOf(x)' = HoldersOf(x)
        BY <2>5 DEF Load
      <3> QED
        BY <2>5, <3>1 DEF Load
    <2>6. CASE Filter(t)
      <3>1. \A x \in Slots : HoldersOf(x)' = HoldersOf(x)
        BY <2>6 DEF Filter
      <3> QED
        BY <2>6, <3>1 DEF Filter
    <2>7. CASE Enter(t)
      <3>1. \A x \in Slots : HoldersOf(x)' = HoldersOf(x)
        BY <2>7 DEF Enter
      <3> QED
        BY <2>7, <3>1 DEF Enter
    <2>8. CASE Release(t)
      <3>1. t \in HoldersOf(cur[t])
        BY <2>8 DEF Release
      <3>2. \A s \in Slots : HoldersOf(s)' = HoldersOf(s) \ {t}
        BY <2>8 DEF Release
      <3>3. \A s \in Slots \ {cur[t]} : HoldersOf(s)' = HoldersOf(s)
        BY <3>2
      <3>4. Cardinality(HoldersOf(cur[t]) \ {t}) = Cardinality(HoldersOf(cur[t])) - 1
        BY <3>1, CountRemove
      <3>5. cur[t] \in Slots /\ readers' = [readers EXCEPT ![cur[t]] = @ - 1]
        BY <2>8 DEF Release
      <3> HIDE DEF HoldersOf, HoldersExact
      <3>6. \A s \in Slots : readers[s] = Cardinality(HoldersOf(s))
        BY DEF HoldersExact
      <3>7. ASSUME NEW s \in Slots
            PROVE  readers'[s] = Cardinality(HoldersOf(s)')
        <4>1. CASE s = cur[t]
          <5>1. HoldersOf(s)' = HoldersOf(s) \ {t}
            BY <3>2
          <5>2. Cardinality(HoldersOf(s) \ {t}) = readers[s] - 1
            BY <3>4, <3>6, <4>1
          <5> QED
            BY <3>5, <4>1, <5>1, <5>2
        <4>2. CASE s # cur[t]
          BY <3>3, <3>5, <3>6, <4>2
        <4> QED
          BY <4>1, <4>2
      <3> QED
        BY <3>7 DEF HoldersExact
    <2>9. CASE Draw(t)
      <3>1. \A x \in Slots : HoldersOf(x)' = HoldersOf(x)
        BY <2>9 DEF Draw
      <3> QED
        BY <2>9, <3>1 DEF Draw
    <2>10. CASE DrawLast(t)
      <3>1. \A x \in Slots : HoldersOf(x)' = HoldersOf(x)
        BY <2>10 DEF DrawLast
      <3> QED
        BY <2>10, <3>1 DEF DrawLast
    <2>11. CASE DrawNone(t)
      <3>1. \A x \in Slots : HoldersOf(x)' = HoldersOf(x)
        BY <2>11 DEF DrawNone, EndTake, Own
      <3> QED
        BY <2>11, <3>1 DEF DrawNone, EndTake, Own
    <2>12. CASE Uncount(t)
      <3>1. \A x \in Slots : HoldersOf(x)' = HoldersOf(x)
        BY <2>12 DEF Uncount, EndTake, Own
      <3> QED
        BY <2>12, <3>1 DEF Uncount, EndTake, Own
    <2>13. CASE Run(t)
      <3>1. \A x \in Slots : HoldersOf(x)' = HoldersOf(x)
        BY <2>13 DEF Run
      <3> QED
        BY <2>13, <3>1 DEF Run
    <2>14. CASE Unwind(t)
      <3>1. \A x \in Slots : HoldersOf(x)' = HoldersOf(x)
        BY <2>14 DEF Unwind, EndTake, Own
      <3> QED
        BY <2>14, <3>1 DEF Unwind, EndTake, Own
    <2>15. CASE CloneCaller(t)
      <3>1. \A x \in Slots : HoldersOf(x)' = HoldersOf(x)
        BY <2>15 DEF CloneCaller
      <3> QED
        BY <2>15, <3>1 DEF CloneCaller
    <2>16. CASE Leave(t)
      <3>1. \A x \in Slots : HoldersOf(x)' = HoldersOf(x)
        BY <2>16 DEF Leave
      <3> QED
        BY <2>16, <3>1 DEF Leave
    <2> QED
      BY <1>5, <2>1, <2>2, <2>3, <2>4, <2>5, <2>6, <2>7, <2>8, <2>9, <2>10,
         <2>11, <2>12, <2>13, <2>14, <2>15, <2>16 DEF TakeStep
  <1>6. CASE UNCHANGED vars
    BY <1>6 DEF vars
  <1> QED
    BY <1>1, <1>2, <1>3, <1>4, <1>5, <1>6 DEF Next

\* Every step keeps `inside` the number of helpers in the gate.
LEMMA HelpersStep == GateInv /\ [Next]_vars => HelpersExact'
  <1> SUFFICES ASSUME GateInv, [Next]_vars
               PROVE  HelpersExact'
    OBVIOUS
  <1>0. /\ Callers \subseteq Threads /\ Hands \subseteq Threads
        /\ NoGate \notin Threads /\ Callers \cap Hands = {}
        /\ NoSlot \notin Slots
    BY GateAssumption DEF Threads, NoSlot, Slots
  <1>a. /\ hpc \in [Threads -> TakePc]
        /\ on \in [Threads -> Callers \cup {NoGate}]
        /\ inside \in [Callers -> Int]
        /\ RolesOK /\ PointersOK /\ HelpersExact
    BY DEF GateInv, TypeOK, CountersExact
  <1> USE <1>0, <1>a DEF HelpersExact, HelpersIn, RolesOK, Touches, TakePc, takeVars, gateVars, statics
  <1>1. ASSUME NEW c \in Callers, NEW n \in 1..MaxBlocks, Deal(c, n)
        PROVE  HelpersExact'
    <2>1. \A g \in Callers : HelpersIn(g)' = HelpersIn(g)
      BY <1>1 DEF Deal
    <2>2. HelpersIn(c) = {}
      BY <1>1 DEF Deal, PointersOK
    <2> QED
      BY <1>1, <2>1, <2>2, FS_EmptySet DEF Deal
  <1>2. ASSUME NEW c \in Callers, CallerStep(c)
        PROVE  HelpersExact'
    <2>1. CASE CountOpen(c)
      <3>1. \A x \in Callers : HelpersIn(x)' = HelpersIn(x)
        BY <2>1 DEF CountOpen
      <3> QED
        BY <2>1, <3>1 DEF CountOpen
    <2>2. CASE Publish(c)
      <3>1. \A x \in Callers : HelpersIn(x)' = HelpersIn(x)
        BY <2>2 DEF Publish, StartTake
      <3> QED
        BY <2>2, <3>1 DEF Publish, StartTake
    <2>3. CASE PublishNext(c)
      <3>1. \A x \in Callers : HelpersIn(x)' = HelpersIn(x)
        BY <2>3 DEF PublishNext
      <3> QED
        BY <2>3, <3>1 DEF PublishNext
    <2>4. CASE PublishNone(c)
      <3>1. \A x \in Callers : HelpersIn(x)' = HelpersIn(x)
        BY <2>4 DEF PublishNone, StartTake, NoSlot
      <3> QED
        BY <2>4, <3>1 DEF PublishNone, StartTake, NoSlot
    <2>5. CASE Withdraw(c)
      <3>1. \A x \in Callers : HelpersIn(x)' = HelpersIn(x)
        BY <2>5 DEF Withdraw
      <3> QED
        BY <2>5, <3>1 DEF Withdraw
    <2>6. CASE Drain(c)
      <3>1. \A x \in Callers : HelpersIn(x)' = HelpersIn(x)
        BY <2>6 DEF Drain
      <3> QED
        BY <2>6, <3>1 DEF Drain
    <2>7. CASE Await(c)
      <3>1. \A x \in Callers : HelpersIn(x)' = HelpersIn(x)
        BY <2>7 DEF Await
      <3> QED
        BY <2>7, <3>1 DEF Await
    <2>8. CASE Return(c)
      <3>1. \A x \in Callers : HelpersIn(x)' = HelpersIn(x)
        BY <2>8 DEF Return, NoSlot
      <3> QED
        BY <2>8, <3>1 DEF Return, NoSlot
    <2> QED
      BY <1>2, <2>1, <2>2, <2>3, <2>4, <2>5, <2>6, <2>7, <2>8 DEF CallerStep
  <1>3. ASSUME NEW c \in Callers, CallerPoll(c)
        PROVE  HelpersExact'
    <2>1. \A x \in Callers : HelpersIn(x)' = HelpersIn(x)
      BY <1>3 DEF CallerPoll, BeginScan
    <2> QED
      BY <1>3, <2>1 DEF CallerPoll, BeginScan
  <1>4. ASSUME NEW h \in Hands, HandPoll(h)
        PROVE  HelpersExact'
    <2>1. \A x \in Callers : HelpersIn(x)' = HelpersIn(x)
      BY <1>4 DEF HandPoll, BeginScan
    <2> QED
      BY <1>4, <2>1 DEF HandPoll, BeginScan
  <1>5. ASSUME NEW t \in Threads, TakeStep(t)
        PROVE  HelpersExact'
    <2>1. CASE Skip(t)
      <3>1. \A x \in Callers : HelpersIn(x)' = HelpersIn(x)
        BY <2>1 DEF Skip
      <3> QED
        BY <2>1, <3>1 DEF Skip
    <2>2. CASE Peek(t)
      <3>1. \A x \in Callers : HelpersIn(x)' = HelpersIn(x)
        BY <2>2 DEF Peek
      <3> QED
        BY <2>2, <3>1 DEF Peek
    <2>3. CASE ScanEnd(t)
      <3>1. \A x \in Callers : HelpersIn(x)' = HelpersIn(x)
        BY <2>3 DEF ScanEnd
      <3> QED
        BY <2>3, <3>1 DEF ScanEnd
    <2>4. CASE Hold(t)
      <3>1. \A x \in Callers : HelpersIn(x)' = HelpersIn(x)
        BY <2>4 DEF Hold
      <3> QED
        BY <2>4, <3>1 DEF Hold
    <2>5. CASE Load(t)
      <3>1. \A x \in Callers : HelpersIn(x)' = HelpersIn(x)
        BY <2>5 DEF Load
      <3> QED
        BY <2>5, <3>1 DEF Load
    <2>6. CASE Filter(t)
      <3>1. \A x \in Callers : HelpersIn(x)' = HelpersIn(x)
        BY <2>6 DEF Filter
      <3> QED
        BY <2>6, <3>1 DEF Filter
    <2>7. CASE Enter(t)
      <3>1. t \notin HelpersIn(on[t]) /\ HelpersIn(on[t])' = HelpersIn(on[t]) \cup {t}
        BY <2>7 DEF Enter
      <3>2. \A g \in Callers \ {on[t]} : HelpersIn(g)' = HelpersIn(g)
        BY <2>7 DEF Enter
      <3>3. Cardinality(HelpersIn(on[t]) \cup {t}) = Cardinality(HelpersIn(on[t])) + 1
        BY <3>1, CountAdd
      <3>4. on[t] \in Callers /\ on' = on /\ inside' = [inside EXCEPT ![on[t]] = @ + 1]
        BY <2>7 DEF Enter
      <3> HIDE DEF HelpersIn, HelpersExact
      <3>5. \A g \in Callers : inside[g] = Cardinality(HelpersIn(g))
        BY DEF HelpersExact
      <3>6. \A g \in Callers : inside'[g] = Cardinality(HelpersIn(g)')
        BY <3>1, <3>2, <3>3, <3>4, <3>5, SMTT(60)
      <3> QED
        BY <3>6 DEF HelpersExact
    <2>8. CASE Release(t)
      <3>1. \A x \in Callers : HelpersIn(x)' = HelpersIn(x)
        BY <2>8 DEF Release
      <3> QED
        BY <2>8, <3>1 DEF Release
    <2>9. CASE Draw(t)
      <3>1. \A x \in Callers : HelpersIn(x)' = HelpersIn(x)
        BY <2>9 DEF Draw
      <3> QED
        BY <2>9, <3>1 DEF Draw
    <2>10. CASE DrawLast(t)
      <3>1. \A x \in Callers : HelpersIn(x)' = HelpersIn(x)
        BY <2>10 DEF DrawLast
      <3> QED
        BY <2>10, <3>1 DEF DrawLast
    <2>11. CASE DrawNone(t)
      <3>1. \A x \in Callers : HelpersIn(x)' = HelpersIn(x)
        BY <2>11 DEF DrawNone, EndTake, Own
      <3> QED
        BY <2>11, <3>1 DEF DrawNone, EndTake, Own
    <2>12. CASE Uncount(t)
      <3>1. \A x \in Callers : HelpersIn(x)' = HelpersIn(x)
        BY <2>12 DEF Uncount, EndTake, Own
      <3> QED
        BY <2>12, <3>1 DEF Uncount, EndTake, Own
    <2>13. CASE Run(t)
      <3>1. \A x \in Callers : HelpersIn(x)' = HelpersIn(x)
        BY <2>13 DEF Run
      <3> QED
        BY <2>13, <3>1 DEF Run
    <2>14. CASE Unwind(t)
      <3>1. \A x \in Callers : HelpersIn(x)' = HelpersIn(x)
        BY <2>14 DEF Unwind, EndTake, Own
      <3> QED
        BY <2>14, <3>1 DEF Unwind, EndTake, Own
    <2>15. CASE CloneCaller(t)
      <3>1. \A x \in Callers : HelpersIn(x)' = HelpersIn(x)
        BY <2>15 DEF CloneCaller
      <3> QED
        BY <2>15, <3>1 DEF CloneCaller
    <2>16. CASE Leave(t)
      <3>1. on[t] \in Callers /\ t \in HelpersIn(on[t])
        BY <2>16 DEF Leave
      <3>2. \A g \in Callers : HelpersIn(g)' = HelpersIn(g) \ {t}
        BY <2>16 DEF Leave
      <3>3. \A g \in Callers \ {on[t]} : HelpersIn(g)' = HelpersIn(g)
        BY <3>2
      <3>4. Cardinality(HelpersIn(on[t]) \ {t}) = Cardinality(HelpersIn(on[t])) - 1
        BY <3>1, CountRemove
      <3>5. inside' = [inside EXCEPT ![on[t]] = @ - 1]
        BY <2>16 DEF Leave
      <3> HIDE DEF HelpersIn, HelpersExact
      <3>6. \A g \in Callers : inside[g] = Cardinality(HelpersIn(g))
        BY DEF HelpersExact
      <3>7. ASSUME NEW g \in Callers
            PROVE  inside'[g] = Cardinality(HelpersIn(g)')
        <4>1. CASE g = on[t]
          <5>1. HelpersIn(g)' = HelpersIn(g) \ {t}
            BY <3>2
          <5>2. Cardinality(HelpersIn(g) \ {t}) = inside[g] - 1
            BY <3>4, <3>6, <4>1
          <5> QED
            BY <3>5, <4>1, <5>1, <5>2
        <4>2. CASE g # on[t]
          BY <3>3, <3>5, <3>6, <4>2
        <4> QED
          BY <4>1, <4>2
      <3> QED
        BY <3>7 DEF HelpersExact
    <2> QED
      BY <1>5, <2>1, <2>2, <2>3, <2>4, <2>5, <2>6, <2>7, <2>8, <2>9, <2>10,
         <2>11, <2>12, <2>13, <2>14, <2>15, <2>16 DEF TakeStep
  <1>6. CASE UNCHANGED vars
    BY <1>6 DEF vars
  <1> QED
    BY <1>1, <1>2, <1>3, <1>4, <1>5, <1>6 DEF Next

\* Every step keeps each drawn block accounted for, by one thread.
LEMMA BlocksStep == GateInv /\ BlocksOK /\ [Next]_vars => BlocksOK'
  <1> SUFFICES ASSUME GateInv, BlocksOK, [Next]_vars
               PROVE  BlocksOK'
    OBVIOUS
  <1>0. /\ Callers \subseteq Threads /\ Hands \subseteq Threads
        /\ NoGate \notin Threads /\ Callers \cap Hands = {}
        /\ NoSlot \notin Slots
    BY GateAssumption DEF Threads, NoSlot, Slots
  <1>a. /\ cpc \in [Callers -> CallerPc]
        /\ hpc \in [Threads -> TakePc]
        /\ on \in [Threads -> Callers \cup {NoGate}]
        /\ blk \in [Threads -> Nat]
        /\ len \in [Callers -> Nat \ {0}]
        /\ next \in [Callers -> Nat]
        /\ done \in [Callers -> SUBSET Nat]
        /\ mine \in [Callers -> BOOLEAN] /\ panics \in [Callers -> BOOLEAN]
        /\ RolesOK /\ PointersOK /\ BlocksOK
    BY DEF GateInv, TypeOK
  <1> USE <1>0, <1>a DEF BlocksOK, DoneDrawn, DrawnCovered, TakeOver, Drawn, RolesOK, PointersOK, Touches, CallerPc, TakePc, takeVars, gateVars, statics
  <1>1. ASSUME NEW c \in Callers, NEW n \in 1..MaxBlocks, Deal(c, n)
        PROVE  BlocksOK'
    <2>1. \A t \in Threads : hpc[t] \in {"run", "uncount"} => on[t] \in Callers /\ on[t] # c
      BY <1>1 DEF Deal
    <2>2. \A x \in Callers : (DoneDrawn(x) /\ DrawnCovered(x) /\ TakeOver(x))'
      BY <1>1 DEF Deal
    <2>3. \A t \in Threads : Drawn(t)'
      BY <1>1, <2>1 DEF Deal
    <2> QED
      BY <2>2, <2>3
  <1>2. ASSUME NEW c \in Callers, CallerStep(c)
        PROVE  BlocksOK'
    <2>1. CASE CountOpen(c)
      BY <2>1 DEF CountOpen
    <2>2. CASE Publish(c)
      BY <2>2 DEF Publish, StartTake
    <2>3. CASE PublishNext(c)
      BY <2>3 DEF PublishNext
    <2>4. CASE PublishNone(c)
      BY <2>4 DEF PublishNone, StartTake, NoSlot
    <2>5. CASE Withdraw(c)
      BY <2>5 DEF Withdraw
    <2>6. CASE Drain(c)
      BY <2>6 DEF Drain
    <2>7. CASE Await(c)
      BY <2>7 DEF Await
    <2>8. CASE Return(c)
      BY <2>8 DEF Return, NoSlot
    <2> QED
      BY <1>2, <2>1, <2>2, <2>3, <2>4, <2>5, <2>6, <2>7, <2>8 DEF CallerStep
  <1>3. ASSUME NEW c \in Callers, CallerPoll(c)
        PROVE  BlocksOK'
    BY <1>3 DEF CallerPoll, BeginScan
  <1>4. ASSUME NEW h \in Hands, HandPoll(h)
        PROVE  BlocksOK'
    BY <1>4 DEF HandPoll, BeginScan
  <1>5. ASSUME NEW t \in Threads, TakeStep(t)
        PROVE  BlocksOK'
    <2>1. CASE Skip(t)
      BY <2>1 DEF Skip
    <2>2. CASE Peek(t)
      BY <2>2 DEF Peek
    <2>3. CASE ScanEnd(t)
      BY <2>3 DEF ScanEnd
    <2>4. CASE Hold(t)
      BY <2>4 DEF Hold
    <2>5. CASE Load(t)
      BY <2>5 DEF Load
    <2>6. CASE Filter(t)
      BY <2>6 DEF Filter
    <2>7. CASE Enter(t)
      BY <2>7 DEF Enter
    <2>8. CASE Release(t)
      BY <2>8 DEF Release
    <2>9. CASE Draw(t)
      <3>1. on[t] \in Callers
        BY <2>9 DEF Draw
      <3>2. \A x \in Callers : DoneDrawn(x)' /\ TakeOver(x)'
        BY <2>9 DEF Draw
      <3>3. ASSUME NEW x \in Callers PROVE DrawnCovered(x)'
        <4>1. hpc'[t] = "run" /\ on'[t] = on[t] /\ blk'[t] = next[on[t]]
          BY <2>9 DEF Draw
        <4>2. \A u \in Threads : hpc[u] = "run" => hpc'[u] = "run" /\ on'[u] = on[u] /\ blk'[u] = blk[u]
          BY <2>9 DEF Draw
        <4> QED
          <5>1. next' = [next EXCEPT ![on[t]] = @ + 1] /\ UNCHANGED <<cpc, len, done, mine, panics>>
            BY <2>9 DEF Draw
          <5>2. ASSUME cpc[x] # "idle", NEW b \in 0..(len[x] - 1), b < next'[x],
                       ~(b \in done[x] \/ mine[x] \/ panics[x])
                PROVE  \E u \in Threads : hpc'[u] = "run" /\ on'[u] = x /\ blk'[u] = b
            <6>1. CASE b < next[x]
              BY <4>2, <5>2, <6>1
            <6>2. CASE ~(b < next[x])
              <7>1. x = on[t] /\ b = next[x]
                BY <3>1, <5>1, <5>2, <6>2
              <7> QED
                BY <4>1, <7>1
            <6> QED
              BY <6>1, <6>2
          <5> QED
            BY <5>1, <5>2
      <3>4. \A u \in Threads : Drawn(u)'
        BY <2>9, <3>1 DEF Draw
      <3> QED
        BY <3>2, <3>3, <3>4
    <2>10. CASE DrawLast(t)
      BY <2>10 DEF DrawLast
    <2>11. CASE DrawNone(t)
      BY <2>11, SMTT(60) DEF DrawNone, EndTake, Own
    <2>12. CASE Uncount(t)
      <3>1. CASE Own(t)
        <4>1. \A x \in Callers : DoneDrawn(x)' /\ TakeOver(x)'
          BY <2>12, <3>1 DEF Uncount, EndTake, Own
        <4>2. \A x \in Callers : DrawnCovered(x)'
          <5>1. /\ UNCHANGED <<next, len, done, mine, panics, blk>>
                /\ \A u \in Threads : u # t => hpc'[u] = hpc[u] /\ on'[u] = on[u]
                /\ hpc[t] # "run"
            BY <2>12, <3>1 DEF Uncount, EndTake
          <5>2. \A x \in Callers : cpc'[x] # "idle" => cpc[x] # "idle"
            BY <2>12, <3>1 DEF Uncount, EndTake
          <5>3. ASSUME NEW x \in Callers, cpc'[x] # "idle",
                       NEW b \in 0..(len[x] - 1), b < next[x],
                       ~(b \in done[x] \/ mine[x] \/ panics[x])
                PROVE  \E u \in Threads : hpc'[u] = "run" /\ on'[u] = x /\ blk[u] = b
            <6>1. PICK u \in Threads : hpc[u] = "run" /\ on[u] = x /\ blk[u] = b
              BY <5>2, <5>3
            <6> QED
              BY <5>1, <6>1
          <5> QED
            BY <5>1, <5>3
        <4>3. \A u \in Threads : Drawn(u)'
          BY <2>12, <3>1 DEF Uncount, EndTake, Own
        <4> QED
          BY <4>1, <4>2, <4>3
      <3>2. CASE ~Own(t)
        BY <2>12, <3>2 DEF Uncount, EndTake
      <3> QED
        BY <3>1, <3>2
    <2>13. CASE Run(t)
      BY <2>13 DEF Run
    <2>14. CASE Unwind(t)
      <3>1. CASE Own(t)
        <4>0. /\ t \in Callers /\ mine' = [mine EXCEPT ![t] = TRUE]
              /\ UNCHANGED <<panics, len, next, done>> /\ blk' = [blk EXCEPT ![t] = 0]
              /\ hpc' = [hpc EXCEPT ![t] = "off"] /\ on' = [on EXCEPT ![t] = NoGate]
              /\ \A x \in Callers : x # t => cpc'[x] = cpc[x]
              /\ cpc[t] # "idle"
          BY <2>14, <3>1 DEF Unwind, EndTake, Own
        <4>1. \A x \in Callers : DoneDrawn(x)' /\ DrawnCovered(x)' /\ TakeOver(x)'
          BY <3>1, <4>0 DEF Own
        <4>2. \A u \in Threads : Drawn(u)'
          BY <2>14, <3>1 DEF Unwind, EndTake, Own
        <4> QED
          BY <4>1, <4>2
      <3>2. CASE ~Own(t)
        <4>1. \A x \in Callers : DoneDrawn(x)' /\ DrawnCovered(x)' /\ TakeOver(x)'
          BY <2>14, <3>2, SMTT(60) DEF Unwind, EndTake
        <4>2. \A u \in Threads : Drawn(u)'
          BY <2>14, <3>2 DEF Unwind, EndTake
        <4> QED
          BY <4>1, <4>2
      <3> QED
        BY <3>1, <3>2
    <2>15. CASE CloneCaller(t)
      BY <2>15 DEF CloneCaller
    <2>16. CASE Leave(t)
      BY <2>16 DEF Leave
    <2> QED
      BY <1>5, <2>1, <2>2, <2>3, <2>4, <2>5, <2>6, <2>7, <2>8, <2>9, <2>10,
         <2>11, <2>12, <2>13, <2>14, <2>15, <2>16 DEF TakeStep
  <1>6. CASE UNCHANGED vars
    BY <1>6 DEF vars
  <1> QED
    BY <1>1, <1>2, <1>3, <1>4, <1>5, <1>6 DEF Next

-----------------------------------------------------------------------------
(* The two statics *)

\* The offers that count in ALMIDE_FAN_OPEN_BLOCKS until a draw runs past their
\* end, and the threads that made that draw and have still to uncount.
OpenOffers == {c \in Callers : counted[c] /\ next[c] <= len[c]}
Uncounters == {t \in Threads : hpc[t] = "uncount"}

\* The callers and the hands that count in ALMIDE_FAN_RUNNING.
RunningCallers == {c \in Callers : SameRoot \/ cpc[c] # "idle"}
RunningHands == {h \in Hands : hpc[h] # "off"}
RunningOK == running = Cardinality(RunningCallers) + Cardinality(RunningHands)

\* Which offers are counted: one that scans for a slot is, and has dealt nothing
\* yet; one whose caller's take is over is not any more, unless an element
\* unwound; a thread about to uncount has seen the offer past its end.
CountedOK ==
  /\ \A c \in Callers : /\ cpc[c] = "count" => ~counted[c] /\ next[c] = 0
                        /\ cpc[c] = "publish" => counted[c] /\ next[c] = 0
                        /\ unwinds = 0 /\ cpc[c] \notin {"publish", "take"} => c \notin OpenOffers
  /\ \A t \in Threads : hpc[t] = "uncount" => next[on[t]] > len[on[t]]

\* The open count covers them all, and is exactly theirs while nothing unwound.
OpenOK ==
  /\ openBlocks >= Cardinality(OpenOffers) + Cardinality(Uncounters)
  /\ unwinds = 0 => openBlocks = Cardinality(OpenOffers) + Cardinality(Uncounters)

GlobalsInv == RunningOK /\ CountedOK /\ OpenOK

\* Every step keeps CountedOK (almide_fan_publish, AlmideFanGate::draw).
LEMMA CountedStep == GateInv /\ CountedOK /\ [Next]_vars => CountedOK'
  <1> SUFFICES ASSUME GateInv, CountedOK, [Next]_vars
               PROVE  CountedOK'
    OBVIOUS
  <1>0. /\ Callers \subseteq Threads /\ Hands \subseteq Threads
        /\ NoGate \notin Threads /\ Callers \cap Hands = {}
    BY GateAssumption DEF Threads
  <1>a. /\ cpc \in [Callers -> CallerPc] /\ hpc \in [Threads -> TakePc]
        /\ on \in [Threads -> Callers \cup {NoGate}]
        /\ next \in [Callers -> Nat] /\ len \in [Callers -> Nat \ {0}]
        /\ counted \in [Callers -> BOOLEAN] /\ unwinds \in Nat
        /\ RolesOK /\ PointersOK /\ CountedOK
    BY DEF GateInv, TypeOK
  <1>b. \A t \in Threads : Touches(t) => on[t] \in Callers /\ cpc[on[t]] \in {"take", "clear", "drain", "wait"}
    BY <1>0, <1>a DEF RolesOK, PointersOK, Touches
  <1> USE <1>0, <1>a, <1>b DEF CountedOK, OpenOffers, RolesOK, Touches, CallerPc, TakePc, takeVars, gateVars, statics
  <1>1. ASSUME NEW c \in Callers, NEW n \in 1..MaxBlocks, Deal(c, n)
        PROVE  CountedOK'
    BY <1>1 DEF Deal
  <1>2. ASSUME NEW c \in Callers, CallerStep(c)
        PROVE  CountedOK'
    <2>1. CASE CountOpen(c)
      BY <2>1 DEF CountOpen
    <2>2. CASE Publish(c)
      BY <2>2 DEF Publish, StartTake
    <2>3. CASE PublishNext(c)
      BY <2>3 DEF PublishNext
    <2>4. CASE PublishNone(c)
      BY <2>4 DEF PublishNone, StartTake
    <2>5. CASE Withdraw(c)
      BY <2>5 DEF Withdraw
    <2>6. CASE Drain(c)
      BY <2>6 DEF Drain
    <2>7. CASE Await(c)
      BY <2>7 DEF Await
    <2>8. CASE Return(c)
      BY <2>8 DEF Return
    <2> QED
      BY <1>2, <2>1, <2>2, <2>3, <2>4, <2>5, <2>6, <2>7, <2>8 DEF CallerStep
  <1>3. ASSUME NEW c \in Callers, CallerPoll(c)
        PROVE  CountedOK'
    BY <1>3 DEF CallerPoll, BeginScan
  <1>4. ASSUME NEW h \in Hands, HandPoll(h)
        PROVE  CountedOK'
    BY <1>4 DEF HandPoll, BeginScan
  <1>5. ASSUME NEW t \in Threads, TakeStep(t)
        PROVE  CountedOK'
    <2>1. CASE Skip(t)
      BY <2>1 DEF Skip
    <2>2. CASE Peek(t)
      BY <2>2 DEF Peek
    <2>3. CASE ScanEnd(t)
      BY <2>3 DEF ScanEnd, DropRunning
    <2>4. CASE Hold(t)
      BY <2>4 DEF Hold
    <2>5. CASE Load(t)
      BY <2>5 DEF Load
    <2>6. CASE Filter(t)
      BY <2>6 DEF Filter
    <2>7. CASE Enter(t)
      BY <2>7 DEF Enter
    <2>8. CASE Release(t)
      BY <2>8 DEF Release
    <2>9. CASE Draw(t)
      BY <2>9 DEF Draw
    <2>10. CASE DrawLast(t)
      BY <2>10 DEF DrawLast
    <2>11. CASE DrawNone(t)
      BY <2>11 DEF DrawNone, EndTake, Own
    <2>12. CASE Uncount(t)
      BY <2>12 DEF Uncount, EndTake, Own
    <2>13. CASE Run(t)
      BY <2>13 DEF Run
    <2>14. CASE Unwind(t)
      BY <2>14 DEF Unwind, EndTake, Own
    <2>15. CASE CloneCaller(t)
      BY <2>15 DEF CloneCaller
    <2>16. CASE Leave(t)
      BY <2>16 DEF Leave, DropRunning
    <2> QED
      BY <1>5, <2>1, <2>2, <2>3, <2>4, <2>5, <2>6, <2>7, <2>8, <2>9, <2>10,
         <2>11, <2>12, <2>13, <2>14, <2>15, <2>16 DEF TakeStep
  <1>6. CASE UNCHANGED vars
    BY <1>6 DEF vars
  <1> QED
    BY <1>1, <1>2, <1>3, <1>4, <1>5, <1>6 DEF Next

\* Every step keeps ALMIDE_FAN_RUNNING exact (AlmideFanRunning's new and drop).
LEMMA RunningStep == GateInv /\ RunningOK /\ [Next]_vars => RunningOK'
  <1> SUFFICES ASSUME GateInv, RunningOK, [Next]_vars
               PROVE  RunningOK'
    OBVIOUS
  <1>0. /\ Callers \subseteq Threads /\ Hands \subseteq Threads
        /\ NoGate \notin Threads /\ Callers \cap Hands = {}
    BY GateAssumption DEF Threads
  <1>a. /\ cpc \in [Callers -> CallerPc] /\ hpc \in [Threads -> TakePc]
        /\ on \in [Threads -> Callers \cup {NoGate}] /\ RolesOK
        /\ running \in Int
    BY DEF GateInv, TypeOK
  <1>c. RunningCallers \in SUBSET Threads /\ RunningHands \in SUBSET Threads
    BY <1>0 DEF RunningCallers, RunningHands
  <1>d. Cardinality(RunningCallers) \in Nat /\ Cardinality(RunningHands) \in Nat
    BY <1>c, ThreadsFinite, FS_Subset, FS_CardinalityType
  <1>e. running = Cardinality(RunningCallers) + Cardinality(RunningHands)
    BY DEF RunningOK
  <1>f. SUFFICES running' = Cardinality(RunningCallers') + Cardinality(RunningHands')
    BY DEF RunningOK
  <1> USE <1>0, <1>a, <1>e DEF RolesOK, Touches, CallerPc, TakePc, takeVars, gateVars, statics
  <1>1. ASSUME NEW c \in Callers, NEW n \in 1..MaxBlocks, Deal(c, n)
        PROVE  running' = Cardinality(RunningCallers') + Cardinality(RunningHands')
    <2>1. RunningHands' = RunningHands
      BY <1>1 DEF Deal, RunningCallers, RunningHands
    <2>2. CASE SameRoot
      <3>1. RunningCallers' = RunningCallers /\ running' = running
        BY <1>1, <2>2 DEF Deal, RunningCallers, RunningHands, CallerDepth
      <3> QED
        BY <2>1, <3>1
    <2>3. CASE ~SameRoot
      <3>1. c \notin RunningCallers /\ running' = running + 1
        BY <1>1, <2>3 DEF Deal, RunningCallers, RunningHands, CallerDepth
      <3>2. RunningCallers' = RunningCallers \cup {c}
        BY <1>1, <2>3 DEF Deal, RunningCallers, RunningHands
      <3>3. Cardinality(RunningCallers') = Cardinality(RunningCallers) + 1
        BY <3>1, <3>2, <1>c, CountAdd
      <3> QED
        BY <2>1, <3>1, <3>3, <1>d
    <2> QED
      BY <2>2, <2>3
  <1>2. ASSUME NEW c \in Callers, CallerStep(c)
        PROVE  running' = Cardinality(RunningCallers') + Cardinality(RunningHands')
    <2>1. CASE CountOpen(c)
      <3>r. RunningCallers' = RunningCallers /\ RunningHands' = RunningHands /\ running' = running
        BY <2>1 DEF CountOpen, RunningCallers, RunningHands
      <3> QED
        BY <3>r
    <2>2. CASE Publish(c)
      <3>r. RunningCallers' = RunningCallers /\ RunningHands' = RunningHands /\ running' = running
        BY <2>2 DEF Publish, StartTake, RunningCallers, RunningHands
      <3> QED
        BY <3>r
    <2>3. CASE PublishNext(c)
      <3>r. RunningCallers' = RunningCallers /\ RunningHands' = RunningHands /\ running' = running
        BY <2>3 DEF PublishNext, RunningCallers, RunningHands
      <3> QED
        BY <3>r
    <2>4. CASE PublishNone(c)
      <3>r. RunningCallers' = RunningCallers /\ RunningHands' = RunningHands /\ running' = running
        BY <2>4 DEF PublishNone, StartTake, RunningCallers, RunningHands
      <3> QED
        BY <3>r
    <2>5. CASE Withdraw(c)
      <3>r. RunningCallers' = RunningCallers /\ RunningHands' = RunningHands /\ running' = running
        BY <2>5 DEF Withdraw, RunningCallers, RunningHands
      <3> QED
        BY <3>r
    <2>6. CASE Drain(c)
      <3>r. RunningCallers' = RunningCallers /\ RunningHands' = RunningHands /\ running' = running
        BY <2>6 DEF Drain, RunningCallers, RunningHands
      <3> QED
        BY <3>r
    <2>7. CASE Await(c)
      <3>r. RunningCallers' = RunningCallers /\ RunningHands' = RunningHands /\ running' = running
        BY <2>7 DEF Await, RunningCallers, RunningHands
      <3> QED
        BY <3>r
    <2>8. CASE Return(c)
      <3>1. RunningHands' = RunningHands
        BY <2>8 DEF Return, RunningCallers, RunningHands
      <3>2. CASE SameRoot
        <4>1. RunningCallers' = RunningCallers /\ running' = running
          BY <2>8, <3>2 DEF Return, RunningCallers, RunningHands, CallerDepth
        <4> QED
          BY <3>1, <4>1
      <3>3. CASE ~SameRoot
        <4>1. c \in RunningCallers /\ running' = running - 1
          BY <2>8, <3>3 DEF Return, RunningCallers, RunningHands, CallerDepth
        <4>2. RunningCallers' = RunningCallers \ {c}
          BY <2>8, <3>3 DEF Return, RunningCallers, RunningHands
        <4>3. Cardinality(RunningCallers') = Cardinality(RunningCallers) - 1
          BY <4>1, <4>2, <1>c, CountRemove
        <4> QED
          BY <3>1, <4>1, <4>3, <1>d
      <3> QED
        BY <3>2, <3>3
    <2> QED
      BY <1>2, <2>1, <2>2, <2>3, <2>4, <2>5, <2>6, <2>7, <2>8 DEF CallerStep
  <1>3. ASSUME NEW c \in Callers, CallerPoll(c)
        PROVE  running' = Cardinality(RunningCallers') + Cardinality(RunningHands')
    <2>r. RunningCallers' = RunningCallers /\ RunningHands' = RunningHands /\ running' = running
      BY <1>3 DEF CallerPoll, BeginScan, RunningCallers, RunningHands
    <2> QED
      BY <2>r
  <1>4. ASSUME NEW h \in Hands, HandPoll(h)
        PROVE  running' = Cardinality(RunningCallers') + Cardinality(RunningHands')
    <2>1. h \notin RunningHands /\ running' = running + 1
      BY <1>4 DEF RunningCallers, RunningHands, HandPoll
    <2>2. RunningHands' = RunningHands \cup {h} /\ RunningCallers' = RunningCallers
      BY <1>4 DEF RunningCallers, RunningHands, HandPoll, BeginScan
    <2>3. Cardinality(RunningHands') = Cardinality(RunningHands) + 1
      BY <2>1, <2>2, <1>c, CountAdd
    <2> QED
      BY <2>1, <2>2, <2>3, <1>d
  <1>5. ASSUME NEW t \in Threads, TakeStep(t)
        PROVE  running' = Cardinality(RunningCallers') + Cardinality(RunningHands')
    <2>1. CASE Skip(t)
      <3>r. RunningCallers' = RunningCallers /\ RunningHands' = RunningHands /\ running' = running
        BY <2>1 DEF Skip, RunningCallers, RunningHands
      <3> QED
        BY <3>r
    <2>2. CASE Peek(t)
      <3>r. RunningCallers' = RunningCallers /\ RunningHands' = RunningHands /\ running' = running
        BY <2>2 DEF Peek, RunningCallers, RunningHands
      <3> QED
        BY <3>r
    <2>3. CASE ScanEnd(t)
      <3>1. RunningCallers' = RunningCallers
        BY <2>3 DEF ScanEnd, RunningCallers, RunningHands
      <3>2. CASE t \in Hands
        <4>1. t \in RunningHands /\ running' = running - 1
          BY <2>3, <3>2 DEF ScanEnd, RunningCallers, RunningHands, DropRunning
        <4>2. RunningHands' = RunningHands \ {t}
          BY <2>3, <3>2 DEF ScanEnd, RunningCallers, RunningHands
        <4>3. Cardinality(RunningHands') = Cardinality(RunningHands) - 1
          BY <4>1, <4>2, <1>c, CountRemove
        <4> QED
          BY <3>1, <4>1, <4>3, <1>d
      <3>3. CASE t \notin Hands
        <4>1. RunningHands' = RunningHands /\ running' = running
          BY <2>3, <3>3 DEF ScanEnd, RunningCallers, RunningHands, DropRunning
        <4> QED
          BY <3>1, <4>1
      <3> QED
        BY <3>2, <3>3
    <2>4. CASE Hold(t)
      <3>r. RunningCallers' = RunningCallers /\ RunningHands' = RunningHands /\ running' = running
        BY <2>4 DEF Hold, RunningCallers, RunningHands
      <3> QED
        BY <3>r
    <2>5. CASE Load(t)
      <3>r. RunningCallers' = RunningCallers /\ RunningHands' = RunningHands /\ running' = running
        BY <2>5 DEF Load, RunningCallers, RunningHands
      <3> QED
        BY <3>r
    <2>6. CASE Filter(t)
      <3>r. RunningCallers' = RunningCallers /\ RunningHands' = RunningHands /\ running' = running
        BY <2>6 DEF Filter, RunningCallers, RunningHands
      <3> QED
        BY <3>r
    <2>7. CASE Enter(t)
      <3>r. RunningCallers' = RunningCallers /\ RunningHands' = RunningHands /\ running' = running
        BY <2>7 DEF Enter, RunningCallers, RunningHands
      <3> QED
        BY <3>r
    <2>8. CASE Release(t)
      <3>r. RunningCallers' = RunningCallers /\ RunningHands' = RunningHands /\ running' = running
        BY <2>8 DEF Release, RunningCallers, RunningHands
      <3> QED
        BY <3>r
    <2>9. CASE Draw(t)
      <3>r. RunningCallers' = RunningCallers /\ RunningHands' = RunningHands /\ running' = running
        BY <2>9 DEF Draw, RunningCallers, RunningHands
      <3> QED
        BY <3>r
    <2>10. CASE DrawLast(t)
      <3>r. RunningCallers' = RunningCallers /\ RunningHands' = RunningHands /\ running' = running
        BY <2>10 DEF DrawLast, RunningCallers, RunningHands
      <3> QED
        BY <3>r
    <2>11. CASE DrawNone(t)
      <3>r. RunningCallers' = RunningCallers /\ RunningHands' = RunningHands /\ running' = running
        BY <2>11 DEF DrawNone, EndTake, Own, RunningCallers, RunningHands
      <3> QED
        BY <3>r
    <2>12. CASE Uncount(t)
      <3>r. RunningCallers' = RunningCallers /\ RunningHands' = RunningHands /\ running' = running
        BY <2>12 DEF Uncount, EndTake, Own, RunningCallers, RunningHands
      <3> QED
        BY <3>r
    <2>13. CASE Run(t)
      <3>r. RunningCallers' = RunningCallers /\ RunningHands' = RunningHands /\ running' = running
        BY <2>13 DEF Run, RunningCallers, RunningHands
      <3> QED
        BY <3>r
    <2>14. CASE Unwind(t)
      <3>r. RunningCallers' = RunningCallers /\ RunningHands' = RunningHands /\ running' = running
        BY <2>14 DEF Unwind, EndTake, Own, RunningCallers, RunningHands
      <3> QED
        BY <3>r
    <2>15. CASE CloneCaller(t)
      <3>r. RunningCallers' = RunningCallers /\ RunningHands' = RunningHands /\ running' = running
        BY <2>15 DEF CloneCaller, RunningCallers, RunningHands
      <3> QED
        BY <3>r
    <2>16. CASE Leave(t)
      <3>1. RunningCallers' = RunningCallers
        BY <2>16 DEF Leave, RunningCallers, RunningHands
      <3>2. CASE t \in Hands
        <4>1. t \in RunningHands /\ running' = running - 1
          BY <2>16, <3>2 DEF Leave, RunningCallers, RunningHands, DropRunning
        <4>2. RunningHands' = RunningHands \ {t}
          BY <2>16, <3>2 DEF Leave, RunningCallers, RunningHands
        <4>3. Cardinality(RunningHands') = Cardinality(RunningHands) - 1
          BY <4>1, <4>2, <1>c, CountRemove
        <4> QED
          BY <3>1, <4>1, <4>3, <1>d
      <3>3. CASE t \notin Hands
        <4>1. RunningHands' = RunningHands /\ running' = running
          BY <2>16, <3>3 DEF Leave, RunningCallers, RunningHands, DropRunning
        <4> QED
          BY <3>1, <4>1
      <3> QED
        BY <3>2, <3>3
    <2> QED
      BY <1>5, <2>1, <2>2, <2>3, <2>4, <2>5, <2>6, <2>7, <2>8, <2>9, <2>10,
         <2>11, <2>12, <2>13, <2>14, <2>15, <2>16 DEF TakeStep
  <1>6. CASE UNCHANGED vars
    <2>r. RunningCallers' = RunningCallers /\ RunningHands' = RunningHands /\ running' = running
      BY <1>6 DEF vars, RunningCallers, RunningHands
    <2> QED
      BY <2>r
  <1> QED
    BY <1>1, <1>2, <1>3, <1>4, <1>5, <1>6 DEF Next

\* Every step keeps ALMIDE_FAN_OPEN_BLOCKS (almide_fan_deal's count, its way back
\* when no slot is free, and the draw that runs past the end).
LEMMA OpenStep == GateInv /\ CountedOK /\ OpenOK /\ [Next]_vars => OpenOK'
  <1> SUFFICES ASSUME GateInv, CountedOK, OpenOK, [Next]_vars
               PROVE  OpenOK'
    OBVIOUS
  <1>0. /\ Callers \subseteq Threads /\ Hands \subseteq Threads
        /\ NoGate \notin Threads /\ Callers \cap Hands = {}
    BY GateAssumption DEF Threads
  <1>a. /\ cpc \in [Callers -> CallerPc] /\ hpc \in [Threads -> TakePc]
        /\ on \in [Threads -> Callers \cup {NoGate}]
        /\ next \in [Callers -> Nat] /\ len \in [Callers -> Nat \ {0}]
        /\ counted \in [Callers -> BOOLEAN] /\ unwinds \in Nat /\ openBlocks \in Int
        /\ \A t \in Threads : Touches(t) => on[t] \in Callers
    BY DEF GateInv, TypeOK, RolesOK
  <1>b. \A c \in Callers : /\ cpc[c] = "count" => ~counted[c] /\ next[c] = 0
                           /\ cpc[c] = "publish" => counted[c] /\ next[c] = 0 /\ hpc[c] = "off"
                           /\ unwinds = 0 /\ cpc[c] = "idle" => c \notin OpenOffers
    BY DEF CountedOK, GateInv, RolesOK
  <1>c. OpenOffers \in SUBSET Threads /\ Uncounters \in SUBSET Threads
    BY <1>0 DEF OpenOffers, Uncounters
  <1>d. Cardinality(OpenOffers) \in Nat /\ Cardinality(Uncounters) \in Nat
    BY <1>c, ThreadsFinite, FS_Subset, FS_CardinalityType
  <1>e. OpenOK
    OBVIOUS
  <1> USE <1>0, <1>a, <1>b, <1>e DEF OpenOK, Touches, CallerPc, TakePc, takeVars, gateVars, statics
  <1>1. ASSUME NEW c \in Callers, NEW n \in 1..MaxBlocks, Deal(c, n)
        PROVE  OpenOK'
    <2>1. openBlocks' = openBlocks /\ unwinds' = unwinds /\ (unwinds = 0 => c \notin OpenOffers)
      BY <1>1 DEF Deal
    <2>2. OpenOffers' = OpenOffers \ {c} /\ Uncounters' = Uncounters
      BY <1>1 DEF Deal, OpenOffers, Uncounters
    <2>3. CASE c \in OpenOffers
      <3>1. Cardinality(OpenOffers') = Cardinality(OpenOffers) - 1
        BY <2>2, <2>3, <1>c, CountRemove
      <3> QED
        BY <2>1, <2>2, <2>3, <3>1, <1>d
    <2>4. CASE c \notin OpenOffers
      <3>1. OpenOffers' = OpenOffers
        BY <2>2, <2>4
      <3> QED
        BY <2>1, <2>2, <3>1
    <2> QED
      BY <2>3, <2>4
  <1>2. ASSUME NEW c \in Callers, CallerStep(c)
        PROVE  OpenOK'
    <2>1. CASE CountOpen(c)
      <3>1. c \notin OpenOffers /\ openBlocks' = openBlocks + 1 /\ unwinds' = unwinds
        BY <2>1 DEF CountOpen, OpenOffers
      <3>2. OpenOffers' = OpenOffers \cup {c} /\ Uncounters' = Uncounters
        BY <2>1 DEF CountOpen, OpenOffers, Uncounters
      <3>3. Cardinality(OpenOffers') = Cardinality(OpenOffers) + 1
        BY <3>1, <3>2, <1>c, CountAdd
      <3> QED
        BY <3>1, <3>2, <3>3, <1>d
    <2>2. CASE Publish(c)
      <3>r. /\ OpenOffers' = OpenOffers /\ Uncounters' = Uncounters
            /\ openBlocks' = openBlocks /\ (unwinds' = 0 => unwinds = 0)
        BY <2>2 DEF Publish, StartTake, OpenOffers, Uncounters
      <3> QED
        BY <3>r
    <2>3. CASE PublishNext(c)
      <3>r. /\ OpenOffers' = OpenOffers /\ Uncounters' = Uncounters
            /\ openBlocks' = openBlocks /\ (unwinds' = 0 => unwinds = 0)
        BY <2>3 DEF PublishNext, OpenOffers, Uncounters
      <3> QED
        BY <3>r
    <2>4. CASE PublishNone(c)
      <3>1. c \in OpenOffers /\ openBlocks' = openBlocks - 1 /\ unwinds' = unwinds
        BY <2>4 DEF PublishNone, OpenOffers
      <3>2. OpenOffers' = OpenOffers \ {c} /\ Uncounters' = Uncounters
        BY <2>4 DEF PublishNone, StartTake, OpenOffers, Uncounters
      <3>3. Cardinality(OpenOffers') = Cardinality(OpenOffers) - 1
        BY <3>1, <3>2, <1>c, CountRemove
      <3> QED
        BY <3>1, <3>2, <3>3, <1>d
    <2>5. CASE Withdraw(c)
      <3>r. /\ OpenOffers' = OpenOffers /\ Uncounters' = Uncounters
            /\ openBlocks' = openBlocks /\ (unwinds' = 0 => unwinds = 0)
        BY <2>5 DEF Withdraw, OpenOffers, Uncounters
      <3> QED
        BY <3>r
    <2>6. CASE Drain(c)
      <3>r. /\ OpenOffers' = OpenOffers /\ Uncounters' = Uncounters
            /\ openBlocks' = openBlocks /\ (unwinds' = 0 => unwinds = 0)
        BY <2>6 DEF Drain, OpenOffers, Uncounters
      <3> QED
        BY <3>r
    <2>7. CASE Await(c)
      <3>r. /\ OpenOffers' = OpenOffers /\ Uncounters' = Uncounters
            /\ openBlocks' = openBlocks /\ (unwinds' = 0 => unwinds = 0)
        BY <2>7 DEF Await, OpenOffers, Uncounters
      <3> QED
        BY <3>r
    <2>8. CASE Return(c)
      <3>r. /\ OpenOffers' = OpenOffers /\ Uncounters' = Uncounters
            /\ openBlocks' = openBlocks /\ (unwinds' = 0 => unwinds = 0)
        BY <2>8 DEF Return, OpenOffers, Uncounters
      <3> QED
        BY <3>r
    <2> QED
      BY <1>2, <2>1, <2>2, <2>3, <2>4, <2>5, <2>6, <2>7, <2>8 DEF CallerStep
  <1>3. ASSUME NEW c \in Callers, CallerPoll(c)
        PROVE  OpenOK'
    <2>r. /\ OpenOffers' = OpenOffers /\ Uncounters' = Uncounters
          /\ openBlocks' = openBlocks /\ (unwinds' = 0 => unwinds = 0)
      BY <1>3 DEF CallerPoll, BeginScan, OpenOffers, Uncounters
    <2> QED
      BY <2>r
  <1>4. ASSUME NEW h \in Hands, HandPoll(h)
        PROVE  OpenOK'
    <2>r. /\ OpenOffers' = OpenOffers /\ Uncounters' = Uncounters
          /\ openBlocks' = openBlocks /\ (unwinds' = 0 => unwinds = 0)
      BY <1>4 DEF HandPoll, BeginScan, OpenOffers, Uncounters
    <2> QED
      BY <2>r
  <1>5. ASSUME NEW t \in Threads, TakeStep(t)
        PROVE  OpenOK'
    <2>1. CASE Skip(t)
      <3>r. /\ OpenOffers' = OpenOffers /\ Uncounters' = Uncounters
            /\ openBlocks' = openBlocks /\ (unwinds' = 0 => unwinds = 0)
        BY <2>1 DEF Skip, OpenOffers, Uncounters
      <3> QED
        BY <3>r
    <2>2. CASE Peek(t)
      <3>r. /\ OpenOffers' = OpenOffers /\ Uncounters' = Uncounters
            /\ openBlocks' = openBlocks /\ (unwinds' = 0 => unwinds = 0)
        BY <2>2 DEF Peek, OpenOffers, Uncounters
      <3> QED
        BY <3>r
    <2>3. CASE ScanEnd(t)
      <3>r. /\ OpenOffers' = OpenOffers /\ Uncounters' = Uncounters
            /\ openBlocks' = openBlocks /\ (unwinds' = 0 => unwinds = 0)
        BY <2>3 DEF ScanEnd, DropRunning, OpenOffers, Uncounters
      <3> QED
        BY <3>r
    <2>4. CASE Hold(t)
      <3>r. /\ OpenOffers' = OpenOffers /\ Uncounters' = Uncounters
            /\ openBlocks' = openBlocks /\ (unwinds' = 0 => unwinds = 0)
        BY <2>4 DEF Hold, OpenOffers, Uncounters
      <3> QED
        BY <3>r
    <2>5. CASE Load(t)
      <3>r. /\ OpenOffers' = OpenOffers /\ Uncounters' = Uncounters
            /\ openBlocks' = openBlocks /\ (unwinds' = 0 => unwinds = 0)
        BY <2>5 DEF Load, OpenOffers, Uncounters
      <3> QED
        BY <3>r
    <2>6. CASE Filter(t)
      <3>r. /\ OpenOffers' = OpenOffers /\ Uncounters' = Uncounters
            /\ openBlocks' = openBlocks /\ (unwinds' = 0 => unwinds = 0)
        BY <2>6 DEF Filter, OpenOffers, Uncounters
      <3> QED
        BY <3>r
    <2>7. CASE Enter(t)
      <3>r. /\ OpenOffers' = OpenOffers /\ Uncounters' = Uncounters
            /\ openBlocks' = openBlocks /\ (unwinds' = 0 => unwinds = 0)
        BY <2>7 DEF Enter, OpenOffers, Uncounters
      <3> QED
        BY <3>r
    <2>8. CASE Release(t)
      <3>r. /\ OpenOffers' = OpenOffers /\ Uncounters' = Uncounters
            /\ openBlocks' = openBlocks /\ (unwinds' = 0 => unwinds = 0)
        BY <2>8 DEF Release, OpenOffers, Uncounters
      <3> QED
        BY <3>r
    <2>9. CASE Draw(t)
      <3>r. /\ OpenOffers' = OpenOffers /\ Uncounters' = Uncounters
            /\ openBlocks' = openBlocks /\ (unwinds' = 0 => unwinds = 0)
        BY <2>9 DEF Draw, OpenOffers, Uncounters
      <3> QED
        BY <3>r
    <2>10. CASE DrawLast(t)
      <3>1. /\ on[t] \in OpenOffers /\ t \notin Uncounters
            /\ openBlocks' = openBlocks /\ unwinds' = unwinds
        BY <2>10 DEF DrawLast, OpenOffers, Uncounters
      <3>2. OpenOffers' = OpenOffers \ {on[t]} /\ Uncounters' = Uncounters \cup {t}
        BY <2>10 DEF DrawLast, OpenOffers, Uncounters
      <3>3. Cardinality(OpenOffers') = Cardinality(OpenOffers) - 1
        BY <3>1, <3>2, <1>c, CountRemove
      <3>4. Cardinality(Uncounters') = Cardinality(Uncounters) + 1
        BY <3>1, <3>2, <1>c, CountAdd
      <3> QED
        BY <3>1, <3>3, <3>4, <1>d
    <2>11. CASE DrawNone(t)
      <3>r. /\ OpenOffers' = OpenOffers /\ Uncounters' = Uncounters
            /\ openBlocks' = openBlocks /\ (unwinds' = 0 => unwinds = 0)
        BY <2>11 DEF DrawNone, EndTake, Own, OpenOffers, Uncounters
      <3> QED
        BY <3>r
    <2>12. CASE Uncount(t)
      <3>1. t \in Uncounters /\ openBlocks' = openBlocks - 1 /\ unwinds' = unwinds
        BY <2>12 DEF Uncount, Uncounters
      <3>2. OpenOffers' = OpenOffers /\ Uncounters' = Uncounters \ {t}
        BY <2>12 DEF Uncount, EndTake, Own, OpenOffers, Uncounters
      <3>3. Cardinality(Uncounters') = Cardinality(Uncounters) - 1
        BY <3>1, <3>2, <1>c, CountRemove
      <3> QED
        BY <3>1, <3>2, <3>3, <1>d
    <2>13. CASE Run(t)
      <3>r. /\ OpenOffers' = OpenOffers /\ Uncounters' = Uncounters
            /\ openBlocks' = openBlocks /\ (unwinds' = 0 => unwinds = 0)
        BY <2>13 DEF Run, OpenOffers, Uncounters
      <3> QED
        BY <3>r
    <2>14. CASE Unwind(t)
      <3>r. /\ OpenOffers' = OpenOffers /\ Uncounters' = Uncounters
            /\ openBlocks' = openBlocks /\ (unwinds' = 0 => unwinds = 0)
        BY <2>14 DEF Unwind, EndTake, Own, OpenOffers, Uncounters
      <3> QED
        BY <3>r
    <2>15. CASE CloneCaller(t)
      <3>r. /\ OpenOffers' = OpenOffers /\ Uncounters' = Uncounters
            /\ openBlocks' = openBlocks /\ (unwinds' = 0 => unwinds = 0)
        BY <2>15 DEF CloneCaller, OpenOffers, Uncounters
      <3> QED
        BY <3>r
    <2>16. CASE Leave(t)
      <3>r. /\ OpenOffers' = OpenOffers /\ Uncounters' = Uncounters
            /\ openBlocks' = openBlocks /\ (unwinds' = 0 => unwinds = 0)
        BY <2>16 DEF Leave, DropRunning, OpenOffers, Uncounters
      <3> QED
        BY <3>r
    <2> QED
      BY <1>5, <2>1, <2>2, <2>3, <2>4, <2>5, <2>6, <2>7, <2>8, <2>9, <2>10,
         <2>11, <2>12, <2>13, <2>14, <2>15, <2>16 DEF TakeStep
  <1>6. CASE UNCHANGED vars
    <2>r. /\ OpenOffers' = OpenOffers /\ Uncounters' = Uncounters
          /\ openBlocks' = openBlocks /\ (unwinds' = 0 => unwinds = 0)
      BY <1>6 DEF vars, OpenOffers, Uncounters
    <2> QED
      BY <2>r
  <1> QED
    BY <1>1, <1>2, <1>3, <1>4, <1>5, <1>6 DEF Next

-----------------------------------------------------------------------------
(* The theorems *)

\* GateInv is an invariant: the roles of the threads, the slots, the pointers
\* and the counters of the offer protocol (almide_fan_deal, almide_fan_publish,
\* almide_fan_withdraw, almide_fan_steal, almide_fan_help).
THEOREM GateInvariant == Spec => []GateInv
  <1>1. GateInv /\ [Next]_vars => GateInv'
    BY TypeStep, RolesStep, SlotsStep, PointersStep, HoldersStep, HelpersStep
       DEF GateInv, CountersExact
  <1> QED
    BY InitInv, <1>1, PTL DEF Spec

\* Every variable of the offer protocol keeps its type.
THEOREM TypeCorrect == Spec => []TypeOK
  <1>1. GateInv => TypeOK
    BY DEF GateInv
  <1> QED
    BY GateInvariant, <1>1, PTL

\* No thread, pool hand or waiting caller, uses a gate whose caller has
\* returned: the SAFETY notes of almide_fan_deal and almide_fan_steal hold for
\* any number of threads, slots and blocks, also when elements unwind.
THEOREM GateSafe == Spec => []NoUseAfterFree
  <1>1. GateInv => NoUseAfterFree
    <2> SUFFICES ASSUME GateInv, NEW t \in Threads, Touches(t)
                 PROVE  on[t] \in Callers /\ cpc[on[t]] # "idle"
      BY DEF NoUseAfterFree
    <2>1. on[t] \in Callers /\ on[t] # NoGate
      BY GateAssumption DEF GateInv, RolesOK, Threads
    <2>2. CASE on[t] = t
      BY <2>1, <2>2 DEF GateInv, RolesOK
    <2>3. CASE on[t] # t
      BY <2>1, <2>3 DEF GateInv, PointersOK
    <2> QED
      BY <2>1, <2>2, <2>3
  <1> QED
    BY GateInvariant, <1>1, PTL

\* The counts the caller waits on, `readers` and `inside`, are exact.
THEOREM CountersCorrect == Spec => []CountersExact
  <1>1. GateInv => CountersExact
    BY DEF GateInv
  <1> QED
    BY GateInvariant, <1>1, PTL

\* GlobalsInv holds in every reachable state: who counts in the two statics, and
\* what the counts come to.
THEOREM GlobalsInvariant == Spec => []GlobalsInv
  <1>1. Init => GlobalsInv
    <2> SUFFICES ASSUME Init PROVE GlobalsInv
      OBVIOUS
    <2>1. OpenOffers = {} /\ Uncounters = {} /\ RunningHands = {}
      BY GateAssumption DEF Init, OpenOffers, Uncounters, RunningHands, Threads
    <2>2. RunningCallers = IF SameRoot THEN Callers ELSE {}
      BY DEF Init, RunningCallers
    <2>3. Cardinality(Callers) \in Nat
      BY GateAssumption, FS_CardinalityType
    <2>4. RunningOK
      BY <2>1, <2>2, <2>3, FS_EmptySet DEF Init, RunningOK, CallerDepth
    <2>5. OpenOK
      BY <2>1, FS_EmptySet DEF Init, OpenOK
    <2>6. CountedOK
      BY <2>1 DEF Init, CountedOK
    <2> QED
      BY <2>4, <2>5, <2>6 DEF GlobalsInv
  <1>2. GateInv /\ GlobalsInv /\ [Next]_vars => GlobalsInv'
    BY RunningStep, CountedStep, OpenStep DEF GlobalsInv
  <1> QED
    BY <1>1, <1>2, GateInvariant, PTL DEF Spec

\* The statics the hands look at are exact: ALMIDE_FAN_RUNNING counts each caller
\* in an offer and each hand at work once, ALMIDE_FAN_OPEN_BLOCKS never runs below
\* the offers that still count in it, and is zero when no offer is being made and
\* no element has unwound.
THEOREM GlobalsCorrect == Spec => []GlobalsExact
  <1>1. GateInv /\ GlobalsInv => GlobalsExact
    <2> SUFFICES ASSUME GateInv, GlobalsInv PROVE GlobalsExact
      OBVIOUS
    <2>1. running = Cardinality(RunningCallers) + Cardinality(RunningHands)
      BY DEF GlobalsInv, RunningOK
    <2>2. openBlocks >= Cardinality(OpenOffers) + Cardinality(Uncounters)
      BY DEF GlobalsInv, OpenOK
    <2>3. ASSUME unwinds = 0, \A c \in Callers : cpc[c] = "idle" PROVE openBlocks = 0
      <3>1. OpenOffers = {}
        BY <2>3 DEF GlobalsInv, CountedOK, OpenOffers
      <3>2. ASSUME NEW t \in Threads, hpc[t] = "uncount" PROVE FALSE
        <4>1. on[t] \in Callers /\ on[t] # NoGate
          BY <3>2, GateAssumption DEF GateInv, RolesOK, Touches, Threads
        <4> QED
          BY <2>3, <4>1 DEF GateInv, RolesOK, PointersOK
      <3>3. Uncounters = {}
        BY <3>2 DEF Uncounters
      <3>4. openBlocks = Cardinality(OpenOffers) + Cardinality(Uncounters)
        BY <2>3 DEF GlobalsInv, OpenOK
      <3> QED
        BY <3>1, <3>3, <3>4, FS_EmptySet
    <2> QED
      BY <2>1, <2>2, <2>3
         DEF GlobalsExact, RunningCallers, RunningHands, OpenOffers, Uncounters
  <1> QED
    BY <1>1, GateInvariant, GlobalsInvariant, PTL

\* The blocks of a live offer are all accounted for (BlocksOK).
THEOREM BlocksInvariant == Spec => []BlocksOK
  <1>1. Init => BlocksOK
    BY GateAssumption DEF Init, BlocksOK, DoneDrawn, DrawnCovered, TakeOver, Drawn, Threads
  <1>2. GateInv /\ BlocksOK /\ [Next]_vars => BlocksOK'
    BY BlocksStep
  <1> QED
    BY <1>1, <1>2, GateInvariant, PTL DEF Spec

\* At its return no thread is left in a caller's gate, so every block of an
\* offer without a panic has run.
LEMMA ReturnCovered ==
  ASSUME GateInv, BlocksOK, NEW c \in Callers, cpc[c] = "return", ~mine[c], ~panics[c]
  PROVE  done[c] = 0..(len[c] - 1)
  <1>1. next[c] >= len[c] /\ len[c] \in Nat /\ next[c] \in Nat /\ done[c] \in SUBSET Nat
    BY DEF GateInv, TypeOK, BlocksOK, TakeOver
  <1>2. \A t \in Threads : on[t] # c
    BY GateAssumption DEF GateInv, RolesOK, PointersOK, Threads
  <1>3. \A b \in 0..(len[c] - 1) : b \in done[c]
    BY <1>1, <1>2 DEF BlocksOK, DrawnCovered
  <1>4. \A b \in done[c] : b \in 0..(len[c] - 1)
    BY <1>1 DEF BlocksOK, DoneDrawn
  <1> QED
    BY <1>3, <1>4

\* A parallel list operation whose outcomes carry no panic returns with every
\* block run: the `expect` of almide_rt_list_par_map cannot fail.
THEOREM ReturnsComplete == Spec => []ReturnComplete
  <1>1. GateInv /\ BlocksOK => ReturnComplete
    BY ReturnCovered DEF ReturnComplete
  <1> QED
    BY GateInvariant, BlocksInvariant, <1>1, PTL

\* A block is run by one thread, once.
THEOREM BlocksTakenOnce == Spec => []BlockTakenOnce
  <1>1. GateInv /\ BlocksOK => BlockTakenOnce
    <2> SUFFICES ASSUME GateInv, BlocksOK, NEW t \in Threads, hpc[t] = "run"
                 PROVE  /\ blk[t] \in 0..(len[on[t]] - 1) \ done[on[t]]
                        /\ \A u \in Threads \ {t} :
                             hpc[u] = "run" /\ on[u] = on[t] => blk[u] # blk[t]
      BY DEF BlockTakenOnce
    <2>1. on[t] \in Callers
      BY DEF GateInv, RolesOK, Touches
    <2> QED
      BY <2>1 DEF GateInv, TypeOK, BlocksOK, Drawn
  <1> QED
    BY GateInvariant, BlocksInvariant, <1>1, PTL
-----------------------------------------------------------------------------
(* Refinement: the offer protocol implements FanOffer *)

\* Every step of the protocol is a step of FanOffer or leaves its state alone.
LEMMA OfferStep == GateInv /\ BlocksOK /\ [Next]_vars => [Offer!Next]_(Offer!vars)
  <1> SUFFICES ASSUME GateInv, BlocksOK, [Next]_vars
               PROVE  Offer!Next \/ UNCHANGED Offer!vars
    BY DEF Offer!vars
  <1>0. /\ cpc \in [Callers -> CallerPc] /\ hpc \in [Threads -> TakePc]
        /\ mine \in [Callers -> BOOLEAN] /\ panics \in [Callers -> BOOLEAN]
        /\ len \in [Callers -> Nat \ {0}] /\ blk \in [Threads -> Nat]
        /\ done \in [Callers -> SUBSET Nat]
        /\ RolesOK /\ PointersOK /\ NoGate \notin Threads /\ Callers \subseteq Threads
    BY GateAssumption DEF GateInv, TypeOK, Threads
  <1> USE DEF takeVars, gateVars, statics, CallerPc
  <1>1. ASSUME NEW c \in Callers, NEW n \in 1..MaxBlocks, Deal(c, n)
        PROVE  Offer!Next
    <2>1. Offer!Call(c, n)
      BY <1>0, <1>1 DEF Deal, Offer!Call
    <2> QED
      BY <2>1 DEF Offer!Next
  <1>2. ASSUME NEW c \in Callers, CallerStep(c)
        PROVE  Offer!Next \/ UNCHANGED Offer!vars
    <2>1. CASE Return(c)
      <3>1. Offer!Finish(c)
        BY <1>0, <2>1, ReturnCovered DEF Return, Offer!Finish
      <3> QED
        BY <3>1 DEF Offer!Next
    <2>2. CASE CountOpen(c) \/ Publish(c) \/ PublishNext(c) \/ PublishNone(c)
               \/ Withdraw(c) \/ Drain(c) \/ Await(c)
      <3>1. /\ UNCHANGED <<len, done, mine, panics>>
            /\ \A x \in Callers : (cpc'[x] # "idle") = (cpc[x] # "idle")
        BY <1>0, <2>2 DEF CountOpen, Publish, PublishNext, PublishNone, StartTake,
                          Withdraw, Drain, Await
      <3> QED
        BY <3>1 DEF Offer!vars
    <2> QED
      BY <1>2, <2>1, <2>2 DEF CallerStep
  <1>3. ASSUME NEW c \in Callers, CallerPoll(c)
        PROVE  UNCHANGED Offer!vars
    BY <1>3 DEF CallerPoll, BeginScan, Offer!vars
  <1>4. ASSUME NEW h \in Hands, HandPoll(h)
        PROVE  UNCHANGED Offer!vars
    BY <1>4 DEF HandPoll, BeginScan, Offer!vars
  <1>5. ASSUME NEW t \in Threads, TakeStep(t)
        PROVE  Offer!Next \/ UNCHANGED Offer!vars
    <2>0. Touches(t) => on[t] \in Callers /\ cpc[on[t]] # "idle"
      <3>1. CASE on[t] = t
        BY <1>0, <3>1 DEF RolesOK
      <3>2. CASE on[t] # t
        BY <1>0, <3>2 DEF RolesOK, PointersOK
      <3> QED
        BY <3>1, <3>2
    <2>1. CASE Run(t)
      <3>1. blk[t] \in 0..(len[on[t]] - 1) /\ blk[t] \notin done[on[t]]
        BY <1>0, <2>0, <2>1 DEF Run, Touches, BlocksOK, Drawn
      <3>2. Offer!RunBlock(on[t], blk[t])
        BY <1>0, <2>0, <2>1, <3>1 DEF Run, Touches, Offer!RunBlock
      <3> QED
        BY <2>0, <2>1, <3>1, <3>2 DEF Offer!Next, Run, Touches
    <2>2. CASE Unwind(t)
      <3>1. on[t] \in Callers /\ cpc[on[t]] # "idle" /\ MaxUnwinds > 0
        BY <1>0, <2>0, <2>2, GateAssumption DEF Unwind, Touches, GateInv, TypeOK
      <3>2. UNCHANGED <<len, done>>
        BY <2>2 DEF Unwind
      <3>3. \A x \in Callers : (cpc'[x] # "idle") = (cpc[x] # "idle")
        BY <1>0, <2>2, <3>1 DEF Unwind, EndTake, Own
      <3>4. \A x \in Callers :
              (mine'[x] \/ panics'[x]) = (IF x = on[t] THEN TRUE ELSE mine[x] \/ panics[x])
        <4>1. CASE Own(t)
          BY <1>0, <2>2, <3>1, <4>1 DEF Unwind, Own
        <4>2. CASE ~Own(t)
          BY <1>0, <2>2, <3>1, <4>2 DEF Unwind
        <4> QED
          BY <4>1, <4>2
      <3>5. PICK g \in Callers : g = on[t]
        BY <3>1
      <3>6. Offer!Fail(g)
        BY <3>1, <3>2, <3>3, <3>4, <3>5 DEF Offer!Fail
      <3> QED
        BY <3>6 DEF Offer!Next
    <2>3. CASE DrawNone(t) \/ Uncount(t)
      <3>1. /\ UNCHANGED <<len, done, mine, panics>>
            /\ \A x \in Callers : (cpc'[x] # "idle") = (cpc[x] # "idle")
        BY <1>0, <2>0, <2>3 DEF DrawNone, Uncount, EndTake, Own, Touches
      <3> QED
        BY <3>1 DEF Offer!vars
    <2>4. CASE Skip(t) \/ Peek(t) \/ ScanEnd(t) \/ Hold(t) \/ Load(t) \/ Filter(t)
               \/ Enter(t) \/ Release(t) \/ Draw(t) \/ DrawLast(t)
               \/ CloneCaller(t) \/ Leave(t)
      <3>1. UNCHANGED <<cpc, len, done, mine, panics>>
        BY <2>4 DEF Skip, Peek, ScanEnd, Hold, Load, Filter, Enter, Release, Draw,
                    DrawLast, CloneCaller, Leave
      <3> QED
        BY <3>1 DEF Offer!vars
    <2> QED
      BY <1>5, <2>1, <2>2, <2>3, <2>4 DEF TakeStep
  <1>6. CASE UNCHANGED vars
    BY <1>6 DEF vars, Offer!vars
  <1> QED
    BY <1>1, <1>2, <1>3, <1>4, <1>5, <1>6 DEF Next

\* Whatever helpers come and go, the offer protocol does what FanOffer says a
\* parallel list operation does.
THEOREM OfferRefinement == Spec => OfferSpec
  <1>1. Init => Offer!Init
    BY DEF Init, Offer!Init
  <1>2. GateInv /\ BlocksOK /\ [Next]_vars => [Offer!Next]_(Offer!vars)
    BY OfferStep
  <1> QED
    BY <1>1, <1>2, GateInvariant, BlocksInvariant, PTL DEF Spec, OfferSpec, Offer!Spec
=============================================================================
