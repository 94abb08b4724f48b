-------------------------- MODULE FanRuntimeProofs --------------------------
(***************************************************************************)
(* Machine-checked proofs about two parts of the native fan runtime.       *)
(*                                                                         *)
(* FanPool: the count of polling hands is exact and no wake-up is lost,    *)
(* for every number of callers, hands, helpers asked for and offers.       *)
(*                                                                         *)
(* FanSearch: what almide_fan_search answers is right, for every list,     *)
(* every number of threads and every block size.  AnswerRight is not       *)
(* inductive: that FALSE is right when it is returned rests on who is      *)
(* responsible, while threads still run, for an element that was dealt and *)
(* not found a miss (CoverOK).  A block that is cut short is covered by    *)
(* the flag: a thread stops early only once it is up, and it never goes    *)
(* down again.                                                             *)
(***************************************************************************)
EXTENDS FanPool, FanSearch, FiniteSetTheorems, TLAPS
-----------------------------------------------------------------------------
(* The pool *)


HandPc == {"unborn", "poll", "spun", "sleep", "look", "park", "rouse", "recount", "found", "help"}
CallerPc == {"idle", "wake", "span", "scan", "unpark", "lock", "spawn", "birth", "register",
             "take", "wait"}

\* The types, but for the count of the polling hands.
Types ==
  /\ started \in 0..Cap /\ spawning \in Callers \cup {NoCaller} /\ refused \in BOOLEAN
  /\ parked \in [Hands -> BOOLEAN] /\ token \in [Hands -> BOOLEAN]
  /\ on \in [Hands -> Callers \cup {NoCaller}]
  /\ open \in [Callers -> BOOLEAN] /\ short \in [Callers -> 0..Helpers]
  /\ idx \in [Callers -> Nat \ {0}] /\ upto \in [Callers -> 0..Cap]
  /\ hpc \in [Hands -> HandPc] /\ cpc \in [Callers -> CallerPc]

\* The spawning lock excludes, and its holder still has a hand to spawn.
SpawnOK ==
  /\ \A c \in Callers : cpc[c] \in {"spawn", "birth", "register"} <=> spawning = c
  /\ \A c \in Callers : cpc[c] \in {"birth", "register"} => short[c] > 0 /\ started < Cap

\* The hands that are there: those started, and one that is not counted yet.
BornOK ==
  /\ \A h \in Hands : h <= started => hpc[h] # "unborn"
  /\ \A h \in Hands : h > started /\ hpc[h] # "unborn" =>
       h = started + 1 /\ \E c \in Callers : cpc[c] = "register"
  /\ \A c \in Callers : cpc[c] = "register" => hpc[started + 1] # "unborn"

\* The hands that count as polling, and the caller that counts one in advance.
Pollers == {h \in Hands : hpc[h] \in {"poll", "spun", "found"}}
Births == {c \in Callers : cpc[c] = "birth"}
CountOK == polling = Cardinality(Pollers) + Cardinality(Births)

PoolInv == Types /\ SpawnOK /\ BornOK /\ CountOK

\* A scan stays among the hands that were started, and has passed one when it
\* has woken enough.
ScanOK ==
  \A c \in Callers :
    /\ cpc[c] \in {"scan", "unpark"} => upto[c] <= started
    /\ cpc[c] = "unpark" => idx[c] <= upto[c]
    /\ cpc[c] = "span" => short[c] > 0
    /\ cpc[c] = "scan" /\ idx[c] = 1 => short[c] > 0

\* A hand about to park whose flag somebody cleared is unparked, or will be.
Pending(h) == \E c \in Callers : cpc[c] = "unpark" /\ idx[c] = h
ParkOK ==
  \A h \in Hands :
    /\ hpc[h] \in {"look", "park"} /\ ~parked[h] => token[h] \/ Pending(h)
    /\ parked[h] => hpc[h] # "unborn"

\* A caller whose offer is open has done something that left a hand awake.
Roused(c) ==
  \/ cpc[c] \in {"unpark", "birth", "register"}
  \/ cpc[c] = "scan" /\ idx[c] > 1
  \/ cpc[c] \in {"lock", "spawn", "take"} /\ (short[c] = 0 \/ upto[c] > 0)
AwakeOK == \A c \in Callers : open[c] /\ Helpers > 0 /\ ~refused /\ Roused(c) => Awake # {}

WakeInv == ScanOK /\ ParkOK /\ AwakeOK
-----------------------------------------------------------------------------
(* The counts *)

\* The hands and the callers are finitely many.
LEMMA Finite ==
  /\ IsFiniteSet(Hands) /\ Cardinality(Hands) = Cap
  /\ \A S \in SUBSET Hands : IsFiniteSet(S) /\ Cardinality(S) \in 0..Cap
  /\ \A S \in SUBSET Callers : IsFiniteSet(S) /\ Cardinality(S) \in Nat
<1>1. IsFiniteSet(Hands) /\ Cardinality(Hands) = Cap
  BY PoolAssumption, FS_Interval DEF Hands
<1>2. \A S \in SUBSET Hands : IsFiniteSet(S) /\ Cardinality(S) <= Cap /\ Cardinality(S) \in Nat
  BY <1>1, FS_Subset, FS_CardinalityType
<1>3. \A S \in SUBSET Callers : IsFiniteSet(S) /\ Cardinality(S) \in Nat
  BY PoolAssumption, FS_Subset, FS_CardinalityType
<1> QED
  BY <1>1, <1>2, <1>3, PoolAssumption

Polls(x) == x \in {"poll", "spun", "found"}

\* A hand that moves joins the pollers, leaves them, or neither.
LEMMA PollerMoves ==
  ASSUME NEW h \in Hands, \A g \in Hands \ {h} : hpc'[g] = hpc[g]
  PROVE  /\ ~Polls(hpc[h]) /\ Polls(hpc'[h]) => Cardinality(Pollers') = Cardinality(Pollers) + 1
         /\ Polls(hpc[h]) /\ ~Polls(hpc'[h]) => Cardinality(Pollers') = Cardinality(Pollers) - 1
         /\ (Polls(hpc[h]) <=> Polls(hpc'[h])) => Pollers' = Pollers
<1>0. IsFiniteSet(Pollers)
  BY Finite DEF Pollers
<1>1. ASSUME ~Polls(hpc[h]), Polls(hpc'[h])
      PROVE  Cardinality(Pollers') = Cardinality(Pollers) + 1
  <2>1. Pollers' = Pollers \cup {h} /\ h \notin Pollers
    BY <1>1 DEF Pollers, Polls
  <2> QED
    BY <1>0, <2>1, FS_AddElement
<1>2. ASSUME Polls(hpc[h]), ~Polls(hpc'[h])
      PROVE  Cardinality(Pollers') = Cardinality(Pollers) - 1
  <2>1. Pollers' = Pollers \ {h} /\ h \in Pollers
    BY <1>2 DEF Pollers, Polls
  <2> QED
    BY <1>0, <2>1, FS_RemoveElement
<1>3. (Polls(hpc[h]) <=> Polls(hpc'[h])) => Pollers' = Pollers
  BY DEF Pollers, Polls
<1> QED
  BY <1>1, <1>2, <1>3

\* A caller that moves counts a hand in advance, no longer does, or neither.
LEMMA BirthMoves ==
  ASSUME NEW c \in Callers, \A d \in Callers \ {c} : cpc'[d] = cpc[d]
  PROVE  /\ cpc[c] # "birth" /\ cpc'[c] = "birth" =>
              Cardinality(Births') = Cardinality(Births) + 1
         /\ cpc[c] = "birth" /\ cpc'[c] # "birth" =>
              Cardinality(Births') = Cardinality(Births) - 1
         /\ cpc[c] # "birth" /\ cpc'[c] # "birth" => Births' = Births
<1>0. IsFiniteSet(Births)
  BY Finite DEF Births
<1>1. ASSUME cpc[c] # "birth", cpc'[c] = "birth"
      PROVE  Cardinality(Births') = Cardinality(Births) + 1
  <2>1. Births' = Births \cup {c} /\ c \notin Births
    BY <1>1 DEF Births
  <2> QED
    BY <1>0, <2>1, FS_AddElement
<1>2. ASSUME cpc[c] = "birth", cpc'[c] # "birth"
      PROVE  Cardinality(Births') = Cardinality(Births) - 1
  <2>1. Births' = Births \ {c} /\ c \in Births
    BY <1>2 DEF Births
  <2> QED
    BY <1>0, <2>1, FS_RemoveElement
<1>3. cpc[c] # "birth" /\ cpc'[c] # "birth" => Births' = Births
  BY DEF Births
<1> QED
  BY <1>1, <1>2, <1>3
-----------------------------------------------------------------------------
(* PoolInv *)

\* What a step of a hand does to the types, the births and the lock.
LEMMA HandShape ==
  ASSUME PoolInv, NEW h \in Hands, HandStep(h) \/ Spurious(h)
  PROVE  Types' /\ SpawnOK' /\ BornOK'
<1>0. Types /\ SpawnOK /\ BornOK
  BY DEF PoolInv
<1> USE <1>0 DEF Types, HandPc, wakeVars, SpawnOK, BornOK
<1>1. ASSUME NEW c \in Callers, Find(h, c)
      PROVE  Types' /\ SpawnOK' /\ BornOK'
  BY <1>1 DEF Find, HandTo
<1>2. CASE Miss(h)
  BY <1>2 DEF Miss, HandTo
<1>3. CASE Again(h)
  BY <1>3 DEF Again, HandTo
<1>4. CASE Timeout(h)
  BY <1>4 DEF Timeout, HandTo
<1>5. CASE SetParked(h)
  BY <1>5 DEF SetParked, HandTo
<1>6. CASE Look(h)
  BY <1>6 DEF Look
<1>7. CASE Unparked(h)
  BY <1>7 DEF Unparked, HandTo
<1>8. CASE Spurious(h)
  BY <1>8 DEF Spurious, HandTo
<1>9. CASE ClearParked(h)
  BY <1>9 DEF ClearParked, HandTo
<1>10. CASE Recount(h)
  BY <1>10 DEF Recount, HandTo
<1>11. CASE StartHelp(h)
  BY <1>11 DEF StartHelp, HandTo
<1>12. CASE EndHelp(h)
  <2>1. open' \in [Callers -> BOOLEAN]
    BY <1>12 DEF EndHelp
  <2>2. on' \in [Hands -> Callers \cup {NoCaller}]
    BY <1>12 DEF EndHelp
  <2>3. hpc' \in [Hands -> HandPc]
    BY <1>12 DEF EndHelp, HandTo
  <2>4. BornOK'
    BY <1>12 DEF EndHelp, HandTo
  <2> QED
    BY <1>12, <2>1, <2>2, <2>3, <2>4 DEF EndHelp
<1> QED
  BY <1>1, <1>2, <1>3, <1>4, <1>5, <1>6, <1>7, <1>8, <1>9, <1>10, <1>11, <1>12 DEF HandStep

\* A step of a hand keeps the count.
LEMMA HandCount ==
  ASSUME PoolInv, NEW h \in Hands, HandStep(h) \/ Spurious(h)
  PROVE  CountOK'
<1> DEFINE Counted ==
             /\ \A g \in Hands \ {h} : hpc'[g] = hpc[g]
             /\ UNCHANGED cpc
             /\ \/ polling' = polling /\ (Polls(hpc[h]) <=> Polls(hpc'[h]))
                \/ polling' = polling + 1 /\ ~Polls(hpc[h]) /\ Polls(hpc'[h])
                \/ polling' = polling - 1 /\ Polls(hpc[h]) /\ ~Polls(hpc'[h])
<1>1. Counted
  <2>0. hpc \in [Hands -> HandPc]
    BY DEF PoolInv, Types
  <2> USE <2>0 DEF Polls
  <2>1. ASSUME NEW c \in Callers, Find(h, c)
        PROVE  Counted
    BY <2>1 DEF Find, HandTo
  <2>2. CASE Miss(h)
    BY <2>2 DEF Miss, HandTo
  <2>3. CASE Again(h)
    BY <2>3 DEF Again, HandTo
  <2>4. CASE Timeout(h)
    BY <2>4 DEF Timeout, HandTo
  <2>5. CASE SetParked(h)
    BY <2>5 DEF SetParked, HandTo
  <2>6. CASE Look(h)
    BY <2>6 DEF Look
  <2>7. CASE Unparked(h)
    BY <2>7 DEF Unparked, HandTo
  <2>8. CASE Spurious(h)
    BY <2>8 DEF Spurious, HandTo
  <2>9. CASE ClearParked(h)
    BY <2>9 DEF ClearParked, HandTo
  <2>10. CASE Recount(h)
    BY <2>10 DEF Recount, HandTo
  <2>11. CASE StartHelp(h)
    BY <2>11 DEF StartHelp, HandTo
  <2>12. CASE EndHelp(h)
    BY <2>12 DEF EndHelp, HandTo
  <2> QED
    BY <2>1, <2>2, <2>3, <2>4, <2>5, <2>6, <2>7, <2>8, <2>9, <2>10, <2>11, <2>12 DEF HandStep
<1>2. CountOK /\ Cardinality(Pollers) \in Nat /\ Cardinality(Births) \in Nat
  BY Finite DEF PoolInv, Pollers, Births
<1>3. Births' = Births
  BY <1>1 DEF Births
<1> QED
  BY <1>1, <1>2, <1>3, PollerMoves DEF CountOK

\* What a step of a caller does to the types.
LEMMA CallerTypes ==
  ASSUME PoolInv, NEW c \in Callers, Publish(c) \/ WakeStep(c) \/ EndTake(c) \/ Await(c)
  PROVE  Types'
<1>0. Types /\ SpawnOK
  BY DEF PoolInv
<1> USE <1>0, PoolAssumption DEF Types, CallerPc, handVars, wakeVars, SpawnOK
<1>1. CASE Publish(c)
  BY <1>1 DEF Publish, CallerTo
<1>2. CASE ReadPolling(c)
  <2>1. short' \in [Callers -> 0..Helpers]
    <3>1. polling \in Nat
      BY Finite DEF PoolInv, CountOK, Pollers, Births
    <3> QED
      BY <1>2, <3>1 DEF ReadPolling
  <2>2. cpc' \in [Callers -> CallerPc]
    BY <1>2 DEF ReadPolling
  <2> QED
    BY <1>2, <2>1, <2>2 DEF ReadPolling
<1>3. CASE ReadStarted(c)
  BY <1>3 DEF ReadStarted, CallerTo
<1>4. CASE SwapAwake(c)
  BY <1>4 DEF SwapAwake, Scanning
<1>5. CASE SwapParked(c)
  <2>1. short' \in [Callers -> 0..Helpers]
    BY <1>5 DEF SwapParked, Scanning
  <2>2. parked' \in [Hands -> BOOLEAN]
    BY <1>5 DEF SwapParked
  <2>3. cpc' \in [Callers -> CallerPc]
    BY <1>5 DEF SwapParked
  <2> QED
    BY <1>5, <2>1, <2>2, <2>3 DEF SwapParked
<1>6. CASE Unpark(c)
  <2>1. token' \in [Hands -> BOOLEAN]
    BY <1>6 DEF Unpark
  <2>2. idx' \in [Callers -> Nat \ {0}]
    BY <1>6 DEF Unpark
  <2>3. cpc' \in [Callers -> CallerPc]
    BY <1>6 DEF Unpark, CallerTo
  <2> QED
    BY <1>6, <2>1, <2>2, <2>3 DEF Unpark
<1>7. CASE EndScan(c)
  BY <1>7 DEF EndScan
<1>8. CASE LockSpawning(c)
  BY <1>8 DEF LockSpawning, CallerTo
<1>9. CASE BeforeSpawn(c)
  BY <1>9 DEF BeforeSpawn, CallerTo
<1>10. CASE Spawn(c)
  BY <1>10 DEF Spawn, CallerTo, HandPc, Hands
<1>11. CASE SpawnFails(c)
  BY <1>11 DEF SpawnFails, CallerTo
<1>12. CASE Register(c)
  BY <1>12 DEF Register, CallerTo
<1>13. CASE EndSpawn(c)
  BY <1>13 DEF EndSpawn, CallerTo
<1>14. CASE EndTake(c)
  BY <1>14 DEF EndTake, CallerTo
<1>15. CASE Await(c)
  BY <1>15 DEF Await, CallerTo
<1> QED
  BY <1>1, <1>2, <1>3, <1>4, <1>5, <1>6, <1>7, <1>8, <1>9, <1>10, <1>11, <1>12, <1>13, <1>14, <1>15
     DEF WakeStep

\* ... to the spawning lock and the hands that are there.
LEMMA CallerSpawn ==
  ASSUME PoolInv, NEW c \in Callers, Publish(c) \/ WakeStep(c) \/ EndTake(c) \/ Await(c)
  PROVE  SpawnOK' /\ BornOK'
<1>0. Types /\ SpawnOK /\ BornOK
  BY DEF PoolInv
<1> USE <1>0, PoolAssumption DEF Types, CallerPc, handVars, wakeVars, SpawnOK, BornOK
<1>1. CASE Publish(c)
  BY <1>1 DEF Publish, CallerTo
<1>2. CASE ReadPolling(c)
  BY <1>2 DEF ReadPolling
<1>3. CASE ReadStarted(c)
  BY <1>3 DEF ReadStarted, CallerTo
<1>4. CASE SwapAwake(c)
  BY <1>4 DEF SwapAwake, Scanning
<1>5. CASE SwapParked(c)
  BY <1>5 DEF SwapParked, Scanning
<1>6. CASE Unpark(c)
  BY <1>6 DEF Unpark, CallerTo
<1>7. CASE EndScan(c)
  BY <1>7 DEF EndScan
<1>8. CASE LockSpawning(c)
  BY <1>8 DEF LockSpawning, CallerTo
<1>9. CASE BeforeSpawn(c)
  BY <1>9 DEF BeforeSpawn, CallerTo
<1>10. CASE Spawn(c)
  BY <1>10 DEF Spawn, CallerTo, Hands
<1>11. CASE SpawnFails(c)
  BY <1>11 DEF SpawnFails, CallerTo
<1>12. CASE Register(c)
  BY <1>12 DEF Register, CallerTo, Hands
<1>13. CASE EndSpawn(c)
  BY <1>13 DEF EndSpawn, CallerTo
<1>14. CASE EndTake(c)
  BY <1>14 DEF EndTake, CallerTo
<1>15. CASE Await(c)
  BY <1>15 DEF Await, CallerTo
<1> QED
  BY <1>1, <1>2, <1>3, <1>4, <1>5, <1>6, <1>7, <1>8, <1>9, <1>10, <1>11, <1>12, <1>13, <1>14, <1>15
     DEF WakeStep

\* ... and to the count.
LEMMA CallerCount ==
  ASSUME PoolInv, NEW c \in Callers, Publish(c) \/ WakeStep(c) \/ EndTake(c) \/ Await(c)
  PROVE  CountOK'
<1> DEFINE Counted ==
             /\ \A d \in Callers \ {c} : cpc'[d] = cpc[d]
             /\ \/ /\ polling' = polling /\ UNCHANGED hpc
                   /\ cpc[c] # "birth" /\ cpc'[c] # "birth"
                \/ /\ polling' = polling + 1 /\ UNCHANGED hpc
                   /\ cpc[c] # "birth" /\ cpc'[c] = "birth"
                \/ /\ polling' = polling - 1 /\ UNCHANGED hpc
                   /\ cpc[c] = "birth" /\ cpc'[c] # "birth"
                \/ /\ polling' = polling /\ hpc' = [hpc EXCEPT ![started + 1] = "poll"]
                   /\ cpc[c] = "birth" /\ cpc'[c] # "birth"
<1>0. Types /\ SpawnOK /\ BornOK
  BY DEF PoolInv
<1>1. Counted
  <2> USE <1>0 DEF Types, handVars
  <2>1. CASE Publish(c)
    BY <2>1 DEF Publish, CallerTo
  <2>2. CASE ReadPolling(c)
    BY <2>2 DEF ReadPolling
  <2>3. CASE ReadStarted(c)
    BY <2>3 DEF ReadStarted, CallerTo
  <2>4. CASE SwapAwake(c)
    BY <2>4 DEF SwapAwake, Scanning
  <2>5. CASE SwapParked(c)
    BY <2>5 DEF SwapParked, Scanning
  <2>6. CASE Unpark(c)
    BY <2>6 DEF Unpark, CallerTo
  <2>7. CASE EndScan(c)
    BY <2>7 DEF EndScan
  <2>8. CASE LockSpawning(c)
    BY <2>8 DEF LockSpawning, CallerTo
  <2>9. CASE BeforeSpawn(c)
    BY <2>9 DEF BeforeSpawn, CallerTo
  <2>10. CASE Spawn(c)
    BY <2>10 DEF Spawn, CallerTo
  <2>11. CASE SpawnFails(c)
    BY <2>11 DEF SpawnFails, CallerTo
  <2>12. CASE Register(c)
    BY <2>12 DEF Register, CallerTo
  <2>13. CASE EndSpawn(c)
    BY <2>13 DEF EndSpawn, CallerTo
  <2>14. CASE EndTake(c)
    BY <2>14 DEF EndTake, CallerTo
  <2>15. CASE Await(c)
    BY <2>15 DEF Await, CallerTo
  <2> QED
    BY <2>1, <2>2, <2>3, <2>4, <2>5, <2>6, <2>7, <2>8, <2>9, <2>10, <2>11, <2>12, <2>13, <2>14, <2>15
       DEF WakeStep
<1>2. CountOK /\ Cardinality(Pollers) \in Nat /\ Cardinality(Births) \in Nat
  BY Finite DEF PoolInv, Pollers, Births
<1>3. UNCHANGED hpc => Pollers' = Pollers
  BY DEF Pollers
<1>4. ASSUME hpc' = [hpc EXCEPT ![started + 1] = "poll"], cpc[c] = "birth"
      PROVE  Cardinality(Pollers') = Cardinality(Pollers) + 1
  <2>1. started < Cap /\ started \in Nat /\ spawning = c
    BY <1>0, <1>4 DEF SpawnOK, Types
  <2>2. started + 1 \in Hands
    BY <2>1, PoolAssumption DEF Hands
  <2>3. ~\E d \in Callers : cpc[d] = "register"
    BY <1>0, <1>4, <2>1 DEF SpawnOK
  <2>4. hpc[started + 1] = "unborn"
    BY <1>0, <2>1, <2>2, <2>3 DEF BornOK
  <2>5. hpc'[started + 1] = "poll" /\ \A g \in Hands \ {started + 1} : hpc'[g] = hpc[g]
    BY <1>0, <1>4, <2>2 DEF Types
  <2> QED
    BY <2>2, <2>4, <2>5, PollerMoves DEF Polls
<1> QED
  BY <1>1, <1>2, <1>3, <1>4, BirthMoves DEF CountOK

\* The pool starts with nobody polling.
LEMMA InitPool ==
  ASSUME Init
  PROVE  PoolInv
<1> USE PoolAssumption DEF Init
<1>1. Types
  <2>1. started \in 0..Cap /\ spawning \in Callers \cup {NoCaller}
    OBVIOUS
  <2>2. parked \in [Hands -> BOOLEAN]
    BY DEF Hands
  <2>3. token \in [Hands -> BOOLEAN] /\ on \in [Hands -> Callers \cup {NoCaller}]
    OBVIOUS
  <2>4. open \in [Callers -> BOOLEAN] /\ short \in [Callers -> 0..Helpers]
    OBVIOUS
  <2>5. idx \in [Callers -> Nat \ {0}] /\ upto \in [Callers -> 0..Cap]
    OBVIOUS
  <2>6. hpc \in [Hands -> HandPc] /\ cpc \in [Callers -> CallerPc]
    BY DEF HandPc, CallerPc
  <2> QED
    BY <2>1, <2>2, <2>3, <2>4, <2>5, <2>6 DEF Types
<1>2. SpawnOK /\ BornOK
  BY DEF SpawnOK, BornOK, Hands
<1>3. Pollers = {} /\ Births = {}
  BY DEF Pollers, Births
<1> QED
  BY <1>1, <1>2, <1>3, FS_EmptySet DEF PoolInv, CountOK

\* Every step keeps the count and the spawning lock.
LEMMA NextPool ==
  ASSUME PoolInv, [Next]_vars
  PROVE  PoolInv'
<1>1. ASSUME NEW h \in Hands, HandStep(h) \/ Spurious(h)
      PROVE  PoolInv'
  BY <1>1, HandShape, HandCount DEF PoolInv
<1>2. ASSUME NEW c \in Callers, Publish(c) \/ WakeStep(c) \/ EndTake(c) \/ Await(c)
      PROVE  PoolInv'
  BY <1>2, CallerTypes, CallerSpawn, CallerCount DEF PoolInv
<1>3. CASE UNCHANGED vars
  BY <1>3 DEF vars, handVars, wakeVars, PoolInv, Types, SpawnOK, BornOK, CountOK, Pollers, Births
<1> QED
  BY <1>1, <1>2, <1>3 DEF Next

\* PoolInv holds in every reachable state: the spawning lock excludes, exactly
\* the hands up to `started` are there (but for one about to be counted), and
\* the count of the polling hands is exact.
THEOREM PoolInvariant == Spec => []PoolInv
<1> QED
  BY InitPool, NextPool, PTL DEF Spec

\* At most one caller counts a hand in advance: it holds the spawning lock.
LEMMA OneBirth ==
  ASSUME PoolInv
  PROVE  Cardinality(Births) \in 0..1
<1>1. \A c, d \in Births : c = d
  BY DEF PoolInv, SpawnOK, Births
<1>2. CASE Births = {}
  BY <1>2, FS_EmptySet
<1>3. ASSUME NEW c \in Births
      PROVE  Cardinality(Births) = 1
  <2>1. Births = {c}
    BY <1>1
  <2> QED
    BY <2>1, FS_Singleton
<1> QED
  BY <1>2, <1>3

\* AlmideFanPool.polling is the number of hands that poll or have found an
\* offer, plus the one about to be spawned; it never wraps nor exceeds the
\* hands by more than one, and every variable has its type.
THEOREM PollingIsExact == Spec => []PollingExact
<1>1. ASSUME PoolInv
      PROVE  PollingExact
  <2>0. Types /\ CountOK /\ Cap \in Nat
    BY <1>1, PoolAssumption DEF PoolInv
  <2>1. Cardinality(Pollers) \in 0..Cap
    BY Finite DEF Pollers
  <2>2. polling \in 0..(Cap + 1)
    BY <1>1, <2>0, <2>1, OneBirth DEF CountOK
  <2> QED
    BY <2>0, <2>2 DEF PollingExact, TypeOK, Types, HandPc, CallerPc, CountOK, Pollers, Births
<1> QED
  BY <1>1, PoolInvariant, PTL
-----------------------------------------------------------------------------
(* WakeInv *)

\* The count is a number.
LEMMA PollingNat ==
  ASSUME PoolInv
  PROVE  polling \in Nat
<1> QED
  BY Finite DEF PoolInv, CountOK, Pollers, Births

\* Somebody who is counted is awake.
LEMMA CountedIsAwake ==
  ASSUME PoolInv, polling > 0
  PROVE  Awake # {}
<1>0. Types /\ SpawnOK /\ BornOK /\ CountOK
  BY DEF PoolInv
<1>1. Pollers # {} \/ Births # {}
  BY <1>0, FS_EmptySet DEF CountOK
<1>2. ASSUME NEW h \in Pollers
      PROVE  h \in Awake
  BY DEF Pollers, Awake, Exists, Dormant
<1>3. ASSUME NEW c \in Births
      PROVE  started + 1 \in Awake
  <2>1. c \in Callers /\ cpc[c] = "birth" /\ spawning = c /\ started < Cap
    BY <1>0 DEF Births, SpawnOK
  <2>2. started + 1 \in Hands
    BY <1>0, <2>1, PoolAssumption DEF Types, Hands
  <2>3. ~\E d \in Callers : cpc[d] = "register"
    BY <1>0, <2>1 DEF SpawnOK
  <2>4. hpc[started + 1] = "unborn"
    BY <1>0, <2>2, <2>3 DEF BornOK, Types
  <2> QED
    BY <2>1, <2>2, <2>4 DEF Awake, Exists, Dormant
<1> QED
  BY <1>1, <1>2, <1>3

\* A hand that is awake stays awake while an offer is open, whatever a hand does:
\* the last look before it parks sees the offer.
LEMMA HandKeepsAwake ==
  ASSUME PoolInv, OpenBlocks, NEW h \in Hands, HandStep(h) \/ Spurious(h)
  PROVE  Awake \subseteq Awake'
<1>0. Types
  BY DEF PoolInv
<1> USE <1>0 DEF Types, wakeVars, Awake, Exists, Dormant
<1>1. ASSUME NEW c \in Callers, Find(h, c)
      PROVE  Awake \subseteq Awake'
  BY <1>1 DEF Find, HandTo
<1>2. CASE Miss(h)
  BY <1>2 DEF Miss, HandTo
<1>3. CASE Again(h)
  BY <1>3 DEF Again, HandTo
<1>4. CASE Timeout(h)
  BY <1>4 DEF Timeout, HandTo
<1>5. CASE SetParked(h)
  BY <1>5 DEF SetParked, HandTo
<1>6. CASE Look(h)
  BY <1>6 DEF Look
<1>7. CASE Unparked(h)
  BY <1>7 DEF Unparked, HandTo
<1>8. CASE Spurious(h)
  BY <1>8 DEF Spurious, HandTo
<1>9. CASE ClearParked(h)
  BY <1>9 DEF ClearParked, HandTo
<1>10. CASE Recount(h)
  BY <1>10 DEF Recount, HandTo
<1>11. CASE StartHelp(h)
  BY <1>11 DEF StartHelp, HandTo
<1>12. CASE EndHelp(h)
  BY <1>12 DEF EndHelp, HandTo
<1> QED
  BY <1>1, <1>2, <1>3, <1>4, <1>5, <1>6, <1>7, <1>8, <1>9, <1>10, <1>11, <1>12 DEF HandStep

\* ... and whatever a caller does, unless the OS refuses the hand it counted.
LEMMA CallerKeepsAwake ==
  ASSUME PoolInv, NEW c \in Callers, Publish(c) \/ WakeStep(c) \/ EndTake(c) \/ Await(c),
         ~refused'
  PROVE  Awake \subseteq Awake'
<1>0. Types /\ SpawnOK
  BY DEF PoolInv
<1> USE <1>0 DEF Types, handVars, wakeVars, Awake, Exists, Dormant
<1>1. CASE Publish(c)
  BY <1>1 DEF Publish, CallerTo
<1>2. CASE ReadPolling(c)
  BY <1>2 DEF ReadPolling
<1>3. CASE ReadStarted(c)
  BY <1>3 DEF ReadStarted, CallerTo
<1>4. CASE SwapAwake(c)
  BY <1>4 DEF SwapAwake, Scanning
<1>5. CASE SwapParked(c)
  BY <1>5 DEF SwapParked, Scanning
<1>6. CASE Unpark(c)
  BY <1>6 DEF Unpark, CallerTo
<1>7. CASE EndScan(c)
  BY <1>7 DEF EndScan, Scanning
<1>8. CASE LockSpawning(c)
  BY <1>8 DEF LockSpawning, CallerTo
<1>9. CASE BeforeSpawn(c)
  BY <1>9 DEF BeforeSpawn, CallerTo
<1>10. CASE Spawn(c)
  BY <1>10 DEF Spawn, CallerTo
<1>11. CASE SpawnFails(c)
  BY <1>11 DEF SpawnFails, CallerTo
<1>12. CASE Register(c)
  <2>1. \A d \in Callers : cpc[d] # "birth"
    BY <1>12 DEF Register, CallerTo, SpawnOK
  <2>2. hpc' = hpc /\ token' = token /\ idx' = idx
    BY <1>12 DEF Register
  <2>3. ASSUME NEW g \in Hands, Exists(g), ~Dormant(g)
        PROVE  Exists(g)' /\ ~Dormant(g)'
    <3>1. hpc[g] # "unborn" /\ (hpc[g] = "park" => token[g] \/ Pending(g))
      BY <2>1, <2>3 DEF Pending
    <3>2. Pending(g) => Pending(g)'
      BY <1>12 DEF Pending, Register, CallerTo
    <3> QED
      BY <2>2, <3>1, <3>2 DEF Pending
  <2> QED
    BY <2>3
<1>13. CASE EndSpawn(c)
  BY <1>13 DEF EndSpawn, CallerTo
<1>14. CASE EndTake(c)
  BY <1>14 DEF EndTake, CallerTo
<1>15. CASE Await(c)
  BY <1>15 DEF Await, CallerTo
<1> QED
  BY <1>1, <1>2, <1>3, <1>4, <1>5, <1>6, <1>7, <1>8, <1>9, <1>10, <1>11, <1>12, <1>13, <1>14, <1>15
     DEF WakeStep

\* A hand whose flag was cleared is unparked, whatever a hand does ...
LEMMA HandKeepsPark ==
  ASSUME PoolInv, WakeInv, NEW h \in Hands, HandStep(h) \/ Spurious(h)
  PROVE  ParkOK'
<1>0. Types /\ ParkOK
  BY DEF PoolInv, WakeInv
<1> USE <1>0 DEF Types, wakeVars, ParkOK, Pending
<1>1. ASSUME NEW c \in Callers, Find(h, c)
      PROVE  ParkOK'
  BY <1>1 DEF Find, HandTo
<1>2. CASE Miss(h)
  BY <1>2 DEF Miss, HandTo
<1>3. CASE Again(h)
  BY <1>3 DEF Again, HandTo
<1>4. CASE Timeout(h)
  BY <1>4 DEF Timeout, HandTo
<1>5. CASE SetParked(h)
  BY <1>5 DEF SetParked, HandTo
<1>6. CASE Look(h)
  BY <1>6 DEF Look
<1>7. CASE Unparked(h)
  BY <1>7 DEF Unparked, HandTo
<1>8. CASE Spurious(h)
  BY <1>8 DEF Spurious, HandTo
<1>9. CASE ClearParked(h)
  BY <1>9 DEF ClearParked, HandTo
<1>10. CASE Recount(h)
  BY <1>10 DEF Recount, HandTo
<1>11. CASE StartHelp(h)
  BY <1>11 DEF StartHelp, HandTo
<1>12. CASE EndHelp(h)
  BY <1>12 DEF EndHelp, HandTo
<1> QED
  BY <1>1, <1>2, <1>3, <1>4, <1>5, <1>6, <1>7, <1>8, <1>9, <1>10, <1>11, <1>12 DEF HandStep

\* ... and whatever a caller does.
LEMMA CallerKeepsPark ==
  ASSUME PoolInv, WakeInv, NEW c \in Callers,
         Publish(c) \/ WakeStep(c) \/ EndTake(c) \/ Await(c)
  PROVE  ParkOK'
<1>0. Types /\ SpawnOK /\ BornOK /\ ScanOK /\ ParkOK
  BY DEF PoolInv, WakeInv
<1> USE <1>0, PoolAssumption DEF Types, Hands, handVars, wakeVars, ParkOK, Pending
<1>1. CASE Publish(c)
  BY <1>1 DEF Publish, CallerTo
<1>2. CASE ReadPolling(c)
  BY <1>2 DEF ReadPolling
<1>3. CASE ReadStarted(c)
  BY <1>3 DEF ReadStarted, CallerTo
<1>4. CASE SwapAwake(c)
  BY <1>4 DEF SwapAwake, Scanning
<1>5. CASE SwapParked(c)
  BY <1>5 DEF SwapParked, Scanning
<1>6. CASE Unpark(c)
  BY <1>6 DEF Unpark, CallerTo
<1>7. CASE EndScan(c)
  BY <1>7 DEF EndScan, Scanning
<1>8. CASE LockSpawning(c)
  BY <1>8 DEF LockSpawning, CallerTo
<1>9. CASE BeforeSpawn(c)
  BY <1>9 DEF BeforeSpawn, CallerTo
<1>10. CASE Spawn(c)
  BY <1>10 DEF Spawn, CallerTo
<1>11. CASE SpawnFails(c)
  BY <1>11 DEF SpawnFails, CallerTo
<1>12. CASE Register(c)
  BY <1>12 DEF Register, CallerTo
<1>13. CASE EndSpawn(c)
  BY <1>13 DEF EndSpawn, CallerTo
<1>14. CASE EndTake(c)
  BY <1>14 DEF EndTake, CallerTo
<1>15. CASE Await(c)
  BY <1>15 DEF Await, CallerTo
<1> QED
  BY <1>1, <1>2, <1>3, <1>4, <1>5, <1>6, <1>7, <1>8, <1>9, <1>10, <1>11, <1>12, <1>13, <1>14, <1>15
     DEF WakeStep

\* A caller's scan stays among the started hands.
LEMMA CallerKeepsScan ==
  ASSUME PoolInv, WakeInv, NEW c \in Callers,
         Publish(c) \/ WakeStep(c) \/ EndTake(c) \/ Await(c)
  PROVE  ScanOK'
<1>0. Types /\ SpawnOK /\ ScanOK
  BY DEF PoolInv, WakeInv
<1> USE <1>0, PoolAssumption DEF Types, handVars, wakeVars, ScanOK
<1>1. CASE Publish(c)
  BY <1>1 DEF Publish, CallerTo
<1>2. CASE ReadPolling(c)
  BY <1>2, PollingNat DEF ReadPolling
<1>3. CASE ReadStarted(c)
  BY <1>3 DEF ReadStarted, CallerTo
<1>4. CASE SwapAwake(c)
  BY <1>4 DEF SwapAwake, Scanning
<1>5. CASE SwapParked(c)
  BY <1>5 DEF SwapParked, Scanning
<1>6. CASE Unpark(c)
  BY <1>6 DEF Unpark, CallerTo
<1>7. CASE EndScan(c)
  BY <1>7 DEF EndScan, Scanning
<1>8. CASE LockSpawning(c)
  BY <1>8 DEF LockSpawning, CallerTo
<1>9. CASE BeforeSpawn(c)
  BY <1>9 DEF BeforeSpawn, CallerTo
<1>10. CASE Spawn(c)
  BY <1>10 DEF Spawn, CallerTo
<1>11. CASE SpawnFails(c)
  BY <1>11 DEF SpawnFails, CallerTo
<1>12. CASE Register(c)
  BY <1>12 DEF Register, CallerTo
<1>13. CASE EndSpawn(c)
  BY <1>13 DEF EndSpawn, CallerTo
<1>14. CASE EndTake(c)
  BY <1>14 DEF EndTake, CallerTo
<1>15. CASE Await(c)
  BY <1>15 DEF Await, CallerTo
<1> QED
  BY <1>1, <1>2, <1>3, <1>4, <1>5, <1>6, <1>7, <1>8, <1>9, <1>10, <1>11, <1>12, <1>13, <1>14, <1>15
     DEF WakeStep

\* A caller that comes to be roused leaves a hand awake: one that it counted,
\* passed, unparked or spawned.
LEMMA RousingWakes ==
  ASSUME PoolInv, WakeInv, NEW c \in Callers, Helpers > 0,
         Publish(c) \/ WakeStep(c) \/ EndTake(c) \/ Await(c),
         Roused(c)', open'[c], ~refused'
  PROVE  (open[c] /\ Roused(c)) \/ Awake # {} \/ Awake' # {}
<1>0. Types /\ SpawnOK /\ BornOK /\ ScanOK /\ ParkOK
  BY DEF PoolInv, WakeInv
<1>1. CASE Publish(c)
  BY <1>1, <1>0 DEF Publish, CallerTo, Types, Roused, wakeVars
<1>2. CASE ReadPolling(c)
  <2>1. short'[c] = 0 => polling > 0
    BY <1>2, <1>0, PollingNat, PoolAssumption DEF ReadPolling, Types
  <2>2. cpc'[c] \in {"take", "span"} /\ (cpc'[c] = "take" => short'[c] = 0)
    BY <1>2, <1>0 DEF ReadPolling, Types
  <2> QED
    BY <2>1, <2>2, CountedIsAwake DEF Roused
<1>3. CASE ReadStarted(c)
  BY <1>3, <1>0 DEF ReadStarted, CallerTo, Types, Roused, wakeVars
<1>4. CASE SwapAwake(c)
  <2>1. idx[c] \in Hands /\ hpc[idx[c]] # "unborn" /\ ~parked[idx[c]]
    BY <1>4, <1>0, PoolAssumption DEF SwapAwake, Scanning, ScanOK, BornOK, Types, Hands
  <2>2. hpc[idx[c]] # "park" \/ token[idx[c]] \/ Pending(idx[c])
    BY <2>1, <1>0 DEF ParkOK
  <2> QED
    BY <2>1, <2>2 DEF Awake, Exists, Dormant, Pending
<1>5. CASE SwapParked(c)
  <2>1. idx[c] \in Hands /\ hpc[idx[c]] # "unborn"
    BY <1>5, <1>0, PoolAssumption DEF SwapParked, Scanning, ScanOK, BornOK, Types, Hands
  <2>2. cpc'[c] = "unpark" /\ idx' = idx /\ hpc' = hpc
    BY <1>5, <1>0 DEF SwapParked, Types
  <2>3. idx[c] \in Awake'
    BY <2>1, <2>2 DEF Awake, Exists, Dormant
  <2> QED
    BY <2>3
<1>6. CASE Unpark(c)
  BY <1>6, <1>0 DEF Unpark, CallerTo, Types, Roused, wakeVars
<1>7. CASE EndScan(c)
  <2>1. short'[c] = short[c] /\ upto'[c] = upto[c] /\ open'[c] = open[c]
        /\ cpc[c] = "scan" /\ cpc'[c] \in {"take", "lock"}
    BY <1>7, <1>0 DEF EndScan, Types
  <2>2. idx[c] > 1 \/ ~(short[c] = 0 \/ upto[c] > 0)
    BY <1>7, <1>0, PoolAssumption DEF EndScan, Scanning, ScanOK, Types
  <2> QED
    BY <2>1, <2>2 DEF Roused
<1>8. CASE LockSpawning(c)
  BY <1>8, <1>0 DEF LockSpawning, CallerTo, Types, Roused, wakeVars
<1>9. CASE BeforeSpawn(c)
  <2>1. cpc'[c] = "birth" /\ started' = started /\ hpc' = hpc /\ token' = token /\ started < Cap
    BY <1>9, <1>0 DEF BeforeSpawn, CallerTo, Types, handVars
  <2>2. started + 1 \in Hands /\ spawning = c /\ cpc[c] = "spawn"
    BY <1>9, <1>0, PoolAssumption DEF BeforeSpawn, CallerTo, Types, Hands, SpawnOK
  <2>3. hpc[started + 1] = "unborn"
    BY <2>2, <1>0, PoolAssumption DEF SpawnOK, BornOK, Types
  <2>4. started + 1 \in Awake'
    BY <2>1, <2>2, <2>3 DEF Awake, Exists, Dormant
  <2> QED
    BY <2>4
<1>10. CASE Spawn(c)
  BY <1>10, <1>0 DEF Spawn, CallerTo, Types, Roused, wakeVars
<1>11. CASE SpawnFails(c)
  BY <1>11, <1>0 DEF SpawnFails, CallerTo, Types, Roused, wakeVars
<1>12. CASE Register(c)
  BY <1>12, <1>0 DEF Register, CallerTo, Types, Roused, wakeVars
<1>13. CASE EndSpawn(c)
  BY <1>13, <1>0 DEF EndSpawn, CallerTo, Types, Roused, wakeVars
<1>14. CASE EndTake(c)
  BY <1>14, <1>0 DEF EndTake, CallerTo, Types, Roused, wakeVars
<1>15. CASE Await(c)
  BY <1>15, <1>0 DEF Await, CallerTo, Types, Roused, wakeVars
<1> QED
  BY <1>1, <1>2, <1>3, <1>4, <1>5, <1>6, <1>7, <1>8, <1>9, <1>10, <1>11, <1>12, <1>13, <1>14, <1>15
     DEF WakeStep

\* What a step of caller c leaves of the other callers.
LEMMA OthersKept ==
  ASSUME PoolInv, NEW c \in Callers, Publish(c) \/ WakeStep(c) \/ EndTake(c) \/ Await(c),
         NEW d \in Callers \ {c}
  PROVE  /\ open'[d] = open[d] /\ (Roused(d)' <=> Roused(d))
         /\ ~refused' => ~refused
<1>0. Types
  BY DEF PoolInv
<1> USE <1>0 DEF Types, Roused, wakeVars
<1>1. CASE Publish(c)
  BY <1>1 DEF Publish, CallerTo
<1>2. CASE ReadPolling(c)
  BY <1>2 DEF ReadPolling
<1>3. CASE ReadStarted(c)
  BY <1>3 DEF ReadStarted, CallerTo
<1>4. CASE SwapAwake(c)
  BY <1>4 DEF SwapAwake
<1>5. CASE SwapParked(c)
  BY <1>5 DEF SwapParked
<1>6. CASE Unpark(c)
  BY <1>6 DEF Unpark, CallerTo
<1>7. CASE EndScan(c)
  BY <1>7 DEF EndScan
<1>8. CASE LockSpawning(c)
  BY <1>8 DEF LockSpawning, CallerTo
<1>9. CASE BeforeSpawn(c)
  BY <1>9 DEF BeforeSpawn, CallerTo
<1>10. CASE Spawn(c)
  BY <1>10 DEF Spawn, CallerTo
<1>11. CASE SpawnFails(c)
  BY <1>11 DEF SpawnFails, CallerTo
<1>12. CASE Register(c)
  BY <1>12 DEF Register, CallerTo
<1>13. CASE EndSpawn(c)
  BY <1>13 DEF EndSpawn, CallerTo
<1>14. CASE EndTake(c)
  BY <1>14 DEF EndTake, CallerTo
<1>15. CASE Await(c)
  BY <1>15 DEF Await, CallerTo
<1> QED
  BY <1>1, <1>2, <1>3, <1>4, <1>5, <1>6, <1>7, <1>8, <1>9, <1>10, <1>11, <1>12, <1>13, <1>14, <1>15
     DEF WakeStep

\* A caller with an open offer that is past its wake-up leaves a hand awake.
LEMMA AwakeKept ==
  ASSUME PoolInv, WakeInv, [Next]_vars
  PROVE  AwakeOK'
<1>0. Types /\ AwakeOK
  BY DEF PoolInv, WakeInv
<1>1. ASSUME NEW h \in Hands, HandStep(h) \/ Spurious(h)
      PROVE  AwakeOK'
  <2>1. /\ \A c \in Callers : open'[c] => open[c]
        /\ UNCHANGED <<cpc, wakeVars, refused>>
    BY <1>0, <1>1 DEF Types, HandStep, Spurious, Find, Miss, Again, Timeout, SetParked, Look, Unparked,
                      ClearParked, Recount, StartHelp, EndHelp
  <2>2. SUFFICES ASSUME NEW c \in Callers, open'[c], Helpers > 0, ~refused', Roused(c)'
                 PROVE  Awake' # {}
    BY DEF AwakeOK
  <2>3. open[c] /\ ~refused /\ Roused(c)
    BY <2>1, <2>2 DEF Roused, wakeVars
  <2>4. Awake # {} /\ OpenBlocks
    BY <1>0, <2>2, <2>3 DEF AwakeOK, OpenBlocks
  <2> QED
    BY <1>1, <2>4, HandKeepsAwake
<1>2. ASSUME NEW c \in Callers, Publish(c) \/ WakeStep(c) \/ EndTake(c) \/ Await(c)
      PROVE  AwakeOK'
  <2>1. SUFFICES ASSUME NEW d \in Callers, open'[d], Helpers > 0, ~refused', Roused(d)'
                 PROVE  Awake' # {}
    BY DEF AwakeOK
  <2>2. Awake \subseteq Awake'
    BY <1>2, <2>1, CallerKeepsAwake
  <2>3. CASE d = c
    <3>1. (open[c] /\ Roused(c)) \/ Awake # {} \/ Awake' # {}
      BY <1>2, <2>1, <2>3, RousingWakes
    <3>2. ~refused
      BY <1>2, <2>1, <1>0 DEF WakeStep, Publish, ReadPolling, ReadStarted, SwapAwake, SwapParked, Unpark,
           EndScan, LockSpawning, BeforeSpawn, Spawn, SpawnFails, Register, EndSpawn, EndTake, Await
    <3> QED
      BY <3>1, <3>2, <2>1, <2>2, <1>0 DEF AwakeOK
  <2>4. CASE d # c
    <3>1. open[d] /\ Roused(d) /\ ~refused
      BY <1>2, <2>1, <2>4, OthersKept
    <3> QED
      BY <3>1, <2>1, <2>2, <1>0 DEF AwakeOK
  <2> QED
    BY <2>3, <2>4
<1>3. CASE UNCHANGED vars
  BY <1>0, <1>3 DEF vars, handVars, wakeVars, AwakeOK, Roused, Awake, Exists, Dormant
<1> QED
  BY <1>1, <1>2, <1>3 DEF Next

\* Every step keeps the wake-ups.
LEMMA NextWake ==
  ASSUME PoolInv, WakeInv, [Next]_vars
  PROVE  WakeInv'
<1>0. ScanOK /\ ParkOK
  BY DEF WakeInv
<1>1. ASSUME NEW h \in Hands, HandStep(h) \/ Spurious(h)
      PROVE  ScanOK' /\ ParkOK'
  <2>1. UNCHANGED <<cpc, wakeVars, started>>
    BY <1>1 DEF HandStep, Spurious, Find, Miss, Again, Timeout, SetParked, Look, Unparked,
                ClearParked, Recount, StartHelp, EndHelp
  <2> QED
    BY <1>0, <1>1, <2>1, HandKeepsPark DEF ScanOK, wakeVars
<1>2. ASSUME NEW c \in Callers, Publish(c) \/ WakeStep(c) \/ EndTake(c) \/ Await(c)
      PROVE  ScanOK' /\ ParkOK'
  BY <1>2, CallerKeepsScan, CallerKeepsPark
<1>3. ASSUME UNCHANGED vars
      PROVE  ScanOK' /\ ParkOK'
  BY <1>0, <1>3 DEF vars, handVars, wakeVars, ScanOK, ParkOK, Pending
<1> QED
  BY <1>1, <1>2, <1>3, AwakeKept DEF Next, WakeInv

\* At first no caller scans, and the hands that sleep have their flag up.
LEMMA InitWake ==
  ASSUME Init
  PROVE  WakeInv
<1>1. ScanOK /\ AwakeOK
  BY DEF Init, ScanOK, AwakeOK, Roused
<1>2. ParkOK
  BY PoolAssumption DEF Init, ParkOK, Hands
<1> QED
  BY <1>1, <1>2 DEF WakeInv

\* WakeInv holds in every reachable state: a scan passes only hands that were
\* started, a hand about to park whose flag was cleared is unparked, and a
\* caller past its wake-up has left a hand awake.
THEOREM WakeInvariant == Spec => [](PoolInv /\ WakeInv)
<1> QED
  BY InitPool, InitWake, NextPool, NextWake, PTL DEF Spec

\* The wake-up is not lost: once almide_fan_pool_wake is over and has got what
\* it asked for or seen a hand that was started, some hand is awake for as long
\* as the offer has a block left.
THEOREM WakeUpIsNotLost == Spec => []SomeHandAwake
<1>1. ASSUME WakeInv
      PROVE  SomeHandAwake
  BY <1>1 DEF WakeInv, AwakeOK, Roused, SomeHandAwake, Woken
<1> QED
  BY <1>1, WakeInvariant, PTL
-----------------------------------------------------------------------------
(* The search *)


SearchTypes ==
  /\ verdict \in [Elems -> Verdicts]
  /\ next \in 0..NBlocks
  /\ hit \in BOOLEAN
  /\ pc \in [Threads -> {"draw", "check", "look", "end", "trap", "out"}]
  /\ at \in [Threads -> Elems]
  /\ done \subseteq 0..(NBlocks - 1)
  /\ result \in {"none", "true", "false", "exit"}

\* The flag is up only over a hit.
HitOK == hit => \E i \in Elems : verdict[i] = "hit"

\* A thread that waits in a trap is at the element that trapped, and one that
\* is out has seen the last block drawn.
PlaceOK ==
  \A t \in Threads :
    /\ pc[t] = "trap" => verdict[at[t]] = "trap"
    /\ pc[t] = "out" => next = NBlocks

\* Thread t still has element i before it.
Owes(t, i) == pc[t] \in {"check", "look", "trap"} /\ BlockOf(t) = i \div BlockSize /\ at[t] <= i

\* An element of a block that was drawn is a miss, or a thread has still to
\* come to it; unless the flag is up.
CoverOK ==
  \A i \in Elems : i \div BlockSize < next /\ verdict[i] # "miss" /\ ~hit =>
    \E t \in Threads : Owes(t, i)

\* What is returned is right.
ResultOK ==
  /\ result = "false" => Decisive = {}
  /\ result = "true" => \E i \in Elems : verdict[i] = "hit"
  /\ result = "exit" => \E i \in Elems : verdict[i] = "trap"

SearchInv == SearchTypes /\ HitOK /\ PlaceOK /\ CoverOK /\ ResultOK
-----------------------------------------------------------------------------
(* The blocks *)

\* What division gives: a quotient and a remainder below the divisor.
LEMMA DivBounds ==
  ASSUME NEW a \in Nat, NEW b \in Nat \ {0}
  PROVE  a \div b \in Nat /\ b * (a \div b) <= a /\ a < b * (a \div b) + b
<1> QED
  OBVIOUS

\* Multiplying by a positive number keeps the order.
LEMMA TimesKeeps ==
  ASSUME NEW b \in Nat \ {0}, NEW q \in Int, NEW r \in Int, q <= r
  PROVE  b * q <= b * r
<1> QED
  OBVIOUS

\* The quotient is the only number with its bounds.
LEMMA DivUnique ==
  ASSUME NEW a \in Nat, NEW b \in Nat \ {0}, NEW q \in Int, b * q <= a, a < b * q + b
  PROVE  a \div b = q
<1> DEFINE r == a \div b
<1>1. r \in Nat /\ b * r <= a /\ a < b * r + b
  BY DivBounds
<1> HIDE DEF r
<1>2. ~ (r < q)
  <2> SUFFICES ASSUME r < q PROVE FALSE
    OBVIOUS
  <2>1. b * (r + 1) <= b * q
    BY <1>1, TimesKeeps
  <2> QED
    BY <2>1, <1>1
<1>3. ~ (q < r)
  <2> SUFFICES ASSUME q < r PROVE FALSE
    OBVIOUS
  <2>1. b * (q + 1) <= b * r
    BY <1>1, TimesKeeps
  <2> QED
    BY <2>1, <1>1
<1> QED
  BY <1>1, <1>2, <1>3 DEF r

\* A larger dividend has no smaller quotient.
LEMMA DivMonotone ==
  ASSUME NEW a \in Nat, NEW c \in Nat, NEW b \in Nat \ {0}, a <= c
  PROVE  a \div b <= c \div b
<1> DEFINE q == a \div b  r == c \div b
<1>1. /\ q \in Nat /\ b * q <= a /\ a < b * q + b
      /\ r \in Nat /\ b * r <= c /\ c < b * r + b
  BY DivBounds
<1> HIDE DEF q, r
<1>2. ~ (r < q)
  <2> SUFFICES ASSUME r < q PROVE FALSE
    OBVIOUS
  <2>1. b * (r + 1) <= b * q
    BY <1>1, TimesKeeps
  <2> QED
    BY <2>1, <1>1
<1>3. q <= r
  BY <1>1, <1>2
<1> QED
  BY <1>3 DEF q, r

\* almide_fan_block answers at least one element per block.
LEMMA SizePositive == BlockSize \in Nat \ {0}
<1>1. Cardinality(Threads) \in Nat \ {0}
  BY SearchAssumption, FS_CardinalityType, FS_EmptySet
<1> DEFINE c == Cardinality(Threads) * PerWorker
<1>2. c \in Nat \ {0}
  BY <1>1, SearchAssumption
<1> HIDE DEF c
<1>3. NElems + c - 1 \in Nat
  BY <1>2, SearchAssumption
<1>4. DivCeil(NElems, c) \in Nat
  BY <1>2, <1>3, DivBounds DEF DivCeil
<1> QED
  BY <1>4 DEF BlockSize, c

\* The chunks are NBlocks in number, the last one perhaps short: they end at or
\* after the end of the list, and each begins before it.
LEMMA BlocksCover ==
  /\ NBlocks \in Nat \ {0}
  /\ NElems <= BlockSize * NBlocks
  /\ BlockSize * NBlocks < NElems + BlockSize
<1> DEFINE b == BlockSize  n == NBlocks
<1>1. b \in Nat \ {0}
  BY SizePositive
<1>2. NElems + b - 1 \in Nat
  BY <1>1, SearchAssumption
<1>3. n = (NElems + b - 1) \div b
  BY DEF NBlocks, DivCeil
<1> HIDE DEF b, n
<1>4. n \in Nat /\ b * n <= NElems + b - 1 /\ NElems + b - 1 < b * n + b
  BY <1>1, <1>2, <1>3, DivBounds
<1>5. n # 0
  BY <1>1, <1>4, SearchAssumption
<1>6. NElems <= b * n /\ b * n < NElems + b
  BY <1>1, <1>4, SearchAssumption
<1> QED
  BY <1>4, <1>5, <1>6 DEF b, n

\* Every element is in one of the chunks.
LEMMA BlockOfElem ==
  ASSUME NEW i \in Elems
  PROVE  i \in Nat /\ i \div BlockSize \in 0..(NBlocks - 1)
<1> DEFINE b == BlockSize  n == NBlocks  q == i \div BlockSize
<1>1. b \in Nat \ {0} /\ n \in Nat \ {0} /\ NElems <= b * n
  BY SizePositive, BlocksCover
<1>2. i \in Nat /\ i < NElems
  BY SearchAssumption DEF Elems
<1>3. q \in Nat /\ b * q <= i
  BY <1>1, <1>2, DivBounds
<1> HIDE DEF b, n, q
<1>4. ~ (n <= q)
  <2> SUFFICES ASSUME n <= q PROVE FALSE
    OBVIOUS
  <2>1. b * n <= b * q
    BY <1>1, <1>3, TimesKeeps
  <2>2. b * n \in Int /\ b * q \in Int
    BY <1>1, <1>3
  <2> QED
    BY <2>1, <2>2, <1>1, <1>2, <1>3, SearchAssumption
<1>5. q \in 0..(n - 1)
  BY <1>1, <1>3, <1>4
<1> QED
  BY <1>2, <1>5 DEF n, q

\* The block that is drawn next begins at an element of its own.
LEMMA BlockStart ==
  ASSUME NEW k \in Nat, k < NBlocks
  PROVE  /\ k * BlockSize \in Elems
         /\ (k * BlockSize) \div BlockSize = k
         /\ \A i \in Elems : i \div BlockSize = k => k * BlockSize <= i
<1> DEFINE b == BlockSize  n == NBlocks
<1>1. b \in Nat \ {0} /\ n \in Nat \ {0} /\ b * n < NElems + b
  BY SizePositive, BlocksCover
<1>2. k < n
  OBVIOUS
<1>3. \A i \in Elems : i \div b = k => k * b <= i
  <2> SUFFICES ASSUME NEW i \in Elems, i \div b = k PROVE k * b <= i
    OBVIOUS
  <2>1. i \in Nat
    BY BlockOfElem
  <2>2. b * k <= i
    BY <2>1, <1>1, DivBounds
  <2> HIDE DEF b
  <2> QED
    BY <2>2, <1>1
<1> HIDE DEF b, n
<1>4. b * (k + 1) <= b * n
  BY <1>1, <1>2, TimesKeeps
<1>5. k * b \in Nat /\ k * b = b * k /\ b * (k + 1) = b * k + b /\ b * n \in Nat
  BY <1>1
<1>6. k * b < NElems
  BY <1>1, <1>4, <1>5, SearchAssumption
<1>7. k * b \in Elems
  BY <1>5, <1>6, SearchAssumption DEF Elems
<1>8. (k * b) \div b = k
  BY <1>1, <1>5, DivUnique
<1> QED
  BY <1>3, <1>7, <1>8 DEF b

\* An element whose successor is not in its chunk is the last of it.
LEMMA LastOfChunk ==
  ASSUME NEW i \in Elems, NEW j \in Elems, i < j, i \div BlockSize = j \div BlockSize
  PROVE  i + 1 \in Chunk(i \div BlockSize)
<1>1. i \in Nat /\ j \in Nat /\ i + 1 <= j
  BY BlockOfElem
<1>2. i + 1 \in Elems
  BY <1>1, SearchAssumption DEF Elems
<1>3. i \div BlockSize <= (i + 1) \div BlockSize /\ (i + 1) \div BlockSize <= j \div BlockSize
  BY <1>1, DivMonotone, SizePositive
<1>4. (i + 1) \div BlockSize = i \div BlockSize
  BY <1>2, <1>3, BlockOfElem
<1> QED
  BY <1>2, <1>4 DEF Chunk
-----------------------------------------------------------------------------
(* The steps *)

\* The search starts with nothing drawn.
LEMMA InitSearch == SearchInit => SearchInv
<1> SUFFICES ASSUME SearchInit PROVE SearchInv
  OBVIOUS
<1>1. SearchTypes
  <2>1. 0 \in Elems
    BY SearchAssumption DEF Elems
  <2>2. 0 \in 0..NBlocks
    BY BlocksCover
  <2> QED
    BY <2>1, <2>2 DEF SearchInit, SearchTypes
<1>2. CoverOK
  BY BlockOfElem DEF SearchInit, CoverOK
<1> QED
  BY <1>1, <1>2 DEF SearchInit, SearchInv, HitOK, PlaceOK, ResultOK

\* What a step of one thread changes is its own place, besides the shared state.
Alone(t) == \A u \in Threads \ {t} : pc'[u] = pc[u] /\ at'[u] = at[u]

\* A step that leaves the results, the list and the other threads alone keeps
\* the cover, if the elements it stops owing are misses or under the flag and
\* the blocks it draws are owed.
LEMMA CoverStep ==
  ASSUME SearchInv, NEW t \in Threads, Alone(t), verdict' = verdict, hit => hit', hit' \in BOOLEAN,
         next' \in Int,
         \A i \in Elems : Owes(t, i) => hit' \/ verdict[i] = "miss" \/ Owes(t, i)',
         \A i \in Elems : i \div BlockSize < next' => i \div BlockSize < next \/ Owes(t, i)'
  PROVE  CoverOK'
<1> SUFFICES ASSUME NEW i \in Elems, i \div BlockSize < next', verdict[i] # "miss", ~hit'
             PROVE  \E u \in Threads : Owes(u, i)'
  BY DEF CoverOK
<1>1. CASE Owes(t, i)'
  BY <1>1
<1>2. CASE ~Owes(t, i)'
  <2>1. i \div BlockSize < next /\ ~hit
    BY <1>2 DEF SearchInv, SearchTypes
  <2>2. PICK u \in Threads : Owes(u, i)
    BY <2>1 DEF SearchInv, CoverOK
  <2>3. u # t
    BY <1>2, <2>2
  <2>4. pc'[u] = pc[u] /\ at'[u] = at[u]
    BY <2>3 DEF Alone
  <2>5. Owes(u, i)'
    BY <2>2, <2>4 DEF Owes, BlockOf
  <2> QED
    BY <2>5
<1> QED
  BY <1>1, <1>2

\* A thread draws the next block, and owes all of it.
LEMMA DrawStep ==
  ASSUME SearchInv, result = "none", NEW t \in Threads, Draw(t)
  PROVE  SearchInv'
<1>1. /\ pc[t] = "draw" /\ next \in Nat /\ next < NBlocks /\ next' = next + 1
      /\ pc' = [pc EXCEPT ![t] = "check"] /\ at' = [at EXCEPT ![t] = next * BlockSize]
      /\ UNCHANGED <<verdict, hit, done, result>>
  BY BlocksCover DEF Draw, To, SearchInv, SearchTypes
<1>2. /\ next * BlockSize \in Elems
      /\ (next * BlockSize) \div BlockSize = next
      /\ \A i \in Elems : i \div BlockSize = next => next * BlockSize <= i
  BY <1>1, BlockStart
<1>3. pc'[t] = "check" /\ at'[t] = next * BlockSize /\ Alone(t)
  BY <1>1, <1>2 DEF SearchInv, SearchTypes, Alone
<1>4. SearchTypes'
  <2>1. next' \in 0..NBlocks
    BY <1>1, BlocksCover
  <2>2. at' \in [Threads -> Elems]
    BY <1>1, <1>2 DEF SearchInv, SearchTypes
  <2> QED
    BY <1>1, <2>1, <2>2 DEF SearchInv, SearchTypes
<1>5. PlaceOK'
  <2> SUFFICES ASSUME NEW u \in Threads
               PROVE  (pc[u] = "trap" => verdict[at[u]] = "trap")' /\ (pc[u] = "out" => next = NBlocks)'
    BY DEF PlaceOK
  <2>1. CASE u = t
    BY <1>3, <2>1
  <2>2. CASE u # t
    BY <1>1, <1>3, <2>2 DEF Alone, SearchInv, PlaceOK
  <2> QED
    BY <2>1, <2>2
<1>6. CoverOK'
  <2>1. \A i \in Elems : ~Owes(t, i)
    BY <1>1 DEF Owes
  <2>2. ASSUME NEW i \in Elems, i \div BlockSize < next', ~(i \div BlockSize < next)
        PROVE  Owes(t, i)'
    <3>1. i \div BlockSize = next
      BY <1>1, <2>2, BlockOfElem
    <3> QED
      BY <1>2, <1>3, <3>1 DEF Owes, BlockOf
  <2> QED
    BY <1>1, <1>3, <2>1, <2>2, CoverStep DEF SearchInv, SearchTypes
<1>7. HitOK' /\ ResultOK'
  BY <1>1 DEF SearchInv, HitOK, ResultOK, Decisive
<1> QED
  BY <1>4, <1>5, <1>6, <1>7 DEF SearchInv

\* A step of one thread that draws nothing, from one place to another.
LEMMA MoveStep ==
  ASSUME SearchInv, NEW t \in Threads, NEW s \in {"draw", "check", "look", "end", "trap", "out"},
         pc' = [pc EXCEPT ![t] = s], at' \in [Threads -> Elems],
         \A u \in Threads \ {t} : at'[u] = at[u],
         s = "trap" => verdict[at'[t]] = "trap",
         s = "out" => next = NBlocks,
         hit' \in BOOLEAN, hit => hit', hit' => \E i \in Elems : verdict[i] = "hit",
         done' \subseteq 0..(NBlocks - 1),
         UNCHANGED <<verdict, next, result>>,
         \A i \in Elems : Owes(t, i) => hit' \/ verdict[i] = "miss" \/ Owes(t, i)'
  PROVE  SearchInv'
<1>1. pc'[t] = s /\ Alone(t)
  BY DEF SearchInv, SearchTypes, Alone
<1>2. SearchTypes'
  BY DEF SearchInv, SearchTypes
<1>3. PlaceOK'
  <2> SUFFICES ASSUME NEW u \in Threads
               PROVE  (pc[u] = "trap" => verdict[at[u]] = "trap")' /\ (pc[u] = "out" => next = NBlocks)'
    BY DEF PlaceOK
  <2>1. CASE u = t
    BY <1>1, <2>1
  <2>2. CASE u # t
    BY <1>1, <2>2 DEF Alone, SearchInv, PlaceOK
  <2> QED
    BY <2>1, <2>2
<1>4. next' \in Int
  BY BlocksCover DEF SearchInv, SearchTypes
<1>5. CoverOK'
  BY <1>1, <1>4, CoverStep
<1>6. HitOK' /\ ResultOK'
  BY DEF SearchInv, HitOK, ResultOK, Decisive
<1> QED
  BY <1>2, <1>3, <1>5, <1>6 DEF SearchInv

\* The flag is looked at: it may be seen down though it is up, never up though
\* it is down.
LEMMA CheckStep ==
  ASSUME SearchInv, NEW t \in Threads, Check(t)
  PROVE  SearchInv'
<1>1. pc[t] = "check" /\ UNCHANGED <<verdict, next, hit, at, done, result>>
  BY DEF Check
<1>2. PICK s \in {"end", "look"} : pc' = [pc EXCEPT ![t] = s] /\ (s = "end" => hit)
  <2>1. PICK seen \in {FALSE, hit} : pc' = [pc EXCEPT ![t] = IF seen THEN "end" ELSE "look"]
    BY DEF Check, To
  <2>2. CASE seen
    BY <2>1, <2>2
  <2>3. CASE ~seen
    BY <2>1, <2>3
  <2> QED
    BY <2>2, <2>3
<1>3. pc'[t] = s /\ at'[t] = at[t]
  BY <1>1, <1>2 DEF SearchInv, SearchTypes
<1>4. \A i \in Elems : Owes(t, i) => hit' \/ Owes(t, i)'
  BY <1>1, <1>2, <1>3 DEF Owes, BlockOf
<1>5. hit \in BOOLEAN /\ (hit => \E i \in Elems : verdict[i] = "hit")
      /\ done \subseteq 0..(NBlocks - 1) /\ at \in [Threads -> Elems]
  BY DEF SearchInv, SearchTypes, HitOK
<1> QED
  BY <1>1, <1>2, <1>4, <1>5, MoveStep

\* A miss: the thread goes on with the next element, and when there is none it
\* owes nothing of its block any more.
LEMMA MissStep ==
  ASSUME SearchInv, NEW t \in Threads, LookMiss(t)
  PROVE  SearchInv'
<1>1. pc[t] = "look" /\ verdict[at[t]] = "miss" /\ UNCHANGED <<verdict, next, hit, done, result>>
  BY DEF LookMiss
<1>2. hit \in BOOLEAN /\ (hit => \E i \in Elems : verdict[i] = "hit")
      /\ done \subseteq 0..(NBlocks - 1) /\ at \in [Threads -> Elems] /\ at[t] \in Elems
  BY DEF SearchInv, SearchTypes, HitOK
<1>3. CASE at[t] + 1 \in Chunk(BlockOf(t))
  <2>1. pc' = [pc EXCEPT ![t] = "check"] /\ at' = [at EXCEPT ![t] = at[t] + 1]
    BY <1>3 DEF LookMiss, GoOn, To
  <2>2. at[t] + 1 \in Elems /\ (at[t] + 1) \div BlockSize = BlockOf(t)
    BY <1>3 DEF Chunk
  <2>3. pc'[t] = "check" /\ at'[t] = at[t] + 1
    BY <1>2, <2>1, <2>2 DEF SearchInv, SearchTypes
  <2>4. ASSUME NEW i \in Elems, Owes(t, i), verdict[i] # "miss" PROVE Owes(t, i)'
    <3>1. i \in Nat /\ at[t] \in Nat /\ at[t] <= i /\ i # at[t]
      BY <1>1, <1>2, <2>4, BlockOfElem DEF Owes
    <3>2. at[t] + 1 <= i
      BY <3>1
    <3> QED
      BY <2>2, <2>3, <2>4, <3>2 DEF Owes, BlockOf
  <2>5. at' \in [Threads -> Elems] /\ \A u \in Threads \ {t} : at'[u] = at[u]
    BY <1>2, <2>1, <2>2
  <2> QED
    BY <1>1, <1>2, <2>1, <2>4, <2>5, MoveStep
<1>4. CASE at[t] + 1 \notin Chunk(BlockOf(t))
  <2>1. pc' = [pc EXCEPT ![t] = "end"] /\ at' = at
    BY <1>4 DEF LookMiss, GoOn, To
  <2>2. ASSUME NEW i \in Elems, Owes(t, i) PROVE verdict[i] = "miss"
    <3>1. i \in Nat /\ at[t] \in Nat /\ at[t] <= i
      BY <1>2, <2>2, BlockOfElem DEF Owes
    <3>2. CASE i = at[t]
      BY <1>1, <3>2
    <3>3. CASE i # at[t]
      <4>1. at[t] < i
        BY <3>1, <3>3
      <4>2. at[t] \div BlockSize = i \div BlockSize
        BY <2>2 DEF Owes, BlockOf
      <4>3. at[t] + 1 \in Chunk(at[t] \div BlockSize)
        BY <1>2, <4>1, <4>2, LastOfChunk
      <4> QED
        BY <1>4, <4>3 DEF BlockOf
    <3> QED
      BY <3>2, <3>3
  <2> QED
    BY <1>1, <1>2, <2>1, <2>2, MoveStep
<1> QED
  BY <1>3, <1>4

\* A hit raises the flag: nothing is owed any more.
LEMMA HitStep ==
  ASSUME SearchInv, NEW t \in Threads, LookHit(t)
  PROVE  SearchInv'
<1>1. /\ verdict[at[t]] = "hit" /\ hit' = TRUE /\ pc' = [pc EXCEPT ![t] = "end"]
      /\ UNCHANGED <<verdict, next, at, done, result>>
  BY DEF LookHit, To
<1>2. done \subseteq 0..(NBlocks - 1) /\ at \in [Threads -> Elems] /\ at[t] \in Elems
  BY DEF SearchInv, SearchTypes
<1> QED
  BY <1>1, <1>2, MoveStep

\* A trap: the thread stays at its element.
LEMMA TrapStep ==
  ASSUME SearchInv, NEW t \in Threads, LookTrap(t)
  PROVE  SearchInv'
<1>1. /\ pc[t] = "look" /\ verdict[at[t]] = "trap" /\ pc' = [pc EXCEPT ![t] = "trap"]
      /\ UNCHANGED <<verdict, next, hit, at, done, result>>
  BY DEF LookTrap, To
<1>2. hit \in BOOLEAN /\ (hit => \E i \in Elems : verdict[i] = "hit")
      /\ done \subseteq 0..(NBlocks - 1) /\ at \in [Threads -> Elems]
  BY DEF SearchInv, SearchTypes, HitOK
<1>3. pc'[t] = "trap" /\ at'[t] = at[t]
  BY <1>1 DEF SearchInv, SearchTypes
<1>4. \A i \in Elems : Owes(t, i) => Owes(t, i)'
  BY <1>1, <1>3 DEF Owes, BlockOf
<1> QED
  BY <1>1, <1>2, <1>4, MoveStep

\* The block is over, or there was none: the thread owed nothing.
LEMMA EndStep ==
  ASSUME SearchInv, NEW t \in Threads, EndBlock(t) \/ DrawNone(t)
  PROVE  SearchInv'
<1>1. hit \in BOOLEAN /\ (hit => \E i \in Elems : verdict[i] = "hit")
      /\ done \subseteq 0..(NBlocks - 1) /\ at \in [Threads -> Elems] /\ at[t] \in Elems
  BY DEF SearchInv, SearchTypes, HitOK
<1>2. CASE EndBlock(t)
  <2>1. /\ pc[t] = "end" /\ pc' = [pc EXCEPT ![t] = "draw"] /\ done' = done \cup {BlockOf(t)}
        /\ UNCHANGED <<verdict, next, hit, at, result>>
    BY <1>2 DEF EndBlock, To
  <2>2. BlockOf(t) \in 0..(NBlocks - 1)
    BY <1>1, BlockOfElem DEF BlockOf
  <2>3. done' \subseteq 0..(NBlocks - 1)
    BY <1>1, <2>1, <2>2
  <2>4. \A i \in Elems : ~Owes(t, i)
    BY <2>1 DEF Owes
  <2> QED
    BY <1>1, <2>1, <2>3, <2>4, MoveStep
<1>3. CASE DrawNone(t)
  <2>1. /\ pc[t] = "draw" /\ next >= NBlocks /\ pc' = [pc EXCEPT ![t] = "out"]
        /\ UNCHANGED <<verdict, next, hit, at, done, result>>
    BY <1>3 DEF DrawNone, To
  <2>2. next = NBlocks
    BY <2>1, BlocksCover DEF SearchInv, SearchTypes
  <2>3. \A i \in Elems : ~Owes(t, i)
    BY <2>1 DEF Owes
  <2> QED
    BY <1>1, <2>1, <2>2, <2>3, MoveStep
<1> QED
  BY <1>2, <1>3

\* The end: an exit is over a trap; an offer that returned has drawn every
\* block and owes nothing, so without the flag every element was a miss.
LEMMA OverStep ==
  ASSUME SearchInv, result = "none", Return \/ \E t \in Threads : Exit(t)
  PROVE  SearchInv'
<1>1. UNCHANGED <<verdict, next, hit, pc, at, done>>
  BY DEF Return, Exit
<1>2. ResultOK' /\ result' \in {"none", "true", "false", "exit"}
  <2>1. CASE \E t \in Threads : Exit(t)
    <3>1. PICK t \in Threads : Exit(t)
      BY <2>1
    <3>2. pc[t] = "trap" /\ result' = "exit"
      BY <3>1 DEF Exit
    <3>3. verdict[at[t]] = "trap" /\ at[t] \in Elems
      BY <3>2 DEF SearchInv, PlaceOK, SearchTypes
    <3> QED
      BY <1>1, <3>2, <3>3 DEF ResultOK
  <2>2. CASE Return /\ hit
    BY <1>1, <2>2 DEF Return, ResultOK, SearchInv, HitOK
  <2>3. CASE Return /\ ~hit
    <3>1. result' = "false" /\ \A t \in Threads : pc[t] = "out"
      BY <2>3 DEF Return
    <3>2. next = NBlocks
      BY <3>1, SearchAssumption DEF SearchInv, PlaceOK
    <3>3. ASSUME NEW i \in Elems PROVE verdict[i] = "miss"
      <4>1. i \div BlockSize < next
        BY <3>2, BlockOfElem, BlocksCover
      <4>2. \A t \in Threads : ~Owes(t, i)
        BY <3>1 DEF Owes
      <4> QED
        BY <2>3, <4>1, <4>2 DEF SearchInv, CoverOK
    <3> QED
      BY <1>1, <3>1, <3>3 DEF ResultOK, Decisive
  <2> QED
    BY <2>1, <2>2, <2>3
<1> QED
  BY <1>1, <1>2 DEF SearchInv, SearchTypes, HitOK, PlaceOK, CoverOK, Owes, BlockOf

\* Every step keeps the invariant.
LEMMA NextSearch == SearchInv /\ [SearchNext]_svars => SearchInv'
<1> SUFFICES ASSUME SearchInv, [SearchNext]_svars PROVE SearchInv'
  OBVIOUS
<1>1. CASE UNCHANGED svars
  BY <1>1 DEF svars, SearchInv, SearchTypes, HitOK, PlaceOK, CoverOK, Owes, BlockOf, ResultOK, Decisive
<1>2. CASE SearchNext
  BY <1>2, DrawStep, CheckStep, MissStep, HitStep, TrapStep, EndStep, OverStep DEF SearchNext
<1> QED
  BY <1>1, <1>2
-----------------------------------------------------------------------------
(* Theorems *)

\* SearchInv holds in every reachable state: an element that was dealt is a
\* miss, or the flag is up, or some thread has still to come to it.
THEOREM SearchInvariant == SearchSpec => []SearchInv
<1> QED
  BY InitSearch, NextSearch, PTL DEF SearchSpec

\* `list.any` and `list.all` under a fan answer right: FALSE only when every
\* element is a miss, TRUE only over a hit, and they exit only over a trap;
\* for every list, callback, number of threads and block size.
THEOREM SearchAnswersRight == SearchSpec => []AnswerRight
<1>1. SearchInv => AnswerRight
  BY DEF SearchInv, SearchTypes, ResultOK, AnswerRight, SearchTypeOK
<1> QED
  BY <1>1, SearchInvariant, PTL
=============================================================================
