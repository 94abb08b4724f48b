------------------------------ MODULE FanSearch ------------------------------
(***************************************************************************)
(* almide_fan_search of runtime/rs/src/list.rs: `list.any` and `list.all`  *)
(* under a fan.  Threads draw blocks of the list in order and evaluate     *)
(* their elements until one finds a hit; a shared flag then stops the      *)
(* others.  How threads come to an offer is FanGate's; here a fixed set of *)
(* them takes its blocks.  The trap wait is FanTimeline's, at one level.   *)
(***************************************************************************)
EXTENDS Integers, FiniteSets

CONSTANTS Threads,    \* the threads that take blocks, the caller among them
          NElems,     \* elements of the list
          PerWorker,  \* blocks per worker almide_fan_block aims at (4 in the code)
          Verdicts    \* what evaluating an element may come to

ASSUME SearchAssumption ==
  /\ IsFiniteSet(Threads) /\ Threads # {}
  /\ NElems \in Nat \ {0} /\ PerWorker \in Nat \ {0}
  /\ Verdicts \subseteq {"hit", "miss", "trap"}

Elems == 0..(NElems - 1)
DivCeil(a, b) == (a + b - 1) \div b

\* almide_fan_block, then `xs.chunks(block)`.
BlockSize ==
  LET b == DivCeil(NElems, Cardinality(Threads) * PerWorker) IN IF b < 1 THEN 1 ELSE b
NBlocks == DivCeil(NElems, BlockSize)
Chunk(b) == {i \in Elems : i \div BlockSize = b}

VARIABLES
  verdict,  \* the program: what the callback answers for each element
  next,     \* the next block to draw
  hit,      \* the shared flag
  pc,       \* what thread t does
  at,       \* the element it has reached
  done,     \* the blocks whose timeline element is over
  result    \* "none" yet, "true" or "false" as returned, or "exit"

svars == <<verdict, next, hit, pc, at, done, result>>

SearchInit ==
  /\ verdict \in [Elems -> Verdicts]
  /\ next = 0 /\ hit = FALSE /\ done = {} /\ result = "none"
  /\ pc = [t \in Threads |-> "draw"]
  /\ at = [t \in Threads |-> 0]

To(t, s) == pc' = [pc EXCEPT ![t] = s]
BlockOf(t) == at[t] \div BlockSize

Draw(t) ==
  /\ pc[t] = "draw" /\ next < NBlocks
  /\ next' = next + 1
  /\ at' = [at EXCEPT ![t] = next * BlockSize]
  /\ To(t, "check")
  /\ UNCHANGED <<verdict, hit, done, result>>

\* No block is left: the thread is out of the offer.
DrawNone(t) ==
  /\ pc[t] = "draw" /\ next >= NBlocks
  /\ To(t, "out")
  /\ UNCHANGED <<verdict, next, hit, at, done, result>>

\* The flag is read Relaxed: a thread may still read the old FALSE.  `None`
\* ends the thread's loop over this block.
Check(t) ==
  /\ pc[t] = "check"
  /\ \E seen \in {FALSE, hit} : To(t, IF seen THEN "end" ELSE "look")
  /\ UNCHANGED <<verdict, next, hit, at, done, result>>

\* The next element of the block, if it has one.
GoOn(t) ==
  IF at[t] + 1 \in Chunk(BlockOf(t))
    THEN To(t, "check") /\ at' = [at EXCEPT ![t] = @ + 1]
    ELSE To(t, "end") /\ UNCHANGED at

\* LookMiss if every verdict were stored, not only a hit.
LookMissStored(t) ==
  /\ pc[t] = "look" /\ verdict[at[t]] = "miss"
  /\ hit' = FALSE
  /\ GoOn(t)
  /\ UNCHANGED <<verdict, next, done, result>>

LookMiss(t) ==
  /\ pc[t] = "look" /\ verdict[at[t]] = "miss"
  /\ GoOn(t)
  /\ UNCHANGED <<verdict, next, hit, done, result>>

LookHit(t) ==
  /\ pc[t] = "look" /\ verdict[at[t]] = "hit"
  /\ hit' = TRUE
  /\ To(t, "end")
  /\ UNCHANGED <<verdict, next, at, done, result>>

LookTrap(t) ==
  /\ pc[t] = "look" /\ verdict[at[t]] = "trap"
  /\ To(t, "trap")
  /\ UNCHANGED <<verdict, next, hit, at, done, result>>

\* Drop for AlmideFanElem.
EndBlock(t) ==
  /\ pc[t] = "end"
  /\ done' = done \cup {BlockOf(t)}
  /\ To(t, "draw")
  /\ UNCHANGED <<verdict, next, hit, at, result>>

\* almide_fan_trap_wait: every block below is done.
Exit(t) ==
  /\ pc[t] = "trap"
  /\ \A b \in 0..(BlockOf(t) - 1) : b \in done
  /\ result' = "exit"
  /\ UNCHANGED <<verdict, next, hit, pc, at, done>>

\* The offer has returned, so this load sees every store.
Return ==
  /\ \A t \in Threads : pc[t] = "out"
  /\ result' = IF hit THEN "true" ELSE "false"
  /\ UNCHANGED <<verdict, next, hit, pc, at, done>>

SearchNext ==
  /\ result = "none"
  /\ \/ \E t \in Threads :
          \/ Draw(t) \/ DrawNone(t) \/ Check(t) \/ LookMiss(t) \/ LookHit(t) \/ LookTrap(t)
          \/ EndBlock(t) \/ Exit(t)
     \/ Return

SearchSpec == SearchInit /\ [][SearchNext]_svars
-----------------------------------------------------------------------------
\* The elements that are not simply passed over.
Decisive == {i \in Elems : verdict[i] # "miss"}

\* Every variable has its type; no thread is past the end of the list.
SearchTypeOK ==
  /\ next \in 0..NBlocks /\ hit \in BOOLEAN /\ done \subseteq 0..(NBlocks - 1)
  /\ \A t \in Threads : at[t] \in Elems
  /\ pc \in [Threads -> {"draw", "check", "look", "end", "trap", "out"}]
  /\ result \in {"none", "true", "false", "exit"}

\* With a callback that does not trap, `any` answers as it does sequentially,
\* though the flag is read stale and blocks are cut short (C-321: "Output is
\* the same either way" at almide_rt_fan_plan).  With one that may trap it
\* still never answers FALSE for TRUE, and it exits only over a real trap.
\* With it, the types.
AnswerRight ==
  /\ SearchTypeOK
  /\ result = "false" => Decisive = {}
  /\ result = "true" => \E i \in Elems : verdict[i] = "hit"
  /\ result = "exit" => \E i \in Elems : verdict[i] = "trap"
=============================================================================
