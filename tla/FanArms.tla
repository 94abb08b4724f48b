------------------------------- MODULE FanArms -------------------------------
(***************************************************************************)
(* The arms of `fan { }` blocks (crates/almide-codegen/src/prelude_fan.rs, *)
(* almide_fan_spawn and almide_fan_take; the block that calls them is      *)
(* crates/almide-codegen/src/walker/expressions_fan.rs, render_fan).  A    *)
(* block reaches its arms in order.  Each gets a thread of its own while   *)
(* fewer than MaxThreads are counted and the OS grants one; otherwise it   *)
(* runs on the thread that reached it, before the next arm is reached.     *)
(* Arms hold blocks themselves, so the threads form a tree.  The count is  *)
(* shared with the line-fold workers (fs.fold_lines_chunked), which are    *)
(* arms of no block and are left out.                                      *)
(*                                                                         *)
(* An arm of a Result type may end in an Err.  In an effect fn the block   *)
(* applies `?` to each result in turn (template fan_effect), elsewhere     *)
(* `.unwrap()` (fan_expr), so the first Err leaves the block's scope while *)
(* later arms may still run.                                               *)
(***************************************************************************)
EXTENDS Integers, Sequences, FiniteSets

CONSTANTS Root,       \* the thread that runs the outermost block
          Arms,       \* every arm of every block
          Block,      \* Block[n]: the arms of the block that n runs, in order
          Fallible,   \* the arms of a Result type
          Effect,     \* the nodes whose block is rendered as fan_effect
          MaxThreads, \* almide_fan_arm_threads_max()
          MayPanic    \* whether a body may unwind (a contained abort)

Nodes == Arms \cup {Root}

ASSUME ArmsAssumption ==
  /\ IsFiniteSet(Arms) /\ Root \notin Arms
  /\ Block \in [Nodes -> Seq(Arms)]
  /\ \A n, m \in Nodes : \A i \in 1..Len(Block[n]), j \in 1..Len(Block[m]) :
       Block[n][i] = Block[m][j] => n = m /\ i = j
  /\ Fallible \subseteq Arms /\ Effect \subseteq Nodes
  /\ MaxThreads \in Nat \ {0}
  /\ MayPanic \in BOOLEAN

VARIABLES
  count,    \* ALMIDE_FAN_ARM_THREADS
  pc,       \* where arm a is; Root is "run" until it is over
  own,      \* whether arm a has a thread of its own
  cell,     \* whether the arm's closure is still in its cell
  reached,  \* how many arms of its block n has reached
  taken,    \* how many of them it has taken a value from
  ran       \* history: how often arm a's closure was called

vars == <<count, pc, own, cell, reached, taken, ran>>

Settled == {"done", "err"}
Over == Settled \cup {"panicked"}
Pcs == {"idle", "over", "slot", "spawned", "refused", "run", "leave", "unwind", "ret", "fail"}
         \cup Over

Init ==
  /\ count = 0
  /\ pc = [n \in Nodes |-> IF n = Root THEN "run" ELSE "idle"]
  /\ own = [n \in Nodes |-> FALSE]
  /\ cell = [n \in Arms |-> TRUE]
  /\ reached = [n \in Nodes |-> 0]
  /\ taken = [n \in Nodes |-> 0]
  /\ ran = [n \in Arms |-> 0]

To(n, s) == pc' = [pc EXCEPT ![n] = s]

ArmsOf(n) == {Block[n][i] : i \in 1..Len(Block[n])}
Current(n) == Block[n][reached[n]]

\* n runs its own code: it is not inside almide_fan_spawn, nor inside an arm
\* it runs inline.
Free(n) ==
  /\ pc[n] = "run"
  /\ reached[n] > 0 => (own[Current(n)] \/ pc[Current(n)] \in Settled)

\* PastBound off by one.
PastBoundLate == count > MaxThreads

PastBound == count >= MaxThreads

\* almide_fan_spawn: the count is added to first and compared after.
Reach(n, a) ==
  /\ Free(n) /\ reached[n] < Len(Block[n]) /\ a = Block[n][reached[n] + 1]
  /\ reached' = [reached EXCEPT ![n] = @ + 1]
  /\ count' = count + 1
  /\ To(a, IF PastBound THEN "over" ELSE "slot")
  /\ UNCHANGED <<own, cell, taken, ran>>

\* GiveBack for an arm that waits until a thread may be had.
WaitForThread(a) ==
  /\ pc[a] = "over" /\ count <= MaxThreads
  /\ To(a, "slot")
  /\ UNCHANGED <<count, own, cell, reached, taken, ran>>

\* Past the bound: drop(AlmideFanArmSlot), then f() on this thread.
GiveBack(a) ==
  /\ pc[a] = "over"
  /\ count' = count - 1
  /\ ran' = [ran EXCEPT ![a] = @ + 1]
  /\ To(a, "run")
  /\ UNCHANGED <<own, cell, reached, taken>>

\* spawn_scoped: the slot moves into the new thread.
Spawn(a) ==
  /\ pc[a] = "slot"
  /\ own' = [own EXCEPT ![a] = TRUE]
  /\ To(a, "spawned")
  /\ UNCHANGED <<count, cell, reached, taken, ran>>

\* The OS refuses the thread: the closure is dropped, and the slot in it.
RefuseSpawn(a) ==
  /\ pc[a] = "slot"
  /\ count' = count - 1
  /\ To(a, "refused")
  /\ UNCHANGED <<own, cell, reached, taken, ran>>

\* The closure is taken from its cell, by the new thread or, after a
\* refusal, by the one that asked for it.
TakeClosure(a) ==
  /\ pc[a] \in {"spawned", "refused"} /\ cell[a]
  /\ cell' = [cell EXCEPT ![a] = FALSE]
  /\ ran' = [ran EXCEPT ![a] = @ + 1]
  /\ To(a, "run")
  /\ UNCHANGED <<count, own, reached, taken>>

\* almide_fan_take of the next arm, once every arm was reached, and the
\* join's `?` or `.unwrap()`.  The handles not yet taken are dropped with the
\* scope's closure.
TakeResult(n) ==
  /\ Free(n) /\ reached[n] = Len(Block[n]) /\ taken[n] < Len(Block[n])
  /\ LET a == Block[n][taken[n] + 1]
     IN  \/ /\ pc[a] = "done"
            /\ taken' = [taken EXCEPT ![n] = @ + 1]
            /\ UNCHANGED pc
         \/ /\ pc[a] = "err"
            /\ To(n, IF n \in Effect THEN "leave" ELSE "unwind")
            /\ UNCHANGED taken
         \/ /\ pc[a] = "panicked"      \* almide_fan_join: resume_unwind
            /\ To(n, "unwind")
            /\ UNCHANGED taken
  /\ UNCHANGED <<count, own, cell, reached, ran>>

AllTaken(n) == taken[n] = Len(Block[n])

\* Scope if the arms were plain threads, detached when their handles are
\* dropped.
ScopeDetached(n) == TRUE

\* std::thread::scope, external: however its closure ends, it waits for every
\* thread started in it.
Scope(n) == \A a \in ArmsOf(n) : own[a] => pc[a] \in Over

\* It panics itself if a thread it was left to wait for did.
Unjoined(n) == {Block[n][i] : i \in (taken[n] + 1)..Len(Block[n])}
ScopePanics(n) == \E a \in Unjoined(n) : own[a] /\ pc[a] = "panicked"

\* How a body that returns may end.  An Err of its block does not decide it:
\* the block may be a called fn's, and the body may handle what that returns.
Endings(n) == {"done"} \cup (IF n \in Fallible THEN {"err"} ELSE {})

\* The block is left, with all its values or at the first Err, and the body is
\* over: an inline arm's at once, a thread's once its slot is dropped.
ReturnBody(n) ==
  /\ pc[n] = "leave" \/ (Free(n) /\ AllTaken(n))
  /\ Scope(n)
  /\ \E end \in Endings(n) :
       To(n, IF ScopePanics(n) THEN "unwind" ELSE IF own[n] THEN "ret" ELSE end)
  /\ UNCHANGED <<count, own, cell, reached, taken, ran>>

\* The body unwinds, by itself or with the arm it runs inline.
Panic(n) ==
  /\ pc[n] = "run"
  /\ \/ MayPanic /\ Free(n)
     \/ reached[n] > 0 /\ ~own[Current(n)] /\ pc[Current(n)] = "panicked"
  /\ To(n, "unwind")
  /\ UNCHANGED <<count, own, cell, reached, taken, ran>>

\* The unwinding leaves the block's scope as well.
Unwind(n) ==
  /\ pc[n] = "unwind"
  /\ Scope(n)
  /\ To(n, IF own[n] THEN "fail" ELSE "panicked")
  /\ UNCHANGED <<count, own, cell, reached, taken, ran>>

\* The result is there to be joined.
Dropped(a) ==
  \/ pc[a] = "ret" /\ \E end \in Endings(a) : To(a, end)
  \/ pc[a] = "fail" /\ To(a, "panicked")

\* DropSlot for a slot that only a quiet end gives back.
DropSlotQuiet(a) ==
  /\ pc[a] \in {"ret", "fail"}
  /\ count' = IF pc[a] = "ret" THEN count - 1 ELSE count
  /\ Dropped(a)
  /\ UNCHANGED <<own, cell, reached, taken, ran>>

\* Drop for AlmideFanArmSlot at the end of the thread's closure, before the
\* thread can be joined.
DropSlot(a) ==
  /\ pc[a] \in {"ret", "fail"}
  /\ count' = count - 1
  /\ Dropped(a)
  /\ UNCHANGED <<own, cell, reached, taken, ran>>

Step(n) ==
  \/ TakeResult(n) \/ ReturnBody(n) \/ Unwind(n)
  \/ \E a \in Arms : Reach(n, a)

ArmStep(a) == GiveBack(a) \/ Spawn(a) \/ TakeClosure(a) \/ DropSlot(a)

Next ==
  \/ \E n \in Nodes : Step(n) \/ Panic(n)
  \/ \E a \in Arms : ArmStep(a) \/ RefuseSpawn(a)

Fairness ==
  /\ \A n \in Nodes : WF_vars(Step(n)) /\ WF_vars(Panic(n) /\ ~Free(n))
  /\ \A a \in Arms : WF_vars(ArmStep(a))

Spec == Init /\ [][Next]_vars
FairSpec == Spec /\ Fairness
-----------------------------------------------------------------------------
\* The arms counted in ALMIDE_FAN_ARM_THREADS, and those of them that were
\* counted below the bound.
Counted == {a \in Arms : pc[a] \in {"over", "slot", "spawned", "ret", "fail"}
                           \/ (own[a] /\ pc[a] \in {"run", "leave", "unwind"})}
Granted == {a \in Counted : pc[a] # "over"}
Live == {a \in Arms : own[a] /\ pc[a] \notin Over}

\* Every variable has its type.
TypeOK ==
  /\ count \in Nat
  /\ pc \in [Nodes -> Pcs]
  /\ own \in [Nodes -> BOOLEAN]
  /\ cell \in [Arms -> BOOLEAN]
  /\ reached \in [Nodes -> Nat] /\ taken \in [Nodes -> Nat]
  /\ ran \in [Arms -> Nat]

\* ALMIDE_FAN_ARM_THREADS counts, through every race of adds and drops, one
\* for each arm that was counted and has not given its slot back; so it is
\* zero again when the program's last block is over, unwound or not.  With it, the types.
CountExact == TypeOK /\ count = Cardinality(Counted)

\* Never more than MaxThreads arm threads are alive, though the count itself
\* overshoots: tests/fan_spawn_failure_test.rs:139 "fan arms ... share one
\* pool of live threads, one per available CPU".
LiveBound == Cardinality(Live) <= MaxThreads

\* The block was left by a return: with every value, or in an effect fn at the
\* Err of the first arm in the list that has one, whichever arm ended first.
LeftInOrder(n) ==
  /\ \A i \in 1..taken[n] : pc[Block[n][i]] = "done"
  /\ AllTaken(n) \/ (n \in Effect /\ pc[Block[n][taken[n] + 1]] = "err")

\* A block that returns, with an Err as well, has run each of its arms exactly
\* once to its end, those it did not join too, and its outcome is the first
\* Err in list order ("the block joins every arm, the lowest-index Err being
\* the block's", front_desugar.rs:31, of this lowering);
\* no arm ever runs twice (`unreachable!("a fan arm runs once")`).
ArmsRunOnce ==
  /\ \A a \in Arms : ran[a] <= 1
  /\ \A n \in Nodes : pc[n] \in Settled \cup {"ret"} =>
       /\ \A a \in ArmsOf(n) : ran[a] = 1 /\ pc[a] \in Settled
       /\ LeftInOrder(n)

\* Every program of nested blocks comes to an end: threads that wait for the
\* arms below them hold slots, and no arm waits for a slot.
BlocksEnd == <>(pc[Root] \in Over)
=============================================================================
