------------------------------- MODULE FanNest -------------------------------
(***************************************************************************)
(* Offers inside offers (runtime/rs/src/list.rs) and the trap wait of      *)
(* prelude_fan.rs on the threads that run them.                            *)
(*                                                                         *)
(* A block of an offer may make an offer of its own, and a caller that     *)
(* waits for its helpers takes blocks of other offers of the same tree ON  *)
(* TOP OF the frame it waits in.  So a thread is a stack of takes, and     *)
(* what is below the top cannot go on before the top is over.  How a gate  *)
(* is entered and left safely is FanGate's; here entering is one step.     *)
(***************************************************************************)
EXTENDS Integers, Sequences, FiniteSets

CONSTANTS Threads,    \* the pool's hands and the main thread
          Main,       \* the thread that makes the outermost offer
          Offers,     \* the offers the program makes
          Outermost,  \* the first of them
          NBlocks,    \* [Offers -> number of blocks]
          MadeIn,     \* [Offers -> <<offer, block>> whose body makes it; None for Outermost]
          MayTrap,    \* the blocks <<offer, block>> whose body may end in a trap
          None

ASSUME NestAssumption ==
  /\ IsFiniteSet(Threads) /\ Main \in Threads
  /\ IsFiniteSet(Offers) /\ Outermost \in Offers /\ None \notin Offers
  /\ NBlocks \in [Offers -> Nat \ {0}]
  /\ \A o \in Offers \ {Outermost} : MadeIn[o][1] \in Offers /\ MadeIn[o][2] < NBlocks[MadeIn[o][1]]
  /\ MadeIn[Outermost] = None

VARIABLES
  stack,      \* per thread, its takes, the innermost last
  inGate,     \* ALMIDE_FAN_IN_GATE of each thread
  sink,       \* ALMIDE_FAN_SINK of each thread: <<group, index>> or None
  made,       \* offers whose almide_fan_deal is under way or has returned
  returned,   \* offers whose almide_fan_deal has returned
  published,  \* offers in a slot
  next,       \* AlmideFanGate.next
  inside,     \* AlmideFanGate.inside
  parent,     \* AlmideFanGate.parent
  above,      \* AlmideFanGroup.parent of the offer's group
  done,       \* AlmideFanState.done of the offer's group
  exited      \* the process ended in almide_abort_exit

offerVars == <<made, returned, published, next, inside, parent, above, done>>
vars == <<stack, inGate, sink, offerVars, exited>>

Top(t) == stack[t][Len(stack[t])]
TopIs(t, pcs) == stack[t] # <<>> /\ Top(t).pc \in pcs
SetTop(t, f) == stack' = [stack EXCEPT ![t][Len(stack[t])] = f]
Below(t) == SubSeq(stack[t], 1, Len(stack[t]) - 1)
Push(t, f) == stack' = [stack EXCEPT ![t] = Append(@, f)]

\* A take of offer o: `work` has no block yet, the thread-locals it must put
\* back are not set (Restore, AlmideFanElem.1, the waiter's saved sink).
NewTake(o, helper, saved) ==
  [offer |-> o, helper |-> helper, pc |-> "draw", blk |-> 0, took |-> FALSE,
   prevGate |-> None, prevSink |-> None, waitSink |-> saved, level |-> None]

Init ==
  /\ stack = [t \in Threads |-> <<>>]
  /\ inGate = [t \in Threads |-> None]
  /\ sink = [t \in Threads |-> None]
  /\ made = {} /\ returned = {} /\ published = {}
  /\ next = [o \in Offers |-> 0]
  /\ inside = [o \in Offers |-> 0]
  /\ parent = [o \in Offers |-> None]
  /\ above = [o \in Offers |-> None]
  /\ done = [o \in Offers |-> {}]
  /\ exited = FALSE
-----------------------------------------------------------------------------
(* almide_rt_list_par_map and almide_fan_deal *)

\* The group and the gate take their parents from the thread-locals of the
\* thread that makes the offer, and the caller starts to take.
MakeOffer(t, o) ==
  /\ o \notin made
  /\ IF o = Outermost THEN t = Main /\ stack[t] = <<>>
     ELSE TopIs(t, {"run"}) /\ <<Top(t).offer, Top(t).blk>> = MadeIn[o]
  /\ made' = made \cup {o}
  /\ published' = published \cup {o}
  /\ parent' = [parent EXCEPT ![o] = inGate[t]]
  /\ above' = [above EXCEPT ![o] = sink[t]]
  /\ Push(t, NewTake(o, FALSE, None))
  /\ UNCHANGED <<inGate, sink, returned, next, inside, done, exited>>

\* AlmideFanGate::draw and almide_fan_enter: the thread has the next block.
Draw(t) ==
  LET f == Top(t)
      o == f.offer IN
  /\ TopIs(t, {"draw"})
  /\ next[o] < NBlocks[o]
  /\ next' = [next EXCEPT ![o] = @ + 1]
  /\ inGate' = [inGate EXCEPT ![t] = o]
  /\ sink' = [sink EXCEPT ![t] = <<o, next[o]>>]
  /\ SetTop(t, [f EXCEPT !.pc = "run", !.blk = next[o], !.took = TRUE, !.prevSink = sink[t],
                         !.prevGate = IF f.took THEN @ ELSE inGate[t]])
  /\ UNCHANGED <<made, returned, published, inside, parent, above, done, exited>>

\* The body of the block is past the offer it makes, if it makes one.
BodyOver(t) ==
  /\ TopIs(t, {"run"})
  /\ \A o \in Offers : MadeIn[o] = <<Top(t).offer, Top(t).blk>> => o \in returned

\* Drop for AlmideFanElem: the block is done, the sink before it is back.
EndBlock(t) ==
  LET f == Top(t) IN
  /\ BodyOver(t)
  /\ done' = [done EXCEPT ![f.offer] = @ \cup {f.blk}]
  /\ sink' = [sink EXCEPT ![t] = f.prevSink]
  /\ SetTop(t, [f EXCEPT !.pc = "draw"])
  /\ UNCHANGED <<inGate, made, returned, published, next, inside, parent, above, exited>>

\* Restore: the gate that was current before the take.
Restored(t) == inGate' = [inGate EXCEPT ![t] = IF Top(t).took THEN Top(t).prevGate ELSE @]

\* The caller drew past the last block: it withdraws the offer and waits.
WithdrawAndWait(t) ==
  LET f == Top(t) IN
  /\ TopIs(t, {"draw"}) /\ ~f.helper
  /\ next[f.offer] >= NBlocks[f.offer]
  /\ Restored(t)
  /\ published' = published \ {f.offer}
  /\ SetTop(t, [f EXCEPT !.pc = "wait"])
  /\ UNCHANGED <<sink, made, returned, next, inside, parent, above, done, exited>>

\* LeaveGate if a waiting caller did not adopt its own sink again.
LeaveBareSink(t) ==
  LET f == Top(t) IN
  /\ TopIs(t, {"draw"}) /\ f.helper
  /\ next[f.offer] >= NBlocks[f.offer]
  /\ Restored(t)
  /\ sink' = [sink EXCEPT ![t] = IF f.took THEN None ELSE f.waitSink]
  /\ inside' = [inside EXCEPT ![f.offer] = @ - 1]
  /\ stack' = [stack EXCEPT ![t] = Below(t)]
  /\ UNCHANGED <<made, returned, published, next, parent, above, done, exited>>

\* The end of almide_fan_help: no sink is left behind (a hand's `waitSink` is
\* None, a waiting caller adopts its own again), the helper leaves the gate.
LeaveGate(t) ==
  LET f == Top(t) IN
  /\ TopIs(t, {"draw"}) /\ f.helper
  /\ next[f.offer] >= NBlocks[f.offer]
  /\ Restored(t)
  /\ sink' = [sink EXCEPT ![t] = f.waitSink]
  /\ inside' = [inside EXCEPT ![f.offer] = @ - 1]
  /\ stack' = [stack EXCEPT ![t] = Below(t)]
  /\ UNCHANGED <<made, returned, published, next, parent, above, done, exited>>

\* Await if the caller did not wait.
AwaitNobody(t) ==
  /\ TopIs(t, {"wait"})
  /\ returned' = returned \cup {Top(t).offer}
  /\ stack' = [stack EXCEPT ![t] = Below(t)]
  /\ UNCHANGED <<inGate, sink, made, published, next, inside, parent, above, done, exited>>

\* almide_fan_wait is over: no helper is inside, almide_fan_deal returns.
Await(t) ==
  /\ TopIs(t, {"wait"})
  /\ inside[Top(t).offer] = 0
  /\ returned' = returned \cup {Top(t).offer}
  /\ stack' = [stack EXCEPT ![t] = Below(t)]
  /\ UNCHANGED <<inGate, sink, made, published, next, inside, parent, above, done, exited>>

\* AlmideFanGate::root, along the gates' own parent pointers.
RootOf(o) ==
  LET up[n \in 0..Cardinality(Offers)] ==
        IF n = 0 THEN o ELSE IF parent[up[n - 1]] = None THEN up[n - 1] ELSE parent[up[n - 1]]
  IN  up[Cardinality(Offers)]

\* Accepts if a thread helped in the middle of a block too.
AcceptsAnywhere(t, o) == stack[t] # <<>> \/ t # Main

\* Who looks for an offer to help, and which one it accepts: an idle hand any,
\* a caller that waits one of its own tree.
Accepts(t, o) ==
  \/ stack[t] = <<>> /\ t # Main
  \/ /\ TopIs(t, {"wait"})
     /\ inside[Top(t).offer] # 0
     /\ RootOf(o) = RootOf(Top(t).offer)

\* almide_fan_steal.
Steal(t, o) ==
  /\ o \in published
  /\ next[o] < NBlocks[o]
  /\ Accepts(t, o)
  /\ inside' = [inside EXCEPT ![o] = @ + 1]
  /\ Push(t, NewTake(o, TRUE, sink[t]))
  /\ UNCHANGED <<inGate, sink, made, returned, published, next, parent, above, done, exited>>
-----------------------------------------------------------------------------
(* almide_fan_trap_wait *)

Trap(t) ==
  /\ BodyOver(t)
  /\ <<Top(t).offer, Top(t).blk>> \in MayTrap
  /\ SetTop(t, [Top(t) EXCEPT !.pc = "trap", !.level = sink[t]])
  /\ UNCHANGED <<inGate, sink, offerVars, exited>>

\* TrapUp if the element waited for itself too.
TrapUpSelf(t) ==
  LET l == Top(t).level IN
  /\ TopIs(t, {"trap"}) /\ l # None
  /\ \A b \in 0..l[2] : b \in done[l[1]]
  /\ SetTop(t, [Top(t) EXCEPT !.level = above[l[1]]])
  /\ UNCHANGED <<inGate, sink, offerVars, exited>>

\* Every block before this one is done at this level.  (A trapped block is
\* never done, so that none of them has trapped follows: TrapIsFirst in
\* FanTimeline.)
TrapUp(t) ==
  LET l == Top(t).level IN
  /\ TopIs(t, {"trap"}) /\ l # None
  /\ \A b \in 0..(l[2] - 1) : b \in done[l[1]]
  /\ SetTop(t, [Top(t) EXCEPT !.level = above[l[1]]])
  /\ UNCHANGED <<inGate, sink, offerVars, exited>>

Exit(t) ==
  /\ TopIs(t, {"trap"}) /\ Top(t).level = None
  /\ exited' = TRUE
  /\ UNCHANGED <<stack, inGate, sink, offerVars>>
-----------------------------------------------------------------------------
Step(t) ==
  \/ \E o \in Offers : MakeOffer(t, o) \/ Steal(t, o)
  \/ Draw(t) \/ EndBlock(t) \/ WithdrawAndWait(t) \/ LeaveGate(t) \/ Await(t)
  \/ Trap(t) \/ TrapUp(t) \/ Exit(t)

Next == ~exited /\ \E t \in Threads : Step(t)

Spec == Init /\ [][Next]_vars
\* The OS runs every thread.
FairSpec == Spec /\ \A t \in Threads : WF_vars(~exited /\ Step(t))
-----------------------------------------------------------------------------
\* Every frame is a block of a made offer, every count is a count.
TypeOK ==
  /\ \A t \in Threads : \A i \in 1..Len(stack[t]) :
       LET f == stack[t][i] IN
       /\ f.offer \in made \ returned
       /\ f.pc \in {"draw", "run", "wait", "trap"}
       /\ f.blk \in 0..(NBlocks[f.offer] - 1)
  /\ \A o \in Offers : next[o] \in 0..NBlocks[o] /\ inside[o] \in Nat
  /\ published \subseteq made \ returned
  /\ \A o \in Offers : done[o] \subseteq 0..(NBlocks[o] - 1)

\* AlmideFanGate.parent: "It outlives this one: the block does not end before
\* this offer returns".  An offer whose gate can still be read has a parent
\* whose gate is still in its caller's frame, though another thread made it.
\* With it, the types.
ParentsLive ==
  /\ TypeOK
  /\ \A o \in made \ returned : parent[o] # None => parent[o] \in made \ returned

\* A thread's sink and gate are those of the block its body is in, whatever
\* it helped in between: what the rest of the block prints goes to its own
\* timeline, and an offer it makes joins its own tree (almide_fan_adopt after
\* almide_fan_help, Restore in almide_fan_deal).
LocalsFollowBlock ==
  \A t \in Threads : \A i \in 1..Len(stack[t]) :
    LET f == stack[t][i] IN
    /\ i = Len(stack[t]) /\ f.pc = "run" =>
         sink[t] = <<f.offer, f.blk>> /\ inGate[t] = f.offer
    /\ MadeIn[f.offer] # None =>
         above[f.offer] = MadeIn[f.offer] /\ parent[f.offer] = MadeIn[f.offer][1]

\* Thread t cannot go on before thread u has: t waits for its helpers and u
\* is one, or t has trapped and u runs a block before it at its level.
WaitsFor(t, u) ==
  \E i \in 1..Len(stack[u]) :
    LET f == stack[u][i] IN
    \/ TopIs(t, {"wait"}) /\ f.helper /\ f.offer = Top(t).offer
    \/ /\ TopIs(t, {"trap"}) /\ Top(t).level # None
       /\ f.offer = Top(t).level[1]
       /\ f.pc \in {"run", "trap"}
       /\ f.blk < Top(t).level[2]

\* No thread waits for itself, in one step or through others: taking blocks
\* while it waits never buries a block that someone on top of it waits for
\* (almide_fan_deal's waiting loop, almide_fan_trap_wait).
\* Said of every group of threads: one of them waits for none of the group.
NoWaitCycle ==
  \A S \in (SUBSET Threads) \ {{}} : \E t \in S : \A u \in S : ~WaitsFor(t, u)

\* The program ends: the outermost offer returns, or a trap exits.
NestEnds == <>(exited \/ Outermost \in returned)

\* A trap inside a fan element "terminates the program" (contract C-200).
TrapExits == (\E t \in Threads : TopIs(t, {"trap"})) ~> exited
=============================================================================
