------------------------------- MODULE FanGate -------------------------------
(***************************************************************************)
(* The offer protocol of the native `fan` runtime (runtime/rs/src/list.rs).*)
(*                                                                         *)
(* A thread that runs a parallel list operation makes an OFFER: it cuts    *)
(* the list into blocks, keeps an AlmideFanGate in its own stack frame,    *)
(* publishes a raw pointer to it in a slot, takes blocks itself, withdraws *)
(* the pointer and waits until no helper is inside.  Helpers (the resident *)
(* pool hands, and callers that wait for their own helpers) find the       *)
(* pointer in the slot, enter the gate and take blocks too.  Nothing but   *)
(* this protocol keeps a helper from using a frame that is gone.           *)
(*                                                                         *)
(* Every atomic access of the code is a step of its own.  A Relaxed load   *)
(* (`almide_fan_steal`'s pre-checks) is a step apart from the step that    *)
(* uses its answer, so that the answer may be old when it is used.         *)
(***************************************************************************)
EXTENDS Integers, FiniteSets

CONSTANTS Callers,    \* threads that make offers; a caller also names its gate
          Hands,      \* pool threads (almide_fan_hand_loop)
          NoGate,     \* the null pointer
          NSlots,     \* length of ALMIDE_FAN_SLOTS (64 in the code)
          MaxBlocks,  \* bound on the blocks of an offer
          MaxOffers,  \* bound on the offers a caller makes
          Cores,      \* almide_rt_list_par_workers(usize::MAX)
          MaxUnwinds, \* bound on the elements that unwind (contained trap, test
                      \* build); zero in a shipped build, where a trap exits
          SameRoot    \* TRUE: the offers are made inside blocks of one outer offer
                      \* FALSE: each is outermost on its thread (`fan { }` arms)

Threads == Callers \cup Hands
Slots == 1..NSlots
NoSlot == 0
ScanPos == 1..(NSlots + 1)   \* where a scan of the slots can be

ASSUME GateAssumption ==
  /\ IsFiniteSet(Callers) /\ IsFiniteSet(Hands)
  /\ Callers \cap Hands = {}
  /\ NoGate \notin Threads
  /\ NSlots \in Nat \ {0}
  /\ MaxBlocks \in Nat \ {0}
  /\ MaxOffers \in Nat
  /\ Cores \in Nat
  /\ MaxUnwinds \in Nat /\ SameRoot \in BOOLEAN

VARIABLES
  \* the gate in caller c's frame, and the caller's own progress
  cpc,        \* where caller c is in almide_fan_deal
  offers,     \* offers c has made
  len,        \* gate.len
  next,       \* gate.next
  inside,     \* gate.inside
  counted,    \* gate.counted
  panics,     \* gate.panics is not empty
  mine,       \* the caller's own take unwound
  done,       \* blocks whose work has returned
  slot,       \* the slot almide_fan_publish returned; the scan position before
  \* the shared statics
  slotGate,   \* AlmideFanSlot.gate
  readers,    \* AlmideFanSlot.readers
  openBlocks, \* ALMIDE_FAN_OPEN_BLOCKS
  running,    \* ALMIDE_FAN_RUNNING
  unwinds,    \* elements that have unwound (history: the bound, and the premise
              \* of GlobalsExact)
  \* a thread that steals from a slot or takes blocks from a gate
  hpc,        \* where thread t is in steal / take / help
  cur,        \* the slot it scans
  on,         \* the gate pointer it holds
  blk         \* the block index it drew

gateVars == <<offers, len, next, inside, counted, panics, mine, done, slot>>
statics  == <<slotGate, readers, openBlocks, running>>
takeVars == <<hpc, cur, on, blk>>
vars == <<cpc, gateVars, statics, takeVars, unwinds>>

CallerPc == {"idle", "count", "publish", "take", "clear", "drain", "wait", "return"}
TakePc == {"off", "scan", "peeked", "held", "filter", "enter", "release",
           "draw", "uncount", "run", "handle", "leave"}

\* AlmideFanRunning counts a thread once however deep its offers nest: inside
\* an outer offer's block the caller is counted already.
CallerDepth == IF SameRoot THEN 1 ELSE 0

Init ==
  /\ cpc = [c \in Callers |-> "idle"]
  /\ offers = [c \in Callers |-> 0]
  /\ len = [c \in Callers |-> 1]
  /\ next = [c \in Callers |-> 0]
  /\ inside = [c \in Callers |-> 0]
  /\ counted = [c \in Callers |-> FALSE]
  /\ panics = [c \in Callers |-> FALSE]
  /\ mine = [c \in Callers |-> FALSE]
  /\ done = [c \in Callers |-> {}]
  /\ slot = [c \in Callers |-> NoSlot]
  /\ slotGate = [s \in Slots |-> NoGate]
  /\ readers = [s \in Slots |-> 0]
  /\ openBlocks = 0
  /\ running = CallerDepth * Cardinality(Callers)
  /\ unwinds = 0
  /\ hpc = [t \in Threads |-> "off"]
  /\ cur = [t \in Threads |-> 1]
  /\ on = [t \in Threads |-> NoGate]
  /\ blk = [t \in Threads |-> 0]
-----------------------------------------------------------------------------
(* almide_fan_deal, the caller's side *)

\* The gate is built in the frame and the caller counts as running.
Deal(c, n) ==
  /\ cpc[c] = "idle"
  /\ offers[c] < MaxOffers
  /\ offers' = [offers EXCEPT ![c] = @ + 1]
  /\ len' = [len EXCEPT ![c] = n]
  /\ next' = [next EXCEPT ![c] = 0]
  /\ inside' = [inside EXCEPT ![c] = 0]
  /\ counted' = [counted EXCEPT ![c] = FALSE]
  /\ panics' = [panics EXCEPT ![c] = FALSE]
  /\ mine' = [mine EXCEPT ![c] = FALSE]
  /\ done' = [done EXCEPT ![c] = {}]
  /\ slot' = [slot EXCEPT ![c] = NoSlot]
  /\ running' = running + (1 - CallerDepth)
  /\ cpc' = [cpc EXCEPT ![c] = "count"]
  /\ UNCHANGED <<slotGate, readers, openBlocks, takeVars, unwinds>>

\* Counted before it is visible; the slot scan starts at the first slot.
CountOpen(c) ==
  /\ cpc[c] = "count"
  /\ counted' = [counted EXCEPT ![c] = TRUE]
  /\ openBlocks' = openBlocks + 1
  /\ slot' = [slot EXCEPT ![c] = 1]
  /\ cpc' = [cpc EXCEPT ![c] = "publish"]
  /\ UNCHANGED <<offers, len, next, inside, panics, mine, done,
                 slotGate, readers, running, takeVars, unwinds>>

\* The caller starts its own take: it is a taker of its own gate.
StartTake(c) ==
  /\ cpc' = [cpc EXCEPT ![c] = "take"]
  /\ hpc' = [hpc EXCEPT ![c] = "draw"]
  /\ on' = [on EXCEPT ![c] = c]
  /\ UNCHANGED <<cur, blk>>

\* almide_fan_publish: the compare-exchange on the slot at the scan position.
Publish(c) ==
  /\ cpc[c] = "publish"
  /\ slot[c] \in Slots
  /\ slotGate[slot[c]] = NoGate
  /\ slotGate' = [slotGate EXCEPT ![slot[c]] = c]
  /\ StartTake(c)
  /\ UNCHANGED <<gateVars, readers, openBlocks, running, unwinds>>

\* Variant: the scan steps over a slot.
PublishNextTwo(c) ==
  /\ cpc[c] = "publish"
  /\ slot[c] \in Slots
  /\ slotGate[slot[c]] # NoGate
  /\ slot' = [slot EXCEPT ![c] = @ + 2]
  /\ UNCHANGED <<cpc, offers, len, next, inside, counted, panics, mine, done,
                 statics, takeVars, unwinds>>

PublishNext(c) ==
  /\ cpc[c] = "publish"
  /\ slot[c] \in Slots
  /\ slotGate[slot[c]] # NoGate
  /\ slot' = [slot EXCEPT ![c] = @ + 1]
  /\ UNCHANGED <<cpc, offers, len, next, inside, counted, panics, mine, done,
                 statics, takeVars, unwinds>>

\* No slot was free: the offer runs on its caller alone and is not counted.
PublishNone(c) ==
  /\ cpc[c] = "publish"
  /\ slot[c] \notin Slots
  /\ counted' = [counted EXCEPT ![c] = FALSE]
  /\ openBlocks' = openBlocks - 1
  /\ slot' = [slot EXCEPT ![c] = NoSlot]
  /\ StartTake(c)
  /\ UNCHANGED <<offers, len, next, inside, panics, mine, done,
                 slotGate, readers, running, unwinds>>

\* almide_fan_withdraw: clear the pointer ...
Withdraw(c) ==
  /\ cpc[c] = "clear"
  /\ slotGate' = [slotGate EXCEPT ![slot[c]] = NoGate]
  /\ cpc' = [cpc EXCEPT ![c] = "drain"]
  /\ UNCHANGED <<gateVars, readers, openBlocks, running, takeVars, unwinds>>

\* Variant: withdraw does not wait for the slot's readers.
DrainNoWait(c) ==
  /\ cpc[c] = "drain"
  /\ cpc' = [cpc EXCEPT ![c] = "wait"]
  /\ UNCHANGED <<gateVars, statics, takeVars, unwinds>>

\* ... and spin until no thread reads the slot.
Drain(c) ==
  /\ cpc[c] = "drain"
  /\ readers[slot[c]] = 0
  /\ cpc' = [cpc EXCEPT ![c] = "wait"]
  /\ UNCHANGED <<gateVars, statics, takeVars, unwinds>>

\* Variant: the caller returns once its own take is over.
AwaitNobody(c) ==
  /\ cpc[c] = "wait" /\ hpc[c] = "off"
  /\ cpc' = [cpc EXCEPT ![c] = "return"]
  /\ UNCHANGED <<gateVars, statics, takeVars, unwinds>>

\* almide_fan_wait's `done`: no helper is inside.  (A timed park between two
\* polls ends by itself and is a stuttering step.)
Await(c) ==
  /\ cpc[c] = "wait" /\ hpc[c] = "off"
  /\ inside[c] = 0
  /\ cpc' = [cpc EXCEPT ![c] = "return"]
  /\ UNCHANGED <<gateVars, statics, takeVars, unwinds>>

\* The outcomes are collected, the frame with the gate is gone.
Return(c) ==
  /\ cpc[c] = "return"
  /\ running' = running - (1 - CallerDepth)
  /\ slot' = [slot EXCEPT ![c] = NoSlot]
  /\ cpc' = [cpc EXCEPT ![c] = "idle"]
  /\ UNCHANGED <<offers, len, next, inside, counted, panics, mine, done,
                 slotGate, readers, openBlocks, takeVars, unwinds>>
-----------------------------------------------------------------------------
(* almide_fan_steal: find a published gate and enter it *)

BeginScan(t) ==
  /\ hpc' = [hpc EXCEPT ![t] = "scan"]
  /\ cur' = [cur EXCEPT ![t] = 1]
  /\ UNCHANGED <<cpc, gateVars, slotGate, readers, openBlocks, on, blk,
                 unwinds>>

\* almide_fan_hand_loop's poll: OPEN_BLOCKS is not zero and a core is free.
HandPoll(h) ==
  /\ hpc[h] = "off"
  /\ openBlocks # 0
  /\ running < Cores
  /\ running' = running + 1
  /\ BeginScan(h)

\* A caller that waits for its helpers looks for another offer of its tree.
CallerPoll(c) ==
  /\ cpc[c] = "wait" /\ hpc[c] = "off"
  /\ inside[c] # 0
  /\ openBlocks # 0
  /\ UNCHANGED running
  /\ BeginScan(c)

\* The Relaxed null check: skip the slot.  An old null may still be read of a
\* slot just published, and an old ALMIDE_FAN_HIGH ends the scan before it ...
Skip(t) ==
  /\ hpc[t] = "scan" /\ cur[t] \in Slots
  /\ cur' = [cur EXCEPT ![t] = @ + 1]
  /\ UNCHANGED <<cpc, gateVars, statics, hpc, on, blk, unwinds>>

\* ... or look at it more closely.
Peek(t) ==
  /\ hpc[t] = "scan" /\ cur[t] \in Slots
  /\ slotGate[cur[t]] # NoGate
  /\ hpc' = [hpc EXCEPT ![t] = "peeked"]
  /\ UNCHANGED <<cpc, gateVars, statics, cur, on, blk, unwinds>>

\* The caller stops being counted only where a hand's `running` is dropped.
DropRunning(t) == running' = IF t \in Hands THEN running - 1 ELSE running

\* Every slot was passed: steal answers None.
ScanEnd(t) ==
  /\ hpc[t] = "scan" /\ cur[t] \notin Slots
  /\ DropRunning(t)
  /\ hpc' = [hpc EXCEPT ![t] = "off"]
  /\ cur' = [cur EXCEPT ![t] = 1]
  /\ UNCHANGED <<cpc, gateVars, slotGate, readers, openBlocks, on, blk,
                 unwinds>>

Hold(t) ==
  /\ hpc[t] = "peeked"
  /\ readers' = [readers EXCEPT ![cur[t]] = @ + 1]
  /\ hpc' = [hpc EXCEPT ![t] = "held"]
  /\ UNCHANGED <<cpc, gateVars, slotGate, openBlocks, running, cur, on, blk,
                 unwinds>>

\* The pointer read that counts, under `readers`.
Load(t) ==
  /\ hpc[t] = "held"
  /\ on' = [on EXCEPT ![t] = slotGate[cur[t]]]
  /\ hpc' = [hpc EXCEPT ![t] = IF slotGate[cur[t]] = NoGate THEN "release" ELSE "filter"]
  /\ UNCHANGED <<cpc, gateVars, statics, cur, blk, unwinds>>

\* The offer has a block left (a Relaxed load) and `which` accepts it: a hand
\* takes any offer, a waiting caller one with its own root.
Filter(t) ==
  /\ hpc[t] = "filter"
  /\ IF next[on[t]] < len[on[t]] /\ (t \in Hands \/ SameRoot)
       THEN /\ hpc' = [hpc EXCEPT ![t] = "enter"]
            /\ UNCHANGED on
       ELSE /\ hpc' = [hpc EXCEPT ![t] = "release"]
            /\ on' = [on EXCEPT ![t] = NoGate]
  /\ UNCHANGED <<cpc, gateVars, statics, cur, blk, unwinds>>

Enter(t) ==
  /\ hpc[t] = "enter"
  /\ inside' = [inside EXCEPT ![on[t]] = @ + 1]
  /\ hpc' = [hpc EXCEPT ![t] = "release"]
  /\ UNCHANGED <<cpc, offers, len, next, counted, panics, mine, done, slot,
                 statics, cur, on, blk, unwinds>>

\* Variant: a rejected slot is passed without giving `readers` back.
ReleaseIfEntered(t) ==
  /\ hpc[t] = "release"
  /\ IF on[t] = NoGate
       THEN /\ hpc' = [hpc EXCEPT ![t] = "scan"]
            /\ cur' = [cur EXCEPT ![t] = @ + 1]
            /\ UNCHANGED readers
       ELSE /\ hpc' = [hpc EXCEPT ![t] = "draw"]
            /\ readers' = [readers EXCEPT ![cur[t]] = @ - 1]
            /\ UNCHANGED cur
  /\ UNCHANGED <<cpc, gateVars, slotGate, openBlocks, running, on, blk,
                 unwinds>>

\* `readers` is given back; the thread helps if it entered, else scans on.
Release(t) ==
  /\ hpc[t] = "release"
  /\ readers' = [readers EXCEPT ![cur[t]] = @ - 1]
  /\ IF on[t] = NoGate
       THEN /\ hpc' = [hpc EXCEPT ![t] = "scan"]
            /\ cur' = [cur EXCEPT ![t] = @ + 1]
       ELSE /\ hpc' = [hpc EXCEPT ![t] = "draw"]
            /\ UNCHANGED cur
  /\ UNCHANGED <<cpc, gateVars, slotGate, openBlocks, running, on, blk,
                 unwinds>>
-----------------------------------------------------------------------------
(* The taking loop of a gate, run by its caller and by its helpers *)

Own(t) == on[t] = t

\* The loop is over: a helper leaves the gate, the caller withdraws it.
EndTake(t) ==
  IF Own(t)
    THEN /\ cpc' = [cpc EXCEPT ![t] = IF slot[t] = NoSlot THEN "wait" ELSE "clear"]
         /\ hpc' = [hpc EXCEPT ![t] = "off"]
         /\ on' = [on EXCEPT ![t] = NoGate]
    ELSE /\ hpc' = [hpc EXCEPT ![t] = "handle"]
         /\ UNCHANGED <<cpc, on>>

\* Variant: the index is read, not fetched and added.
DrawNoAdd(t) ==
  /\ hpc[t] = "draw"
  /\ next[on[t]] < len[on[t]]
  /\ blk' = [blk EXCEPT ![t] = next[on[t]]]
  /\ hpc' = [hpc EXCEPT ![t] = "run"]
  /\ UNCHANGED <<cpc, gateVars, statics, cur, on, unwinds>>

\* AlmideFanGate::draw, the fetch_add: the thread has block next[g] now.
Draw(t) ==
  /\ hpc[t] = "draw"
  /\ next[on[t]] < len[on[t]]
  /\ next' = [next EXCEPT ![on[t]] = @ + 1]
  /\ blk' = [blk EXCEPT ![t] = next[on[t]]]
  /\ hpc' = [hpc EXCEPT ![t] = "run"]
  /\ UNCHANGED <<cpc, offers, len, inside, counted, panics, mine, done, slot,
                 statics, cur, on, unwinds>>

\* Variant: every draw past the end takes the offer out of the count.
DrawLastEvery(t) ==
  /\ hpc[t] = "draw"
  /\ next[on[t]] >= len[on[t]] /\ counted[on[t]]
  /\ next' = [next EXCEPT ![on[t]] = @ + 1]
  /\ hpc' = [hpc EXCEPT ![t] = "uncount"]
  /\ UNCHANGED <<cpc, offers, len, inside, counted, panics, mine, done, slot,
                 statics, cur, on, blk, unwinds>>

\* The draw that first runs past the last block of a counted offer.
DrawLast(t) ==
  /\ hpc[t] = "draw"
  /\ next[on[t]] = len[on[t]] /\ counted[on[t]]
  /\ next' = [next EXCEPT ![on[t]] = @ + 1]
  /\ hpc' = [hpc EXCEPT ![t] = "uncount"]
  /\ UNCHANGED <<cpc, offers, len, inside, counted, panics, mine, done, slot,
                 statics, cur, on, blk, unwinds>>

\* Any other draw past the end.
DrawNone(t) ==
  /\ hpc[t] = "draw"
  /\ \/ next[on[t]] > len[on[t]]
     \/ next[on[t]] = len[on[t]] /\ ~counted[on[t]]
  /\ next' = [next EXCEPT ![on[t]] = @ + 1]
  /\ EndTake(t)
  /\ UNCHANGED <<offers, len, inside, counted, panics, mine, done, slot,
                 statics, cur, blk, unwinds>>

Uncount(t) ==
  /\ hpc[t] = "uncount"
  /\ openBlocks' = openBlocks - 1
  /\ EndTake(t)
  /\ UNCHANGED <<gateVars, slotGate, readers, running, cur, blk, unwinds>>

\* The block's elements have run.
Run(t) ==
  /\ hpc[t] = "run"
  /\ done' = [done EXCEPT ![on[t]] = @ \cup {blk[t]}]
  /\ hpc' = [hpc EXCEPT ![t] = "draw"]
  /\ blk' = [blk EXCEPT ![t] = 0]
  /\ UNCHANGED <<cpc, offers, len, next, inside, counted, panics, mine, slot,
                 statics, cur, on, unwinds>>

\* Variant: a helper's panic is dropped.
UnwindForgotten(t) ==
  /\ unwinds < MaxUnwinds
  /\ unwinds' = unwinds + 1
  /\ hpc[t] = "run"
  /\ mine' = [mine EXCEPT ![IF Own(t) THEN t ELSE NoGate] = TRUE]
  /\ EndTake(t)
  /\ UNCHANGED <<offers, len, next, inside, counted, panics, done, slot,
                 statics, cur, blk>>

\* An element unwinds: catch_unwind ends this thread's taking, with the panic
\* left in gate.panics (a helper) or in the caller's own outcome.
Unwind(t) ==
  /\ unwinds < MaxUnwinds
  /\ unwinds' = unwinds + 1
  /\ hpc[t] = "run"
  /\ IF Own(t) THEN mine' = [mine EXCEPT ![t] = TRUE] /\ UNCHANGED panics
               ELSE panics' = [panics EXCEPT ![on[t]] = TRUE] /\ UNCHANGED mine
  /\ EndTake(t)
  /\ blk' = [blk EXCEPT ![t] = 0]
  /\ UNCHANGED <<offers, len, next, inside, counted, done, slot,
                 statics, cur>>

\* almide_fan_help, on the way out: the caller's handle is read (and cloned)
\* while the gate is certainly there ...
CloneCaller(t) ==
  /\ hpc[t] = "handle"
  /\ hpc' = [hpc EXCEPT ![t] = "leave"]
  /\ UNCHANGED <<cpc, gateVars, statics, cur, on, blk, unwinds>>

\* Variant: a helper leaves without decrementing `inside`.
LeaveNoCount(t) ==
  /\ hpc[t] = "leave"
  /\ DropRunning(t)
  /\ hpc' = [hpc EXCEPT ![t] = "off"]
  /\ on' = [on EXCEPT ![t] = NoGate]
  /\ UNCHANGED <<cpc, gateVars, slotGate, readers, openBlocks, cur, blk,
                 unwinds>>

\* ... then `inside` is decremented, and the gate is not touched again.
Leave(t) ==
  /\ hpc[t] = "leave"
  /\ inside' = [inside EXCEPT ![on[t]] = @ - 1]
  /\ DropRunning(t)
  /\ hpc' = [hpc EXCEPT ![t] = "off"]
  /\ on' = [on EXCEPT ![t] = NoGate]
  /\ UNCHANGED <<cpc, offers, len, next, counted, panics, mine, done, slot,
                 slotGate, readers, openBlocks, cur, blk, unwinds>>
-----------------------------------------------------------------------------
CallerStep(c) ==
  \/ CountOpen(c) \/ Publish(c) \/ PublishNext(c) \/ PublishNone(c)
  \/ Withdraw(c) \/ Drain(c) \/ Await(c) \/ Return(c)

TakeStep(t) ==
  \/ Skip(t) \/ Peek(t) \/ ScanEnd(t) \/ Hold(t) \/ Load(t) \/ Filter(t)
  \/ Enter(t) \/ Release(t)
  \/ Draw(t) \/ DrawLast(t) \/ DrawNone(t) \/ Uncount(t) \/ Run(t) \/ Unwind(t)
  \/ CloneCaller(t) \/ Leave(t)

Next ==
  \/ \E c \in Callers, n \in 1..MaxBlocks : Deal(c, n)
  \/ \E c \in Callers : CallerStep(c)
  \/ \E c \in Callers : CallerPoll(c)
  \/ \E h \in Hands : HandPoll(h)
  \/ \E t \in Threads : TakeStep(t)

Spec == Init /\ [][Next]_vars

\* Every thread the OS runs keeps running: a thread in the middle of an
\* operation takes its next step.  Making an offer, and polling for one, are
\* choices nothing forces.
Fairness ==
  /\ \A c \in Callers : WF_vars(CallerStep(c))
  /\ \A t \in Threads : WF_vars(TakeStep(t))

FairSpec == Spec /\ Fairness
-----------------------------------------------------------------------------
(* Properties *)

\* Every variable has its type; a slot scan stays within the slots.
TypeOK ==
  /\ cpc \in [Callers -> CallerPc]
  /\ offers \in [Callers -> Nat]
  /\ len \in [Callers -> Nat \ {0}]
  /\ next \in [Callers -> Nat]
  /\ inside \in [Callers -> Int]
  /\ counted \in [Callers -> BOOLEAN]
  /\ panics \in [Callers -> BOOLEAN]
  /\ mine \in [Callers -> BOOLEAN]
  /\ done \in [Callers -> SUBSET Nat]
  /\ slot \in [Callers -> ScanPos \cup {NoSlot}]
  /\ slotGate \in [Slots -> Callers \cup {NoGate}]
  /\ readers \in [Slots -> Int]
  /\ openBlocks \in Int
  /\ running \in Int
  /\ unwinds \in Nat
  /\ hpc \in [Threads -> TakePc]
  /\ cur \in [Threads -> ScanPos]
  /\ on \in [Threads -> Callers \cup {NoGate}]
  /\ blk \in [Threads -> Nat]

\* The threads that hold slot s's `readers`, and the helpers inside gate g.
HoldersOf(s) == {t \in Threads : hpc[t] \in {"held", "filter", "enter", "release"} /\ cur[t] = s}
HelpersIn(g) == {t \in Threads : /\ on[t] = g /\ t # g
                                 /\ hpc[t] \in {"release", "draw", "uncount", "run", "handle", "leave"}}

\* The next step of thread t reads or writes the gate `on[t]` points at (or
\* the closure, the queue and the results borrowed from the same frame).
Touches(t) == hpc[t] \in {"filter", "enter", "draw", "uncount", "run", "handle", "leave"}

\* No thread uses a gate whose frame is gone: the SAFETY notes of
\* almide_fan_deal, almide_fan_steal and almide_fan_help.
NoUseAfterFree == \A t \in Threads : Touches(t) => on[t] \in Callers /\ cpc[on[t]] # "idle"

\* The two counters the caller trusts are exact at every step: `readers` of a
\* slot and `inside` of a gate count the threads that are really there.
HoldersExact == \A s \in Slots : readers[s] = Cardinality(HoldersOf(s))
HelpersExact == \A c \in Callers : inside[c] = Cardinality(HelpersIn(c))
CountersExact == HoldersExact /\ HelpersExact

\* A block is moved out of the queue by one thread only, and runs once
\* (AlmideFanGate::draw, AlmideFanBlocks::take).
BlockTakenOnce ==
  \A t \in Threads : hpc[t] = "run" =>
    /\ blk[t] \in 0..(len[on[t]] - 1) \ done[on[t]]
    /\ \A u \in Threads \ {t} : hpc[u] = "run" /\ on[u] = on[t] => blk[u] # blk[t]

\* An offer whose outcomes carry no panic has run every block: the
\* `expect("every slot is written by its worker")` of almide_rt_list_par_map.
ReturnComplete ==
  \A c \in Callers : cpc[c] = "return" /\ ~mine[c] /\ ~panics[c] =>
    done[c] = 0..(len[c] - 1)

\* The two statics the hands look at before they touch a slot.
\* ALMIDE_FAN_RUNNING counts the callers inside offers and the hands at work,
\* once each however deep the offers nest: a count left behind would keep every
\* hand out for good (AlmideFanRunning).
\* ALMIDE_FAN_OPEN_BLOCKS, "published offers with a block left to deal", never
\* runs below the offers that still count in it (a usize below zero would wrap
\* and keep every hand polling), and with no offer being made it is zero, so
\* the hands may park.  (An element that unwinds can leave its offer counted:
\* every taker may end by unwinding, and none draws the end.)
GlobalsExact ==
  /\ running = Cardinality({c \in Callers : SameRoot \/ cpc[c] # "idle"})
                 + Cardinality({h \in Hands : hpc[h] # "off"})
  /\ openBlocks >= Cardinality({c \in Callers : counted[c] /\ next[c] <= len[c]})
                     + Cardinality({t \in Threads : hpc[t] = "uncount"})
  /\ unwinds = 0 /\ (\A c \in Callers : cpc[c] = "idle") => openBlocks = 0

\* The strengthening that makes NoUseAfterFree inductive.

\* A caller takes from its own gate while it is in "take", helps others only
\* while it waits, and a thread holds a gate pointer only from the pointer
\* read to its last use.
RolesOK ==
  /\ \A c \in Callers :
       /\ cpc[c] = "take" <=> on[c] = c
       /\ cpc[c] = "take" => hpc[c] \in {"draw", "uncount", "run"}
       /\ cpc[c] \notin {"take", "wait"} => hpc[c] = "off"
  /\ \A t \in Threads :
       /\ hpc[t] \in {"off", "scan", "peeked", "held"} => on[t] = NoGate
       /\ Touches(t) => on[t] \in Callers
       /\ hpc[t] \in {"peeked", "held", "filter", "enter", "release"} => cur[t] \in Slots

\* A gate is in a slot exactly while its caller takes or is about to withdraw.
SlotsOK ==
  /\ \A s \in Slots : slotGate[s] # NoGate =>
       slot[slotGate[s]] = s /\ cpc[slotGate[s]] \in {"take", "clear"}
  /\ \A c \in Callers :
       /\ cpc[c] = "take" => slot[c] \in Slots \cup {NoSlot}
       /\ cpc[c] \in {"clear", "drain"} => slot[c] \in Slots

\* A pointer read under `readers` is a gate not yet past draining; a thread
\* inside a gate keeps its caller from getting past waiting.
PointersOK ==
  \A t \in Threads :
    /\ hpc[t] \in {"filter", "enter"} =>
         slot[on[t]] = cur[t] /\ cpc[on[t]] \in {"take", "clear", "drain"}
    /\ on[t] # NoGate /\ on[t] # t =>
         cpc[on[t]] \in {"take", "clear", "drain", "wait"}

GateInv == TypeOK /\ RolesOK /\ SlotsOK /\ PointersOK /\ CountersExact

\* What each block of a live offer is accounted for by: a drawn block has run,
\* is being run by the one thread that drew it, or an element unwound; and a
\* caller whose take is over has seen the last block drawn (or unwound).
DoneDrawn(c) == \A b \in done[c] : b < len[c] /\ b < next[c]
DrawnCovered(c) ==
  cpc[c] # "idle" =>
    \A b \in 0..(len[c] - 1) : b < next[c] =>
      \/ b \in done[c] \/ mine[c] \/ panics[c]
      \/ \E t \in Threads : hpc[t] = "run" /\ on[t] = c /\ blk[t] = b
TakeOver(c) ==
  cpc[c] \in {"clear", "drain", "wait", "return"} => mine[c] \/ next[c] >= len[c]
Drawn(t) ==
  /\ hpc[t] = "uncount" => next[on[t]] >= len[on[t]]
  /\ hpc[t] = "run" =>
       /\ blk[t] < len[on[t]] /\ blk[t] < next[on[t]] /\ blk[t] \notin done[on[t]]
       /\ \A u \in Threads : u # t /\ hpc[u] = "run" /\ on[u] = on[t] => blk[u] # blk[t]
BlocksOK ==
  /\ \A c \in Callers : DoneDrawn(c) /\ DrawnCovered(c) /\ TakeOver(c)
  /\ \A t \in Threads : Drawn(t)

\* The offer protocol implements the promise of a parallel list operation
\* (FanOffer): whatever helpers come and go, a block runs at most once, only
\* during the call, and the call returns only when all of them have run or
\* one unwound.
Offer == INSTANCE FanOffer WITH
           MayPanic <- MaxUnwinds > 0,
           busy <- [c \in Callers |-> cpc[c] # "idle"],
           size <- len,
           ran <- done,
           unwound <- [c \in Callers |-> mine[c] \/ panics[c]]

OfferSpec == Offer!Spec

\* Every offer returns: the two waits of almide_fan_deal, for the readers of
\* its slot and for the helpers inside its gate, come to an end.  (The offers
\* are bounded in number: once all are made no caller is busy for ever.)
OfferReturns == (\E c \in Callers : cpc[c] # "idle") ~> (\A c \in Callers : cpc[c] = "idle")
=============================================================================
