----------------------------- MODULE FanTimeline -----------------------------
(***************************************************************************)
(* The output timelines of a native `fan`                                  *)
(* (crates/almide-codegen/src/prelude_fan.rs) and the abort paths that     *)
(* wait on them (crates/almide-codegen/src/lib.rs).                        *)
(*                                                                         *)
(* Every element runs on a thread of its own.  The element at the HEAD of  *)
(* its fan writes through to the enclosing output, the others buffer; an   *)
(* element that ends drains what can go out; an element that traps waits   *)
(* for all before it.  A fan's lock is held while it drains and let go     *)
(* between the levels of a write, and stdout is buffered per thread.       *)
(***************************************************************************)
EXTENDS FanSequential

VARIABLES
  st,       \* what the element's thread is doing
  ip,       \* its next operation
  head,     \* AlmideFanState.head, per fan
  done,     \* AlmideFanState.done, per fan: the indices that are done
  trapped,  \* AlmideFanState.trapped, per fan
  bufs,     \* AlmideFanState.bufs, per element
  lock,     \* the holder of AlmideFanGroup.state while it drains, or Top
  at,       \* the sink a write or a trap wait has reached
  pend,     \* what is still to be written
  obuf,     \* ALMIDE_STDOUT_BUF of the element's thread
  aborting  \* ALMIDE_ABORTING

groupVars == <<head, done, trapped, lock>>
tvars == <<script, out, status, st, ip, groupVars, bufs, at, pend, obuf, aborting>>

GroupOf == [e \in Elem |-> CHOOSE g \in Groups : e \in Range(Fans[g])]
IndexOf == [e \in Elem |-> CHOOSE i \in 1..Len(Fans[GroupOf[e]]) : Fans[GroupOf[e]][i] = e]
Enclosing == [e \in Elem |-> StartedBy[GroupOf[e]]]

TInit ==
  /\ SInit
  /\ st = [e \in Elem |-> IF GroupOf[e] = RootFan THEN "run" ELSE "unborn"]
  /\ ip = [e \in Elem |-> 1]
  /\ head = [g \in Groups |-> 1]
  /\ done = [g \in Groups |-> {}]
  /\ trapped = [g \in Groups |-> {}]
  /\ bufs = [e \in Elem |-> <<>>]
  /\ lock = [g \in Groups |-> Top]
  /\ at = [e \in Elem |-> e]
  /\ pend = [e \in Elem |-> <<>>]
  /\ obuf = [e \in Elem |-> <<>>]
  /\ aborting = FALSE

Becomes(e, s) == st' = [st EXCEPT ![e] = s]
NextOp(e, op) == st[e] = "run" /\ ip[e] <= Len(script[e]) /\ script[e][ip[e]] = op

\* almide_stdout_flush on e's thread.
Flush(e) ==
  /\ out' = [out EXCEPT !.stdout = @ \o obuf[e]]
  /\ obuf' = [obuf EXCEPT ![e] = <<>>]
-----------------------------------------------------------------------------
(* Writing: almide_out_write, almide_out_route, almide_out_real *)

Write(e) ==
  /\ NextOp(e, "line") \/ NextOp(e, "part") \/ NextOp(e, "err")
  /\ pend' = [pend EXCEPT ![e] = <<[elem |-> e, at |-> ip[e]]>>]
  /\ at' = [at EXCEPT ![e] = e]
  /\ ip' = [ip EXCEPT ![e] = @ + 1]
  /\ Becomes(e, "write")
  /\ UNCHANGED <<script, out, status, groupVars, bufs, obuf, aborting>>

\* Where the next segment of what e writes starts: at e's own sink, or at the
\* enclosing one when e drains its fan.
FirstSink(e) == IF st[e] = "write" THEN e ELSE Enclosing[e]

\* A segment that has found its place; the write is over with the last one.
Routed(e) ==
  /\ pend' = [pend EXCEPT ![e] = Tail(@)]
  /\ at' = [at EXCEPT ![e] = FirstSink(e)]
  /\ IF st[e] = "write" THEN Becomes(e, "run") ELSE UNCHANGED st

Routing(e) == st[e] \in {"write", "advance"} /\ pend[e] # <<>>

\* One level of almide_out_route, the sink is not the head of its fan.
RouteBuffer(e) ==
  /\ Routing(e) /\ at[e] # Top
  /\ lock[GroupOf[at[e]]] = Top
  /\ head[GroupOf[at[e]]] # IndexOf[at[e]]
  /\ bufs' = [bufs EXCEPT ![at[e]] = Append(@, Head(pend[e]))]
  /\ Routed(e)
  /\ UNCHANGED <<script, out, status, ip, groupVars, obuf, aborting>>

\* One level of almide_out_route, the sink is the head: up to the next level.
RouteUp(e) ==
  /\ Routing(e) /\ at[e] # Top
  /\ lock[GroupOf[at[e]]] = Top
  /\ head[GroupOf[at[e]]] = IndexOf[at[e]]
  /\ at' = [at EXCEPT ![e] = Enclosing[at[e]]]
  /\ UNCHANGED <<script, out, status, st, ip, groupVars, bufs, pend, obuf, aborting>>

\* almide_out_real: stderr at once, stdout through the thread's line buffer.
RouteReal(e) ==
  /\ Routing(e) /\ at[e] = Top
  /\ LET x == Head(pend[e])
     IN  CASE OpOf(x) = "err"  -> /\ out' = [out EXCEPT !.stderr = Append(@, x)]
                                  /\ UNCHANGED obuf
           [] OpOf(x) = "part" -> /\ obuf' = [obuf EXCEPT ![e] = Append(@, x)]
                                  /\ UNCHANGED out
           [] OpOf(x) = "line" -> /\ out' = [out EXCEPT !.stdout = @ \o Append(obuf[e], x)]
                                  /\ obuf' = [obuf EXCEPT ![e] = <<>>]
  /\ Routed(e)
  /\ UNCHANGED <<script, status, ip, groupVars, bufs, aborting>>
-----------------------------------------------------------------------------
(* A nested fan: almide_fan_group, one almide_fan_spawn per element, the join *)

StartFan(e) ==
  /\ NextOp(e, "fan")
  /\ Flush(e)
  /\ st' = [x \in Elem |-> IF x = e THEN "join"
                           ELSE IF GroupOf[x] = ChildOf(e) THEN "run" ELSE st[x]]
  /\ UNCHANGED <<script, status, ip, groupVars, bufs, at, pend, aborting>>

JoinFan(e) ==
  /\ st[e] = "join"
  /\ \A x \in Range(Fans[ChildOf(e)]) : st[x] = "done"
  /\ ip' = [ip EXCEPT ![e] = @ + 1]
  /\ Becomes(e, "run")
  /\ UNCHANGED <<script, out, status, groupVars, bufs, at, pend, obuf, aborting>>
-----------------------------------------------------------------------------
(* The end of an element: Drop for AlmideFanElem, almide_fan_drain *)

Finish(e) ==
  /\ st[e] = "run" /\ ip[e] > Len(script[e])
  /\ Flush(e)
  /\ Becomes(e, "finish")
  /\ UNCHANGED <<script, status, ip, groupVars, bufs, at, pend, aborting>>

\* The lock is taken and held until Unlock.
MarkDone(e) ==
  /\ st[e] = "finish"
  /\ lock[GroupOf[e]] = Top
  /\ lock' = [lock EXCEPT ![GroupOf[e]] = e]
  /\ done' = [done EXCEPT ![GroupOf[e]] = @ \cup {IndexOf[e]}]
  /\ Becomes(e, "drain")
  /\ UNCHANGED <<script, out, status, ip, head, trapped, bufs, at, pend, obuf, aborting>>

\* The loop's body: the head's buffer is taken and written to the enclosing
\* sink, segment by segment ...
DrainHead(e) ==
  LET g == GroupOf[e] IN
  /\ st[e] = "drain"
  /\ head[g] <= Len(Fans[g])
  /\ LET h == Fans[g][head[g]]
     IN  /\ pend' = [pend EXCEPT ![e] = bufs[h]]
         /\ bufs' = [bufs EXCEPT ![h] = <<>>]
  /\ at' = [at EXCEPT ![e] = Enclosing[e]]
  /\ Becomes(e, "advance")
  /\ UNCHANGED <<script, out, status, ip, groupVars, obuf, aborting>>

\* ... then the next element becomes the head, if this one is done.
Advance(e) ==
  LET g == GroupOf[e] IN
  /\ st[e] = "advance" /\ pend[e] = <<>>
  /\ head[g] \in done[g]
  /\ head' = [head EXCEPT ![g] = @ + 1]
  /\ Becomes(e, "drain")
  /\ UNCHANGED <<script, out, status, ip, done, trapped, lock, bufs, at, pend, obuf, aborting>>

\* A thread waiting on fan g's condition variable looks again.
Notified(g, x) == st[x] = "asleep" /\ GroupOf[at[x]] = g

\* Unlock without the stdout flush at the end of almide_fan_drain.
UnlockNoFlush(e) ==
  LET g == GroupOf[e] IN
  /\ \/ st[e] = "drain" /\ head[g] > Len(Fans[g])
     \/ st[e] = "advance" /\ pend[e] = <<>> /\ head[g] \notin done[g]
  /\ lock' = [lock EXCEPT ![g] = Top]
  /\ st' = [x \in Elem |-> IF x = e THEN "done" ELSE IF Notified(g, x) THEN "recheck" ELSE st[x]]
  /\ UNCHANGED <<script, out, status, ip, head, done, trapped, bufs, at, pend, obuf, aborting>>

\* Unlock without the notify_all.
UnlockSilent(e) ==
  LET g == GroupOf[e] IN
  /\ \/ st[e] = "drain" /\ head[g] > Len(Fans[g])
     \/ st[e] = "advance" /\ pend[e] = <<>> /\ head[g] \notin done[g]
  /\ Flush(e)
  /\ lock' = [lock EXCEPT ![g] = Top]
  /\ Becomes(e, "done")
  /\ UNCHANGED <<script, status, ip, head, done, trapped, bufs, at, pend, aborting>>

\* The loop ends, stdout is flushed, the lock let go, every waiter notified.
Unlock(e) ==
  LET g == GroupOf[e] IN
  /\ \/ st[e] = "drain" /\ head[g] > Len(Fans[g])
     \/ st[e] = "advance" /\ pend[e] = <<>> /\ head[g] \notin done[g]
  /\ Flush(e)
  /\ lock' = [lock EXCEPT ![g] = Top]
  /\ st' = [x \in Elem |-> IF x = e THEN "done" ELSE IF Notified(g, x) THEN "recheck" ELSE st[x]]
  /\ UNCHANGED <<script, status, ip, head, done, trapped, bufs, at, pend, aborting>>
-----------------------------------------------------------------------------
(* A trap: almide_fan_trap_wait, then almide_abort_exit *)

Trap(e) ==
  /\ NextOp(e, "trap")
  /\ Flush(e)
  /\ at' = [at EXCEPT ![e] = e]
  /\ Becomes(e, "trap")
  /\ UNCHANGED <<script, status, ip, groupVars, bufs, pend, aborting>>

\* Turn if only the traps of the elements before were looked at.
TurnUntrapped(s, tr) == \A i \in tr : i >= IndexOf[s]

\* Every element before sink s of its fan is done and flushed, none trapped.
Turn(s, tr) == head[GroupOf[s]] >= IndexOf[s] /\ \A i \in tr : i >= IndexOf[s]

\* One level: mark the trap and look, asleep if it is not its turn.
TrapLevel(e) ==
  LET g == GroupOf[at[e]]
      tr == trapped[g] \cup {IndexOf[at[e]]} IN
  /\ st[e] = "trap" /\ at[e] # Top
  /\ lock[g] = Top
  /\ trapped' = [trapped EXCEPT ![g] = tr]
  /\ st' = [x \in Elem |-> IF x = e THEN (IF Turn(at[e], tr) THEN "trap" ELSE "asleep")
                           ELSE IF Notified(g, x) THEN "recheck" ELSE st[x]]
  /\ at' = [at EXCEPT ![e] = IF Turn(@, tr) THEN Enclosing[@] ELSE @]
  /\ UNCHANGED <<script, out, status, ip, head, done, lock, bufs, pend, obuf, aborting>>

\* The condition is looked at again after a wake-up.
TrapRecheck(e) ==
  LET g == GroupOf[at[e]] IN
  /\ st[e] = "recheck"
  /\ lock[g] = Top
  /\ IF Turn(at[e], trapped[g])
       THEN Becomes(e, "trap") /\ at' = [at EXCEPT ![e] = Enclosing[@]]
       ELSE Becomes(e, "asleep") /\ UNCHANGED at
  /\ UNCHANGED <<script, out, status, ip, groupVars, bufs, pend, obuf, aborting>>

\* Past the outermost fan: the first abort prints, any other parks for good.
Abort(e) ==
  /\ st[e] = "trap" /\ at[e] = Top
  /\ aborting' = TRUE
  /\ IF aborting
       THEN Becomes(e, "parked") /\ UNCHANGED out
       ELSE /\ Becomes(e, "exit")
            /\ out' = [out EXCEPT !.stderr = Append(@, [elem |-> e, at |-> ip[e]])]
  /\ UNCHANGED <<script, status, ip, groupVars, bufs, at, pend, obuf>>

Exit(e) ==
  /\ st[e] = "exit"
  /\ Flush(e)
  /\ status' = "exited"
  /\ UNCHANGED <<script, st, ip, groupVars, bufs, at, pend, aborting>>

\* The thread that started the outermost fan has joined every element.
Return ==
  /\ \A e \in Range(Fans[RootFan]) : st[e] = "done"
  /\ status' = "returned"
  /\ UNCHANGED <<script, out, st, ip, groupVars, bufs, at, pend, obuf, aborting>>
-----------------------------------------------------------------------------
ElemStep(e) ==
  \/ Write(e) \/ RouteBuffer(e) \/ RouteUp(e) \/ RouteReal(e)
  \/ StartFan(e) \/ JoinFan(e)
  \/ Finish(e) \/ MarkDone(e) \/ DrainHead(e) \/ Advance(e) \/ Unlock(e)
  \/ Trap(e) \/ TrapLevel(e) \/ TrapRecheck(e) \/ Abort(e) \/ Exit(e)

\* Nothing runs once the process is gone.
TNext ==
  /\ status = "running"
  /\ (\E e \in Elem : ElemStep(e)) \/ Return

TSpec == TInit /\ [][TNext]_tvars

\* The OS runs every thread.  No thread takes a lock more often than it has
\* writes, elements and wake-ups, so weak fairness is enough: a thread cannot
\* be kept out of a lock for good.
TFairness ==
  /\ \A e \in Elem : WF_tvars(status = "running" /\ ElemStep(e))
  /\ WF_tvars(status = "running" /\ Return)

TFairSpec == TSpec /\ TFairness
-----------------------------------------------------------------------------
\* Every variable has its type; the head stays within its fan.
TTypeOK ==
  /\ st \in [Elem -> {"unborn", "run", "write", "join", "finish", "drain", "advance",
                      "done", "trap", "asleep", "recheck", "parked", "exit"}]
  /\ \A g \in Groups : /\ head[g] \in 1..(Len(Fans[g]) + 1)
                       /\ done[g] \cup trapped[g] \subseteq 1..Len(Fans[g])
                       /\ lock[g] \in Elem \cup {Top}
  /\ \A e \in Elem : ip[e] \in 1..(Len(script[e]) + 1) /\ at[e] \in Elem \cup {Top}
  /\ status \in {"running", "returned", "exited"}

\* A fan is observed as its sequential evaluation: what is on stdout and on
\* stderr is at every moment a beginning of what the sequential run prints,
\* the program ends the way that run ends, and then all of it is there
\* (ADR-0024 D5 and D6; the header of prelude_fan.rs).
LooksSequential == SSpec

\* The program ends: no lock order and no trap wait holds it up for good.
Ends == <>(status # "running")

\* The sinks from element e outwards that almide_fan_trap_wait goes through:
\* the least set with e that has the enclosing sink of each of its members.
Outwards ==
  [e \in Elem |-> {s \in Elem : \A S \in SUBSET Elem :
     e \in S /\ (\A x \in S : Enclosing[x] # Top => Enclosing[x] \in S) => s \in S}]

\* An element in a trap, and the sinks its wait has passed.
Trapping(e) == st[e] \in {"trap", "asleep", "recheck", "exit", "parked"}
Passed(e) == Outwards[e] \ (IF at[e] = Top THEN {} ELSE Outwards[at[e]])

\* One trap at most gets past the outermost fan, so which one ends the process
\* is not left to a race: almide_abort_exit and almide_panic_abort each have a
\* flag of their own and process.exit has none, and between two of those no
\* flag would decide.
OneTrapOut ==
  \A e, f \in Elem :
    Trapping(e) /\ Trapping(f) /\ at[e] = Top /\ at[f] = Top => e = f

\* A trap that has waited at a level stays the first one there: however late
\* the elements before it come to their own trap, none of them is left to
\* trap once the wait is over (the condition of almide_fan_trap_wait, which is
\* not looked at again while the thread waits further out).  So one trap at
\* most is ever past all of them.  With it, the types.
TrapIsFirst ==
  /\ TTypeOK
  /\ OneTrapOut
  /\ \A e \in Elem : Trapping(e) => \A s \in Passed(e) :
       /\ Turn(s, trapped[GroupOf[s]])
       /\ \A i \in 1..(IndexOf[s] - 1) : st[Fans[GroupOf[s]][i]] = "done"
=============================================================================
