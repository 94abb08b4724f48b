------------------------------- MODULE HostFan -------------------------------
(***************************************************************************)
(* The instance-parallel fan of the embedded wasm host                     *)
(* (crates/almide-wasm-run/src/host_fan.rs) and the linear-memory budget   *)
(* its instances share (host_budget.rs and the limiter of host.rs).  The   *)
(* guest stops in an offer; hands, each with a worker instance, claim      *)
(* blocks of its elements; the host serves every result or none, and then  *)
(* the guest runs the map itself.  Element values are left out: a result   *)
(* is the index it was computed for.  How many workers an offer gets is a  *)
(* choice here (plan is FanClock's formula).                               *)
(***************************************************************************)
EXTENDS Integers, Sequences, FiniteSets

CONSTANTS NElems,      \* elements of an offer
          MaxWorkers,  \* worker_count's bound
          PerWorker,   \* blocks per worker run_all aims at (4 in the code)
          Cap,         \* Budget.cap, in units of growth
          Reset,       \* RESET_BYTES, in the same units
          Watchdog,    \* whether the run has one (ParCtx.ticked is Some)
          MaxOffers    \* bound: offers of one run

ASSUME HostFanAssumption ==
  /\ {NElems, MaxWorkers, PerWorker, Cap, Reset, MaxOffers} \subseteq Nat \ {0}
  /\ Watchdog \in BOOLEAN

Elems == 0..(NElems - 1)
Hands == 1..MaxWorkers      \* positions in Crew.hands
Threads == 0..MaxWorkers    \* and the calling thread, for an offer of one worker
None == -1                  \* no worker

VARIABLES
  gpc,      \* the guest: runs, is in run_all, or was refused memory
  guest,    \* what its own instance's meter holds
  used,     \* Budget.used
  pool,     \* ParCtx.pool: the memory each pooled worker holds
  crew,     \* Crew.hands.len()
  taken,    \* workers not yet in a job
  sent,     \* jobs dispatched
  refused,  \* jobs no thread took (the worker of each)
  deal,     \* its jobs; Deal.next, .block, .failed, and the Arc's count
  senders,  \* senders of the parts channel
  parts,    \* the parts sent: the worker, or None, and its results
  chan,     \* chan[h]: the jobs in a hand's channel (the worker of each)
  hpc,      \* where thread h is in hand / Deal::run
  mem,      \* what its worker's meter holds
  at,       \* the block it is calling
  done,     \* the results it has
  dl,       \* the epoch its worker's deadline was set at
  ticked, epoch,  \* the watchdog's flag, and the engine's epoch
  offers,         \* history: offers made
  last, out       \* history: the last offer's answer and its results

gvars == <<gpc, guest, pool, crew, taken, sent, refused, offers, last, out>>
hvars == <<hpc, mem, at, done, dl>>
wvars == <<ticked, epoch>>
cvars == <<deal, senders, parts, chan>>
vars == <<gvars, used, cvars, hvars, wvars>>

Init ==
  /\ gpc = "run" /\ guest = 1 /\ used = 1
  /\ pool = <<>> /\ crew = 0 /\ taken = <<>> /\ sent = 0 /\ refused = <<>>
  /\ deal = [jobs |-> 0, next |-> 0, block |-> 1, failed |-> FALSE, refs |-> 0]
  /\ senders = 0 /\ parts = <<>> /\ chan = [h \in Hands |-> <<>>]
  /\ hpc = [h \in Threads |-> "absent"]
  /\ mem = [h \in Threads |-> None]
  /\ at = [h \in Threads |-> 0]
  /\ done = [h \in Threads |-> {}]
  /\ dl = [h \in Threads |-> 0]
  /\ ticked = FALSE /\ epoch = 0
  /\ offers = 0 /\ last = "none" /\ out = {}

Held(m) == IF m = None THEN 0 ELSE m

\* The units of memory the stores of s hold, and how many they are.
Units(s) == UNION {{i} \X (1..s[i]) : i \in DOMAIN s}
Total(s) == Cardinality(Units(s))

\* The members of a set of numbers in ascending order.
InOrder(S) == CHOOSE f \in [1..Cardinality(S) -> S] : \A i, j \in DOMAIN f : i < j => f[i] < f[j]

DivCeil(a, b) == (a + b - 1) \div b
Least(a, b) == IF a < b THEN a ELSE b
-----------------------------------------------------------------------------
(* The guest: growth, and run_all. *)

\* Meter::reserve: granted only if the sum stays within the cap.
Fits(u) == u + 1 <= Cap

\* memory_growing without the pool.
GrowAlone ==
  /\ gpc = "run"
  /\ IF Fits(used) THEN gpc' = gpc /\ guest' = guest + 1 /\ used' = used + 1
                   ELSE gpc' = "oom" /\ UNCHANGED <<guest, used>>
  /\ UNCHANGED <<pool, crew, taken, sent, refused, offers, last, out, cvars, hvars, wvars>>

\* memory_growing of the run's own instance: refused, it takes back what the
\* pooled workers hold (release_pool) and asks once more.
Grow ==
  /\ gpc = "run"
  /\ LET short == ~Fits(used)
         left == IF short THEN used - Total(pool) ELSE used
     IN  /\ pool' = IF short THEN <<>> ELSE pool
         /\ IF Fits(left) THEN gpc' = gpc /\ guest' = guest + 1 /\ used' = left + 1
                          ELSE gpc' = "oom" /\ used' = left /\ UNCHANGED guest
  /\ UNCHANGED <<crew, taken, sent, refused, offers, last, out, cvars, hvars, wvars>>

\* abort_site_op: the pooled workers give their memory back before a child
\* instance starts; the child is over, and its meter dropped, when it returns.
StartChild ==
  /\ gpc = "run"
  /\ used' = used - Total(pool) /\ pool' = <<>>
  /\ UNCHANGED <<gpc, guest, crew, taken, sent, refused, offers, last, out, cvars, hvars, wvars>>

\* run_all up to the jobs: the deal, and up to w pooled workers (take).
Offer(w) ==
  /\ gpc = "run" /\ offers < MaxOffers
  /\ offers' = offers + 1
  /\ LET keep == IF Len(pool) > w THEN Len(pool) - w ELSE 0
     IN  /\ pool' = SubSeq(pool, 1, keep)
         /\ taken' = SubSeq(pool, keep + 1, Len(pool))
  /\ deal' = [jobs |-> w, next |-> 0, failed |-> FALSE,
              block |-> IF w < 2 THEN NElems ELSE DivCeil(NElems, w * PerWorker),
              refs |-> IF w < 2 THEN 1 ELSE w + 1]
  /\ senders' = IF w < 2 THEN 0 ELSE w
  /\ parts' = <<>> /\ sent' = 0 /\ refused' = <<>> /\ out' = {}
  /\ last' = "none"
  /\ gpc' = IF w < 2 THEN "inline" ELSE "dispatch"
  /\ UNCHANGED <<guest, used, crew, chan, hvars, wvars>>

Popped == IF taken = <<>> THEN None ELSE taken[Len(taken)]
Rest == IF taken = <<>> THEN <<>> ELSE SubSeq(taken, 1, Len(taken) - 1)

\* An offer of one worker runs on the calling thread.
RunInline ==
  /\ gpc = "inline"
  /\ hpc' = [hpc EXCEPT ![0] = "start"]
  /\ mem' = [mem EXCEPT ![0] = Popped] /\ taken' = Rest
  /\ done' = [done EXCEPT ![0] = {}]
  /\ gpc' = "await"
  /\ UNCHANGED <<guest, used, pool, crew, sent, refused, offers, last, out, cvars, at, dl, wvars>>

\* Crew::dispatch of the next job: to the hand at its position, or to one
\* started for it and put at the end of the crew.
Dispatch ==
  /\ gpc = "dispatch" /\ sent < deal.jobs
  /\ sent' = sent + 1 /\ taken' = Rest
  /\ \/ /\ sent < crew
        /\ chan' = [chan EXCEPT ![sent + 1] = Append(@, Popped)]
        /\ UNCHANGED <<crew, refused, hpc>>
     \/ /\ sent >= crew
        /\ crew' = crew + 1
        /\ chan' = [chan EXCEPT ![crew + 1] = Append(@, Popped)]
        /\ hpc' = [hpc EXCEPT ![crew + 1] = "wait"]
        /\ UNCHANGED refused
     \/ /\ sent >= crew
        /\ refused' = Append(refused, Popped)
        /\ UNCHANGED <<crew, chan, hpc>>
  /\ UNCHANGED <<gpc, guest, pool, offers, last, out, used, deal, senders, parts, mem, at, done, dl, wvars>>

\* A refused thread fails the offer; its job is dropped, the worker in it too.
Dispatched ==
  /\ gpc = "dispatch" /\ sent = deal.jobs
  /\ deal' = [deal EXCEPT !.failed = @ \/ refused # <<>>, !.refs = @ - Len(refused)]
  /\ senders' = senders - Len(refused)
  /\ used' = used - Total(refused)
  /\ gpc' = "collect"
  /\ UNCHANGED <<guest, pool, crew, taken, sent, refused, offers, last, out, parts, chan, hvars, wvars>>

\* parts_rx.iter() ends when no sender is left.
Collect ==
  /\ gpc = "collect" /\ senders = 0
  /\ deal' = [deal EXCEPT !.failed = @ \/ Len(parts) < deal.jobs]
  /\ gpc' = "inner"
  /\ UNCHANGED <<guest, pool, crew, taken, sent, refused, offers, last, out, used, senders, parts, chan, hvars, wvars>>

\* Ok for an offer that takes the parts it got.
OkSome == parts # <<>>

\* An offer is served if no part failed and none is missing.
Ok == ~deal.failed /\ \A i \in DOMAIN parts : parts[i].worker # None

\* reusable: a worker that grew past RESET_BYTES is dropped.
Reusable == {i \in DOMAIN parts : parts[i].worker # None /\ parts[i].worker <= Reset}
Workers(ps) == [i \in DOMAIN ps |-> ps[i].worker]

\* `back`, in the order the parts came.
Back == [k \in 1..Cardinality(Reusable) |-> parts[InOrder(Reusable)[k]].worker]

\* The end of run_all: Arc::into_inner, the results by index, the pool.
Finish ==
  /\ gpc = "inner"
  /\ LET alone == deal.refs = 1
         back == IF alone THEN Back ELSE <<>>
     IN  /\ last' = IF alone /\ Ok THEN "served" ELSE "refused"
         /\ out' = IF alone /\ Ok THEN UNION {parts[i].done : i \in DOMAIN parts} ELSE {}
         /\ pool' = pool \o back
         /\ used' = used - (Total(Workers(parts)) - Total(back))
  /\ parts' = <<>>
  /\ deal' = [deal EXCEPT !.refs = @ - 1]
  /\ gpc' = "run"
  /\ UNCHANGED <<guest, crew, taken, sent, refused, offers, senders, chan, hvars, wvars>>
-----------------------------------------------------------------------------
(* A hand, and Deal::run on it. *)

GoTo(h, s) == hpc' = [hpc EXCEPT ![h] = s]

Recv(h) ==
  /\ hpc[h] = "wait" /\ chan[h] # <<>>
  /\ mem' = [mem EXCEPT ![h] = Head(chan[h])]
  /\ chan' = [chan EXCEPT ![h] = Tail(@)]
  /\ done' = [done EXCEPT ![h] = {}]
  /\ GoTo(h, "start")
  /\ UNCHANGED <<gvars, used, deal, senders, parts, at, dl, wvars>>

\* A pooled worker, or one instantiated now: its memory is metered, and its
\* deadline set before the start function runs.
Start(h) ==
  /\ hpc[h] = "start"
  /\ \/ /\ mem[h] # None
        /\ GoTo(h, "arm")
        /\ UNCHANGED <<mem, used, dl>>
     \/ /\ mem[h] = None /\ Fits(used)
        /\ mem' = [mem EXCEPT ![h] = 1] /\ used' = used + 1
        /\ dl' = [dl EXCEPT ![h] = epoch]
        /\ GoTo(h, "arm")
     \/ /\ mem[h] = None /\ ~Fits(used)
        /\ GoTo(h, "fail")
        /\ UNCHANGED <<mem, used, dl>>
  /\ UNCHANGED <<gvars, cvars, at, done, wvars>>

\* Deal::arm: the deadline first ...
Arm(h) ==
  /\ hpc[h] = "arm"
  /\ dl' = [dl EXCEPT ![h] = epoch]
  /\ GoTo(h, "armed")
  /\ UNCHANGED <<gvars, used, cvars, mem, at, done, wvars>>

\* ... then the watchdog's flag; and the site's export, which may be missing.
Armed(h) ==
  /\ hpc[h] = "armed"
  /\ \/ ~ticked /\ GoTo(h, "check")
     \/ GoTo(h, "fail")
  /\ UNCHANGED <<gvars, used, cvars, mem, at, done, dl, wvars>>

\* Deal::drain.
Check(h) ==
  /\ hpc[h] = "check"
  /\ GoTo(h, IF deal.failed THEN "fail" ELSE "claim")
  /\ UNCHANGED <<gvars, used, cvars, mem, at, done, dl, wvars>>

\* next.fetch_add(block); a call past its deadline traps when it is entered.
Claim(h) ==
  /\ hpc[h] = "claim"
  /\ deal' = [deal EXCEPT !.next = @ + deal.block]
  /\ at' = [at EXCEPT ![h] = deal.next]
  /\ GoTo(h, IF deal.next >= NElems THEN "end" ELSE IF epoch > dl[h] THEN "fail" ELSE "call")
  /\ UNCHANGED <<gvars, used, senders, parts, chan, mem, done, dl, wvars>>

BlockEnd(h) == Least(at[h] + deal.block, NElems)

\* The call returns the results of its elements.
Return(h) ==
  /\ hpc[h] \in {"call", "grown"}
  /\ done' = [done EXCEPT ![h] = @ \cup at[h]..(BlockEnd(h) - 1)]
  /\ GoTo(h, "check")
  /\ UNCHANGED <<gvars, used, cvars, mem, at, dl, wvars>>

\* It traps, aborts or exits (on a hand, unwinding the host counts as that), or
\* it never ends.
Fault(h) ==
  /\ hpc[h] \in {"call", "grown"}
  /\ \/ GoTo(h, "fail")
     \/ GoTo(h, "loop")
  /\ UNCHANGED <<gvars, used, cvars, mem, at, done, dl, wvars>>

\* The engine's epoch has passed the worker's deadline.
Interrupt(h) ==
  /\ hpc[h] = "loop" /\ epoch > dl[h]
  /\ GoTo(h, "fail")
  /\ UNCHANGED <<gvars, used, cvars, mem, at, done, dl, wvars>>

\* The worker's memory grows; a worker has no pool to take back from.
GrowWorker(h) ==
  /\ hpc[h] = "call"
  /\ IF Fits(used)
       THEN used' = used + 1 /\ mem' = [mem EXCEPT ![h] = @ + 1] /\ GoTo(h, "grown")
       ELSE GoTo(h, "fail") /\ UNCHANGED <<used, mem>>
  /\ UNCHANGED <<gvars, cvars, at, done, dl, wvars>>

\* UndoGrow if the store's share were not corrected.
UndoShared(h) ==
  /\ hpc[h] = "grown"
  /\ used' = used - 1 /\ GoTo(h, "fail")
  /\ UNCHANGED <<gvars, cvars, mem, at, done, dl, wvars>>

\* memory_grow_failed: Meter::undo_last.
UndoGrow(h) ==
  /\ hpc[h] = "grown"
  /\ used' = used - 1 /\ mem' = [mem EXCEPT ![h] = @ - 1]
  /\ GoTo(h, "fail")
  /\ UNCHANGED <<gvars, cvars, at, done, dl, wvars>>

\* Deal::run answers None: the worker is dropped (Drop for Meter), and the
\* offer failed.
Fail(h) ==
  /\ hpc[h] = "fail"
  /\ used' = used - Held(mem[h]) /\ mem' = [mem EXCEPT ![h] = None]
  /\ deal' = [deal EXCEPT !.failed = TRUE]
  /\ GoTo(h, "end")
  /\ UNCHANGED <<gvars, senders, parts, chan, at, done, dl, wvars>>

Part(h) == [worker |-> mem[h], done |-> IF mem[h] = None THEN {} ELSE done[h]]

\* On the calling thread the part is pushed.
EndInline ==
  /\ hpc[0] = "end"
  /\ parts' = Append(parts, Part(0)) /\ mem' = [mem EXCEPT ![0] = None]
  /\ GoTo(0, "absent") /\ gpc' = "inner"
  /\ UNCHANGED <<guest, pool, crew, taken, sent, refused, offers, last, out, used,
                 deal, senders, chan, at, done, dl, wvars>>

\* hand: drop(deal), back.send(part), and `back` at the end of its round.
DropDeal(h) ==
  /\ h # 0 /\ hpc[h] = "end"
  /\ deal' = [deal EXCEPT !.refs = @ - 1]
  /\ GoTo(h, "send")
  /\ UNCHANGED <<gvars, used, senders, parts, chan, mem, at, done, dl, wvars>>

Send(h) ==
  /\ hpc[h] = "send"
  /\ parts' = Append(parts, Part(h)) /\ mem' = [mem EXCEPT ![h] = None]
  /\ GoTo(h, "back")
  /\ UNCHANGED <<gvars, used, deal, senders, chan, at, done, dl, wvars>>

DropBack(h) ==
  /\ hpc[h] = "back"
  /\ senders' = senders - 1
  /\ GoTo(h, "wait")
  /\ UNCHANGED <<gvars, used, deal, parts, chan, mem, at, done, dl, wvars>>

\* HandEnd with the drops left to the end of the round: `back` goes before
\* `deal` there.
HandEndImplicit(h) ==
  \/ /\ h # 0 /\ hpc[h] = "end"
     /\ parts' = Append(parts, Part(h)) /\ mem' = [mem EXCEPT ![h] = None]
     /\ GoTo(h, "back")
     /\ UNCHANGED <<gvars, used, deal, senders, chan, at, done, dl, wvars>>
  \/ /\ hpc[h] = "back"
     /\ senders' = senders - 1 /\ GoTo(h, "send")
     /\ UNCHANGED <<gvars, used, deal, parts, chan, mem, at, done, dl, wvars>>
  \/ /\ hpc[h] = "send"
     /\ deal' = [deal EXCEPT !.refs = @ - 1] /\ GoTo(h, "wait")
     /\ UNCHANGED <<gvars, used, senders, parts, chan, mem, at, done, dl, wvars>>

HandEnd(h) == DropDeal(h) \/ Send(h) \/ DropBack(h)
-----------------------------------------------------------------------------
(* run_compiled's ticker thread. *)

\* The flag first, then the epoch.
Tick ==
  /\ Watchdog /\ ~ticked
  /\ ticked' = TRUE
  /\ UNCHANGED <<gvars, used, cvars, hvars, epoch>>

IncrementEpoch ==
  /\ ticked /\ epoch = 0
  /\ epoch' = 1
  /\ UNCHANGED <<gvars, used, cvars, hvars, ticked>>

\* Ticker with the two in the other order.
TickerSwapped ==
  /\ Watchdog
  /\ \/ epoch = 0 /\ epoch' = 1 /\ UNCHANGED ticked
     \/ epoch = 1 /\ ~ticked /\ ticked' = TRUE /\ UNCHANGED epoch
  /\ UNCHANGED <<gvars, used, cvars, hvars>>

Ticker == Tick \/ IncrementEpoch

HandStep(h) ==
  \/ Start(h) \/ Arm(h) \/ Armed(h) \/ Check(h) \/ Claim(h) \/ Return(h) \/ Fault(h)
  \/ Interrupt(h) \/ GrowWorker(h) \/ UndoGrow(h) \/ Fail(h)
HostStep == RunInline \/ Dispatch \/ Dispatched \/ Collect \/ Finish \/ EndInline
CrewStep(h) == Recv(h) \/ HandEnd(h)

Next ==
  \/ Grow \/ StartChild \/ HostStep \/ Ticker
  \/ \E w \in 1..Least(MaxWorkers, NElems) : Offer(w)
  \/ \E h \in Threads : HandStep(h)
  \/ \E h \in Hands : CrewStep(h)

Spec == Init /\ [][Next]_vars
FairSpec ==
  /\ Spec
  /\ WF_vars(HostStep) /\ WF_vars(Ticker)
  /\ \A h \in Threads : WF_vars(HandStep(h))
  /\ \A h \in Hands : WF_vars(CrewStep(h))
-----------------------------------------------------------------------------
\* Every variable has its type; no hand has two jobs waiting.
TypeOK ==
  /\ gpc \in {"run", "inline", "await", "dispatch", "collect", "inner", "oom"}
  /\ used \in 0..Cap /\ guest \in 0..Cap /\ crew \in 0..MaxWorkers
  /\ deal.refs \in 0..(MaxWorkers + 1) /\ senders \in 0..MaxWorkers
  /\ \A h \in Hands : Len(chan[h]) <= 1
  /\ \A h \in Threads : mem[h] \in None..Cap /\ done[h] \subseteq Elems

\* Budget.used is what the live stores hold: the run's own, the pooled, those
\* in jobs and parts and those on hands, whatever failed in between; and it
\* stays within the cap (host_budget.rs: "the sum over all of the run's live
\* stores stays within the cap").  With it, the types.
BudgetExact ==
  /\ TypeOK
  /\ used <= Cap
  /\ used = guest + Total(pool) + Total(taken) + Total(Workers(parts))
            + (IF gpc = "dispatch" THEN Total(refused) ELSE 0)
            + Total([h \in 1..(MaxWorkers + 1) |-> mem[h - 1]])
            + Total([h \in Hands |-> Total(chan[h])])

\* The run's own instance is refused memory only at the cap: what idle
\* workers held never counts against it (host.rs: "alone, it reaches the
\* whole cap").
AloneReachesCap == gpc = "oom" => guest = Cap

\* A served offer has a result for every element: no block was lost to a
\* failed, refused or late part.
ServedComplete == last = "served" => out = Elems

\* When the last part is in, no thread holds the deal: Arc::into_inner never
\* throws a complete offer away.
DealAlone == gpc = "inner" => deal.refs = 1

\* An offer of a run with a watchdog ends, even if a chunk never returns.
OfferEnds == (gpc \in {"inline", "await", "dispatch", "collect", "inner"}) ~> (gpc = "run")
=============================================================================
