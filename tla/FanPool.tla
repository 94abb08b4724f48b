------------------------------- MODULE FanPool -------------------------------
(***************************************************************************)
(* The resident fan pool of runtime/rs/src/list.rs: how its hands poll,    *)
(* park and are woken or spawned (almide_fan_hand_loop and                 *)
(* almide_fan_pool_wake).  A hand decides to sleep from one counter while  *)
(* a caller decides from another whom to wake.  What a hand does inside a  *)
(* gate is FanGate's; here an offer is open until a taker draws past its   *)
(* last block.                                                             *)
(***************************************************************************)
EXTENDS Integers, FiniteSets

CONSTANTS Callers,       \* threads that make offers
          Cap,           \* length of AlmideFanPool.hands
          Helpers,       \* what almide_fan_pool_wake is asked for
          MaxOffers,     \* bound on the offers that are made
          NoCaller,
          PollMayMiss,   \* whether a poll may miss an open offer: no core is free, its
                         \* blocks are all drawn by now, or a Relaxed load is old
          SpawnMayFail   \* whether the OS may refuse a thread

ASSUME PoolAssumption ==
  /\ IsFiniteSet(Callers) /\ NoCaller \notin Callers
  /\ Cap \in Nat \ {0} /\ Helpers \in Nat /\ MaxOffers \in Nat
  /\ PollMayMiss \in BOOLEAN /\ SpawnMayFail \in BOOLEAN

Hands == 1..Cap

VARIABLES
  polling,   \* AlmideFanPool.polling
  started,   \* AlmideFanPool.started
  spawning,  \* the holder of AlmideFanPool.spawning
  parked,    \* AlmideFanHand.parked
  token,     \* an unpark the hand has not consumed
  hpc,       \* where the hand's loop is
  on,        \* the offer the hand helps
  cpc,       \* where the caller is
  open,      \* the caller's offer is published and has a block left
  offers,    \* offers made so far
  short,     \* `short` in almide_fan_pool_wake
  idx,       \* the hand its scan has reached
  upto,      \* `started` as the scan read it
  refused    \* history: the OS has refused a thread

handVars == <<parked, token, hpc, on>>
wakeVars == <<short, idx, upto>>
vars == <<polling, started, spawning, handVars, cpc, open, offers, wakeVars, refused>>

\* The pool is new, or earlier offers have filled it and its hands sleep by now.
Init ==
  /\ polling = 0 /\ started \in {0, Cap} /\ spawning = NoCaller
  /\ parked = [h \in Hands |-> h <= started]
  /\ token = [h \in Hands |-> FALSE]
  /\ hpc = [h \in Hands |-> IF h <= started THEN "park" ELSE "unborn"]
  /\ on = [h \in Hands |-> NoCaller]
  /\ cpc = [c \in Callers |-> "idle"]
  /\ open = [c \in Callers |-> FALSE]
  /\ offers = 0
  /\ short = [c \in Callers |-> 0]
  /\ idx = [c \in Callers |-> 1]
  /\ upto = [c \in Callers |-> 0]
  /\ refused = FALSE

\* ALMIDE_FAN_OPEN_BLOCKS is not zero.
OpenBlocks == \E c \in Callers : open[c]
HandTo(h, from, to) == hpc[h] = from /\ hpc' = [hpc EXCEPT ![h] = to]
CallerTo(c, from, to) == cpc[c] = from /\ cpc' = [cpc EXCEPT ![c] = to]
-----------------------------------------------------------------------------
(* almide_fan_hand_loop *)

\* `done` found an offer: the hand is inside its gate.
Find(h, c) ==
  /\ HandTo(h, "poll", "found")
  /\ open[c]
  /\ on' = [on EXCEPT ![h] = c]
  /\ UNCHANGED <<polling, started, spawning, parked, token, cpc, open, offers, wakeVars, refused>>

\* `done` answered FALSE.
Miss(h) ==
  /\ HandTo(h, "poll", "spun")
  /\ ~OpenBlocks \/ PollMayMiss
  /\ UNCHANGED <<polling, started, spawning, parked, token, on, cpc, open, offers, wakeVars, refused>>

Again(h) ==
  /\ HandTo(h, "spun", "poll")
  /\ UNCHANGED <<polling, started, spawning, parked, token, on, cpc, open, offers, wakeVars, refused>>

\* ALMIDE_FAN_SPIN is over: `sleep` first stops counting as polling ...
Timeout(h) ==
  /\ HandTo(h, "spun", "sleep")
  /\ polling' = polling - 1
  /\ UNCHANGED <<started, spawning, parked, token, on, cpc, open, offers, wakeVars, refused>>

\* ... then says that it sleeps ...
SetParked(h) ==
  /\ HandTo(h, "sleep", "look")
  /\ parked' = [parked EXCEPT ![h] = TRUE]
  /\ UNCHANGED <<polling, started, spawning, token, on, cpc, open, offers, wakeVars, refused>>

\* Look if the hand parked without the last look.
LookNot(h) ==
  /\ HandTo(h, "look", "park")
  /\ UNCHANGED <<polling, started, spawning, parked, token, on, cpc, open, offers, wakeVars, refused>>

\* ... and looks once more before it parks.
Look(h) ==
  /\ hpc[h] = "look"
  /\ hpc' = [hpc EXCEPT ![h] = IF OpenBlocks THEN "rouse" ELSE "park"]
  /\ UNCHANGED <<polling, started, spawning, parked, token, on, cpc, open, offers, wakeVars, refused>>

\* park returns: it was unparked, now or before.
Unparked(h) ==
  /\ HandTo(h, "park", "rouse")
  /\ token[h]
  /\ token' = [token EXCEPT ![h] = FALSE]
  /\ UNCHANGED <<polling, started, spawning, parked, on, cpc, open, offers, wakeVars, refused>>

\* park may also return for no reason.
Spurious(h) ==
  /\ HandTo(h, "park", "rouse")
  /\ UNCHANGED <<polling, started, spawning, parked, token, on, cpc, open, offers, wakeVars, refused>>

ClearParked(h) ==
  /\ HandTo(h, "rouse", "recount")
  /\ parked' = [parked EXCEPT ![h] = FALSE]
  /\ UNCHANGED <<polling, started, spawning, token, on, cpc, open, offers, wakeVars, refused>>

Recount(h) ==
  /\ HandTo(h, "recount", "poll")
  /\ polling' = polling + 1
  /\ UNCHANGED <<started, spawning, parked, token, on, cpc, open, offers, wakeVars, refused>>

StartHelp(h) ==
  /\ HandTo(h, "found", "help")
  /\ polling' = polling - 1
  /\ UNCHANGED <<started, spawning, parked, token, on, cpc, open, offers, wakeVars, refused>>

\* The hand drew past the last block and left the gate.
EndHelp(h) ==
  /\ HandTo(h, "help", "recount")
  /\ open' = [open EXCEPT ![on[h]] = FALSE]
  /\ on' = [on EXCEPT ![h] = NoCaller]
  /\ UNCHANGED <<polling, started, spawning, parked, token, cpc, offers, wakeVars, refused>>
-----------------------------------------------------------------------------
(* almide_fan_deal's caller and almide_fan_pool_wake *)

Publish(c) ==
  /\ CallerTo(c, "idle", "wake")
  /\ offers < MaxOffers
  /\ offers' = offers + 1
  /\ open' = [open EXCEPT ![c] = TRUE]
  /\ UNCHANGED <<polling, started, spawning, handVars, wakeVars, refused>>

\* helpers.saturating_sub(polling).
ReadPolling(c) ==
  LET n == IF Helpers > polling THEN Helpers - polling ELSE 0 IN
  /\ cpc[c] = "wake"
  /\ short' = [short EXCEPT ![c] = n]
  /\ cpc' = [cpc EXCEPT ![c] = IF n = 0 THEN "take" ELSE "span"]
  /\ UNCHANGED <<polling, started, spawning, handVars, open, offers, idx, upto, refused>>

\* `started` is read for the scan.
ReadStarted(c) ==
  /\ CallerTo(c, "span", "scan")
  /\ idx' = [idx EXCEPT ![c] = 1]
  /\ upto' = [upto EXCEPT ![c] = started]
  /\ UNCHANGED <<polling, started, spawning, handVars, open, offers, short, refused>>

Scanning(c) == cpc[c] = "scan" /\ short[c] > 0 /\ idx[c] <= upto[c]

\* hand.parked.swap(false) on a hand that is not parked ...
SwapAwake(c) ==
  /\ Scanning(c) /\ ~parked[idx[c]]
  /\ idx' = [idx EXCEPT ![c] = @ + 1]
  /\ UNCHANGED <<polling, started, spawning, handVars, cpc, open, offers, short, upto, refused>>

\* SwapParked without the wake-up that follows it.
SwapOnly(c) ==
  /\ Scanning(c) /\ parked[idx[c]]
  /\ parked' = [parked EXCEPT ![idx[c]] = FALSE]
  /\ short' = [short EXCEPT ![c] = @ - 1]
  /\ idx' = [idx EXCEPT ![c] = @ + 1]
  /\ UNCHANGED <<polling, started, spawning, token, hpc, on, cpc, open, offers, upto, refused>>

\* ... and on one that is ...
SwapParked(c) ==
  /\ Scanning(c) /\ parked[idx[c]]
  /\ parked' = [parked EXCEPT ![idx[c]] = FALSE]
  /\ short' = [short EXCEPT ![c] = @ - 1]
  /\ cpc' = [cpc EXCEPT ![c] = "unpark"]
  /\ UNCHANGED <<polling, started, spawning, token, hpc, on, open, offers, idx, upto, refused>>

\* ... which is then unparked.
Unpark(c) ==
  /\ CallerTo(c, "unpark", "scan")
  /\ token' = [token EXCEPT ![idx[c]] = TRUE]
  /\ idx' = [idx EXCEPT ![c] = @ + 1]
  /\ UNCHANGED <<polling, started, spawning, parked, hpc, on, open, offers, short, upto, refused>>

\* Enough were woken, or every hand was passed and there is none to spawn.
EndScan(c) ==
  /\ cpc[c] = "scan" /\ ~Scanning(c)
  /\ cpc' = [cpc EXCEPT ![c] = IF short[c] = 0 \/ started = Cap THEN "take" ELSE "lock"]
  /\ idx' = [idx EXCEPT ![c] = 1]
  /\ UNCHANGED <<polling, started, spawning, handVars, open, offers, short, upto, refused>>

LockSpawning(c) ==
  /\ CallerTo(c, "lock", "spawn")
  /\ spawning = NoCaller
  /\ spawning' = c
  /\ UNCHANGED <<polling, started, handVars, open, offers, wakeVars, refused>>

\* A hand that is not there yet counts as polling before it is spawned.
BeforeSpawn(c) ==
  /\ CallerTo(c, "spawn", "birth")
  /\ short[c] > 0 /\ started < Cap
  /\ polling' = polling + 1
  /\ UNCHANGED <<started, spawning, handVars, open, offers, wakeVars, refused>>

Spawn(c) ==
  /\ CallerTo(c, "birth", "register")
  /\ hpc' = [hpc EXCEPT ![started + 1] = "poll"]
  /\ UNCHANGED <<polling, started, spawning, parked, token, on, open, offers, wakeVars, refused>>

\* SpawnFails if the hand that is not there stayed counted.
SpawnFailsCounted(c) ==
  /\ CallerTo(c, "birth", "take")
  /\ SpawnMayFail
  /\ spawning' = NoCaller
  /\ refused' = TRUE
  /\ UNCHANGED <<polling, started, handVars, open, offers, wakeVars>>

SpawnFails(c) ==
  /\ CallerTo(c, "birth", "take")
  /\ SpawnMayFail
  /\ polling' = polling - 1
  /\ spawning' = NoCaller
  /\ refused' = TRUE
  /\ UNCHANGED <<started, handVars, open, offers, wakeVars>>

Register(c) ==
  /\ CallerTo(c, "register", "spawn")
  /\ started' = started + 1
  /\ short' = [short EXCEPT ![c] = @ - 1]
  /\ UNCHANGED <<polling, spawning, handVars, open, offers, idx, upto, refused>>

EndSpawn(c) ==
  /\ CallerTo(c, "spawn", "take")
  /\ short[c] = 0 \/ started = Cap
  /\ spawning' = NoCaller
  /\ UNCHANGED <<polling, started, handVars, open, offers, wakeVars, refused>>

\* The caller drew past the last block; the locals of almide_fan_pool_wake are gone.
EndTake(c) ==
  /\ CallerTo(c, "take", "wait")
  /\ open' = [open EXCEPT ![c] = FALSE]
  /\ short' = [short EXCEPT ![c] = 0]
  /\ idx' = [idx EXCEPT ![c] = 1]
  /\ upto' = [upto EXCEPT ![c] = 0]
  /\ UNCHANGED <<polling, started, spawning, handVars, offers, refused>>

Await(c) ==
  /\ CallerTo(c, "wait", "idle")
  /\ \A h \in Hands : on[h] # c
  /\ UNCHANGED <<polling, started, spawning, handVars, open, offers, wakeVars, refused>>
-----------------------------------------------------------------------------
HandStep(h) ==
  \/ \E c \in Callers : Find(h, c)
  \/ Miss(h) \/ Again(h) \/ Timeout(h) \/ SetParked(h) \/ Look(h) \/ Unparked(h)
  \/ ClearParked(h) \/ Recount(h) \/ StartHelp(h) \/ EndHelp(h)

WakeStep(c) ==
  \/ ReadPolling(c) \/ ReadStarted(c) \/ SwapAwake(c) \/ SwapParked(c) \/ Unpark(c) \/ EndScan(c)
  \/ LockSpawning(c) \/ BeforeSpawn(c) \/ Spawn(c) \/ SpawnFails(c) \/ Register(c) \/ EndSpawn(c)

Next ==
  \/ \E h \in Hands : HandStep(h) \/ Spurious(h)
  \/ \E c \in Callers : Publish(c) \/ WakeStep(c) \/ EndTake(c) \/ Await(c)

Spec == Init /\ [][Next]_vars

\* Hands and wakers are run by the OS.  A caller's own blocks may take as long
\* as they like (no fairness on EndTake), and no offer need be made.  A hand
\* that polls again and again while an offer is open does not miss it every
\* time: a core is free for it now and then, and a Relaxed load does not stay
\* old.
FairSpec ==
  /\ Spec
  /\ \A h \in Hands : WF_vars(HandStep(h)) /\ SF_vars(\E c \in Callers : Find(h, c))
  /\ \A c \in Callers : WF_vars(WakeStep(c))
-----------------------------------------------------------------------------
\* Every variable has its type and the counts their bounds.
TypeOK ==
  /\ polling \in 0..(Cap + 1) /\ started \in 0..Cap
  /\ spawning \in Callers \cup {NoCaller}
  /\ parked \in [Hands -> BOOLEAN] /\ token \in [Hands -> BOOLEAN]
  /\ on \in [Hands -> Callers \cup {NoCaller}]
  /\ open \in [Callers -> BOOLEAN] /\ short \in [Callers -> 0..Helpers]
  /\ hpc \in [Hands -> {"unborn", "poll", "spun", "sleep", "look", "park", "rouse",
                        "recount", "found", "help"}]
  /\ cpc \in [Callers -> {"idle", "wake", "span", "scan", "unpark", "lock", "spawn", "birth",
                          "register", "take", "wait"}]

\* AlmideFanPool.polling is exact whenever it can be read: the hands that poll
\* or have just found an offer, and the one about to be spawned.  A count that
\* drifted up would leave parked hands asleep for good, one that drifted down
\* would wrap (`saturating_sub` does not protect `fetch_sub`).  With it, the
\* types.
PollingExact ==
  /\ TypeOK
  /\ polling = Cardinality({h \in Hands : hpc[h] \in {"poll", "spun", "found"}})
               + Cardinality({c \in Callers : cpc[c] = "birth"})

\* The hand sleeps and nobody is about to wake it.
Dormant(h) ==
  hpc[h] = "park" /\ ~token[h] /\ ~\E c \in Callers : cpc[c] = "unpark" /\ idx[c] = h
Exists(h) ==
  hpc[h] # "unborn" \/ (\E c \in Callers : cpc[c] = "birth" /\ h = started + 1)
Awake == {h \in Hands : Exists(h) /\ ~Dormant(h)}

\* almide_fan_pool_wake is over, it got what it asked for or saw a hand that
\* was started, and its offer still has a block left.
Woken(c) == cpc[c] = "take" /\ open[c] /\ Helpers > 0 /\ (short[c] = 0 \/ upto[c] > 0)

\* The wake-up is not lost: some hand is awake then ("stop counting as polling
\* BEFORE the last look" in almide_fan_hand_loop).  The hands' counters and the
\* caller's are read and written in opposite orders.
SomeHandAwake == \A c \in Callers : Woken(c) /\ ~refused => Awake # {}

\* A hand is in the offer's gate.
Helped(c) == \E h \in Hands : on[h] = c

\* An offer with a block left gets a hand though its caller never finishes
\* its own blocks, as long as a core is free for one and the OS refused no
\* thread (a refused hand may have been counted as polling by other callers).
\* (The offers are bounded in number, and a hand leaves one only when its last
\* block is drawn: so that each gets a hand is that in the end all have one.)
OfferHelped ==
  (\E c \in Callers : Woken(c)) ~> (refused \/ \A c \in Callers : Woken(c) => Helped(c))
=============================================================================
