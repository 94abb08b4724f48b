# Almide: concurrent runtime and shared caches, specified and verified

Almide is a language whose compiler emits native programs (through Rust) and wasm. Its one
concurrency construct is `fan`: the arms of a `fan { }` block, the elements of `fan.map`, and
the pure list operations under them run on several threads, and the language promises that the
program is still *observed as its sequential evaluation* (ADR-0024 D1, D5, D6; contracts C-200
and C-321). That promise rests on a small amount of hand-written concurrent code: a lock-free
offer protocol over raw pointers into stack frames, a resident thread pool, a tree of output
buffers, abort paths that wait on them, and, on wasm, a crew of instances that share one memory
budget. The command line has concurrency of another kind: several `almide` processes share one
build directory and one package cache, with file locks, renames, kills and power failures between
them. This project specifies both in TLA+, checks them with TLC, and proves the safety
properties of most of its modules with TLAPS.

All paths below are relative to the repository; line numbers are in `PROJECT.json` (`map`).

## 1. Inventory

| Component | State it keeps | Operations | Hard behaviour | What makes it correct |
|---|---|---|---|---|
| Offer gate (`runtime/rs/src/list.rs`) | a gate per offer in its caller's frame (`next`, `inside`, `counted`, `panics`), 64 slots (`gate`, `readers`), `OPEN_BLOCKS`, `RUNNING` | deal, publish, withdraw, steal, help, draw | interleaving of atomic accesses, a pointer read before it is cleared, unwinding elements, slots all taken | no use of a freed frame; each block once; complete on return; counts exact; every offer returns |
| Fan pool (same file) | `polling`, `started`, `spawning`, `parked` per hand | hand loop, wake, spawn | a hand going to sleep while a caller wakes hands; spawn failures | counts exact; the wake-up is not lost |
| Nested offers (same file, `prelude_fan.rs`) | a stack of takes per thread, `IN_GATE`, `SINK`, gate parents | an offer made inside a block, a waiting caller that steals, the trap wait | waiting on top of another frame; thread-locals to put back | parents outlive children; locals follow the block; nobody waits in a circle |
| Output timelines and aborts (`crates/almide-codegen/src/prelude_fan.rs`, `lib.rs`) | per fan: `head`, `done`, `trapped`, `bufs`; per thread: a stdout buffer; `ALMIDE_ABORTING` | write and route, enter, finish and drain, trap wait, abort | locks let go between levels, writers racing the head, several traps | output and ending are the sequential ones; the program ends |
| Parallel search (`list.rs`) | the hit flag, the blocks | any, all | a Relaxed flag; blocks cut short | the answer is right |
| Cost model and site table (`list.rs`) | an open-addressed table of 256 sites | plan, record, probe | CAS races, table full | estimates stay with their sites and are found; counts and probes used once |
| `fan { }` arm threads (`prelude_fan.rs`, `walker/expressions_fan.rs`) | the live-arm count, a cell and a handle per arm | spawn or run inline, join, leave at an `Err`, give the slot back | the bound under concurrent adds, refused threads, unwinding bodies, arms left unjoined, nesting deeper than the bound | count exact; bound kept; each arm once; no wait for a slot |
| Wasm host fan and budget (`crates/almide-wasm-run`) | crew of hands and their channels, pool of instances, the deal, memory budget, watchdog flag and epoch | run_all, dispatch, drain, grow, undo, tick | failed and endless chunks, refused threads and memory, the watchdog racing a worker, the last holder of the deal | all results or none; never over the cap and nothing leaked; every offer ends |
| Build directory (`src/cli/run.rs`, `build_dir.rs`, `cache_bound.rs`, `cargo_build.rs`, `cargo_ice.rs`, `wasm_run_cache.rs`, `clean.rs`) | generated source, compiler output, binaries and digests by key, staged files, the lockfile, mtimes | look up, lock, build, publish, sweep, clean, execute | hits without the lock, removal under a reader, kills that leave a compiler running, power failures, a foreign writer | the program asked for is the one that runs; failures have a cause; no hang |
| Package cache (`src/project_fetch.rs`, `src/project.rs`) | a directory per commit, one per ref, entry locks, `.head` record, `almide.lock`, the memo of remote heads | resolve, clone, fall back, save, update | several threads and processes, a branch that moves, a remote that fails, kills | a directory holds its commit; one clone; a pin is what is built, and is never a guess |
| HTTP server (`runtime/rs/src/http.rs`) | workers, containment flag, request hooks | serve, handle, shut down | aborting handlers, slow clients | one request's abort costs one response |
| Processes, sockets (`process.rs`, `net.rs`) | handle tables | spawn, wait, read, close | pipes filling, handles of aborted requests | no handle leaks or is used after close |
| CLI worker pool | a cursor over a fixed list of jobs | run jobs | panicking jobs | each job once |
| Parser, checker, IR, optimizer, code generators, evaluators, verifiers (`crates/*`) | trees | pure passes | none of the kinds above | the repository's own tests, verifier and Lean belts |

How the parts of the fan runtime interact. `almide_rt_list_par_*` cut a list into blocks, make an
output group (`almide_fan_group`) and call `almide_fan_deal`, which publishes a gate, wakes pool
hands, and takes blocks itself. Hands, and callers that wait, find gates in the slots
(`almide_fan_steal`) and run the same taking loop (`almide_fan_help`). For each block a thread
enters the block's timeline (`almide_fan_enter`); what it prints is routed by the timeline tree,
and a trap on it goes through `almide_fan_trap_wait` before the process exits. In an http handler
an abort is instead a contained unwind, which the gate carries to the caller as a panic.

An arm of a `fan { }` block has a thread of its own or runs on the thread that reached it; either way it
may make offers, so `FanGate`'s callers are arms or blocks. On wasm the same list operations stop in a
host call: the host's crew computes chunks in worker instances and the guest goes on with all of the
results, or is told to run the loop itself.

`almide run` looks for its binary in the build directory without a lock, builds under the
directory's lock when there is none, and executes by name; the wasm leg keeps its compiled modules in
the same directory. Resolution of dependencies comes before it and ends with a directory of the
package cache for each dependency and, perhaps, a new `almide.lock`. `almide clean` removes both.

The hazards, each at its line and with the properties aimed at it, are in `PROJECT.json`.

## 2. Modules and how they correspond to the code

| Module | Models | Composes or refines |
|---|---|---|
| `FanOffer` | what a parallel list operation promises its caller (abstract) | |
| `FanGate` | the offer protocol, one action per atomic access | implements `FanOffer` (`Offer == INSTANCE FanOffer WITH ...`) |
| `FanGateProofs` | theorems about `FanGate`; the other `*Proofs` modules likewise extend what they are about: `FanRuntimeProofs` the pool and the search of the runtime library, `PreludeFanProofs` the arms and the timelines of the emitted prelude | extends `FanGate` |
| `FanPool`, `FanRuntimeProofs` | the hand loop and the waker | uses an offer as a flag: open or not |
| `FanNest`, `MCFanNest`, `FanNestProofs` | offers inside offers: threads as stacks of takes, thread-locals, the trap wait on those stacks | composes offers, groups and threads |
| `FanSequential` | the sequential evaluation of a program of nested fans, as seen from outside (abstract) | |
| `FanTimeline`, `MCFanTimeline`, `PreludeFanProofs` | the timeline tree, per-thread stdout buffers, locks, aborts | implements `FanSequential` (`LooksSequential`) |
| `FanSearch`, `FanRuntimeProofs` | `any`/`all` over the blocks of one offer | |
| `FanClock`, `MCFanClock`, `FanClockProofs` | the cost model: site table, plan, skip counts, probes | an offer's run is one step that yields a measurement |
| `FanArms`, `MCFanArms`, `PreludeFanProofs` | arm threads of nested `fan { }` blocks and their bound | composes blocks, arms and threads in a tree |
| `HostFan`, `HostFanProofs` | the wasm host's offers: crew, deal, worker instances, memory budget, watchdog | composes guest, crew, budget and ticker |
| `BuildCache`, `BuildCacheProofs` | the shared build directory and the processes that use it | composes lookups, builds, sweeps and `clean` |
| `PackageCache`, `PackageCacheProofs` | the package cache and `almide.lock`, for one dependency | composes resolutions, `update` and (in `CleanSpec`) `clean` |

**FanGate.** `cpc[c]` is where caller `c` is in `almide_fan_deal`; `hpc[t]`, `cur[t]`, `on[t]`,
`blk[t]` are where thread `t` is in `almide_fan_steal`, in the taking loop or in
`almide_fan_help`. A caller is both: while it takes its own blocks it is a taker of its own gate,
and while it waits it may help others. A caller names its gate, since it has one offer at a time at this
level; `cpc[c] = "idle"` means the frame with that gate is gone. Every atomic read-modify-write is
one action. The Relaxed null check of the scan may give an old answer, so `Skip` is always
possible; the load that matters (`Load`) is a step apart from the check and from the entry.
`SameRoot` selects the two ways callers meet: inside blocks of one outer offer (then a waiting
caller may help the others, and is counted as running already) or as arms of their own (then it
never does). `MaxUnwinds` bounds the elements that unwind: a contained abort or a test build. Elsewhere an
abort ends the process and is in `FanTimeline` and `FanNest`. The `parking` flag and the timed park
of the waiting caller are stuttering: the park ends by itself after 1 ms. The handle clone before
the last decrement is kept as a step (`CloneCaller`) because it reads the gate.

**FanPool.** The three places a hand can be counted or seen (`polling`, `parked`, the park token)
and the order they are written in are kept; an offer is one flag, open until a taker draws past
its last block. `PollMayMiss` lets a poll answer no although an offer is open (no core free, blocks
all drawn by now, an old Relaxed read). `std::thread::park` is external: a token, and a return for
no reason (`Spurious`).

**FanNest.** A thread is a stack of takes. A take remembers what it must put back: the previous
gate (`Restore`), the previous sink (`AlmideFanElem.1`), and the sink of the wait it was started
from (`almide_fan_current` / `almide_fan_adopt` around `almide_fan_help`). Entering and leaving a
gate are single steps here; that they are safe is FanGate's result.

**FanTimeline.** Every element has a thread; `script` is the program, chosen in `TInit` from a set
of scripts per element, so all combinations are explored. Writing routes one level per step,
because `almide_out_route` drops a fan's lock before it takes the next; draining keeps the lock of
the drained fan over all of its steps, as the code does. `obuf` is the thread's `LineWriter`: a
"part" (no newline) stays there until a flush, a "line" flushes, stderr is written at once.
Adjacent segments of one buffer, which the code merges, are kept apart; the once-flags of `panic`
and of the other aborts are one flag (`OneTrapOut` shows that no two threads ever meet at them).
Names such as `TSpec`, `SSpec`, `RootFan` and `ElemStep` keep the module apart from `FanArms` and from
its abstract specification, so that one module can extend them all; `FanSearch` has `SearchSpec` for the same reason.

**FanSearch.** A fixed set of threads draws blocks in order; the trap wait is the one-level case.
`verdict` is the callback, chosen in `SearchInit` over all combinations.

**FanClock.** `key`, `t`, `skip` are the fields of `ALMIDE_FAN_SITES`; `loc[p]` holds the locals of
one call of `AlmideFanClock::offer` and of the `record` that follows it. The hash is a function
`home` chosen in `Init`, so every collision pattern is explored. `Plan` is the loop of
`almide_rt_fan_plan` over the worker counts, on small numbers for the two constants. The clock is
a choice: a measured offer took any of `Times` per element, with or without warm elements as the
block size allows. The history variables say who stored an estimate (`from`), what a record put in
`skip` and who used it (`put`, `passed`), whether a lookup should have found something (`known`),
and how often in a row a site was measured above the crossover (`up`).

**FanArms.** The program is a tree: `Block[n]` is the sequence of arms of the block that `n` runs. An
arm is counted (`Reach`), then over the bound (`GiveBack`: it runs on its block's thread), or granted
a thread (`Spawn`, at most `MaxThreads` at once), or refused one by the OS (`RefuseSpawn`, `TakeClosure`). `fetch_add` and the
comparison are one step since the value compared is the one the add returned; the drop of the slot is
another. A body may unwind at any point of its own code (`Panic`). An arm of a Result type (`Fallible`) may
end in an `Err`; the join applies `?` to each result in turn in a block rendered as `fan_effect` (`Effect`),
which leaves at the first `Err` with the later handles untaken (`"leave"`), and `.unwrap()` in one rendered as
`fan_expr`, which unwinds. `std::thread::scope` is external: by whichever way its closure ends, it waits
for every thread started in it (`Scope`), and panics if one of those it was left to wait for did
(`ScopePanics`). `own` says which arms have threads, `cell` whether the closure is still to be called. The line-fold
workers of `fs.fold_lines_chunked` take slots of the same count through `almide_fan_spawn`; they are arms of
no block and are left out, and to the count they are arms like others.

**HostFan.** The guest is in its own code (`gpc = "run"`), where it may grow its memory or start a
child instance, or stopped in `run_all`. A job is the worker instance it carries, or `None`; an instance
is the memory its meter holds. Each hand is a thread with a channel; position 0 is the calling thread,
which runs an offer of one worker itself. `deal.refs` is the `Arc`'s count and `senders` the senders of the parts
channel: the order `drop(deal)`, send, drop of the sender is three steps. `Fault` lets a chunk trap,
abort, or never return; only the epoch's passing of the worker's deadline ends the last
(`Interrupt`). The ticker sets the flag and then the epoch in two steps, and `Arm`/`Armed` set the
deadline and read the flag in two. Poisoned mutexes are left out: nothing panics while it holds one.

**BuildCache.** Each file operation is a step. A file's bytes are a pair (program, variant), its digest
the pair itself; `Torn` is what a power failure makes of a file that was written lately, as nothing here
calls fsync. `opened` and `lockfile` are inodes, so a lockfile that is removed and made again is
another lock. `old` stands for the mtimes: a file is within `EVICT_GRACE` or it is not, `Touch` and
a write make it young, `Age` makes it old. A sweep picks its victims in one step and removes them one by
one (`Sweep`, `Evict`). `slow` and `retried` are the fallback from the rlib fast path to cargo and the
one retry after an internal compiler error. The two routes have their own source files (`Sources`: the one file
of the fast path; `src/main.rs`; and what goes with it for cargo, the module files, the runtime crate and the
manifests) and their own output. `wrote` is what `source_still_ours` compares with: the text in memory on the
fast path, and on the cargo route what `ReadBack` read from `src/main.rs` after the write. A process killed while
its compiler runs may leave it running (`orphans`), with the lock free; it writes its output at any later
time (`OrphanWrites`). rustc takes no lock on its output. A cargo that survives would hold its own lock on the
target directory; that is not assumed, so the orphans of that route are more than can be.

Two history variables: `excuse`, set when others interfere with a command, and `spoiled`, the programs of builds
that were interfered with where the code does not look (observations of section 5). `spoiled` is set by
exactly three things: a foreign write of `src/main.rs` between `Write` and `ReadBack`, one of the other cargo files
between `Write` and `Compile`, and an orphan of another program that writes over an output between its
compilation and its copy. It never holds a wasm program.

**PackageCache.** `th[t]` is a resolution: its mode (build, `--locked`, cache-only, `update`), the pin it
read, the commit it wants, the entry it works on, and what it was handed. Threads of one `almide test`
share a memo of the remote's answer; other processes have their own. A clone is one step into a
private temporary directory; the rename that publishes it is another. The branch moves at any time.
`OlderFill` is an older almide that takes no locks and leaves branches in the ref's directory, which
the code provides for. `CleanSpec` adds `almide clean`.

## 3. Runs

| Run | Instance | States | Result |
|---|---|---|---|
| `gate` | 2 callers in one tree, 1 hand, 1 slot, up to 2 blocks, 1 offer each, 1 element may unwind, fair | 245 k | `TypeOK`, `NoUseAfterFree`, `CountersExact`, `GlobalsExact`, `BlockTakenOnce`, `ReturnComplete`, `OfferSpec` (refinement of `FanOffer`), `OfferReturns` hold |
| `nest_tree` | 3 threads, 4 offers three levels deep, traps | 211 k | `ParentsLive`, `LocalsFollowBlock`, `NoWaitCycle`, `NestEnds` hold |
| `nest_trap` | 2 threads, an offer in the first block, a trap in the second | small | `TrapExits` **violated** (finding 1) |
| `timeline` | fans nested three deep, below a second and then a first element, 32 programs | 74 k | `TrapIsFirst`, `LooksSequential` (refinement of `FanSequential`), `Ends` hold |
| `pool` | 2 callers of 2 offers that ask for 1 hand, 2 hands, polls may miss, spawns may fail | 184 k | `SomeHandAwake`, `PollingExact`, `OfferHelped` hold |
| `search_answer` | 5 elements, 2 threads, all verdicts | 20 k | `AnswerRight` holds |
| `clock` | 2 callers, 3 sites in 2 entries, 4 offers, 2 times, unwinding allowed | 1.9 M | `SitesKept`, `SkipExact`, `TwoInARow` hold |
| `arms` | a block of 2 arms, each with a block of 2, at most 2 threads, refused threads, unwinding bodies, 4 arms that may end in an `Err`, 2 `fan_effect` blocks | 958 k | `CountExact`, `LiveBound`, `ArmsRunOnce`, `BlocksEnd` hold |
| `host_fan` | 3 elements, up to 2 workers, 2 offers, cap of 4 units, a watchdog | 250 k | `BudgetExact`, `AloneReachesCap`, `ServedComplete`, `DealAlone`, `OfferEnds` hold |
| `build_cache` | 2 processes, 2 native programs (one built before) and 1 wasm, 2 runs, 1 fault or clean | 504 k | `IntactIsRight`, `RightProgram`, `FailsForAReason`, `CommandsEnd` hold |
| `package_cache` | 2 threads of a test run, 1 other process, 2 commits, 2 resolutions, 1 move of the branch, 1 fault or older almide | 241 k | `KeyedRight`, `OneClone`, `PinBuilt`, `PinFresh`, `ResolutionsEnd` hold |
| `package_clean` | 1 resolution while `almide clean` runs | small | `HandedWhole` **violated** (finding 2) |

Each module has one type invariant. `FanGate`'s is checked, and proved, by itself; elsewhere it is a
conjunct of the module's first invariant (`ParentsLive`, `TrapIsFirst`, `PollingExact`, `AnswerRight`,
`SitesKept`, `CountExact`, `BudgetExact`, `IntactIsRight`, `KeyedRight`).

Why the bounds are enough.

- `gate`: one slot is shared by two offers, so a slot is refused, reused and read late; two blocks give a
  first, a last and a draw past the end to three threads, and the unwinding element may be on a caller
  or on a helper. The theorems remove these bounds for the safety properties.
- `nest_tree`: the tree has every relation two offers can have: ancestor, sibling, and a block beside
  the block one was made in. The blocks that may trap there have no offer made in a block before
  them, so they cannot meet finding 1 and the other properties are checked with traps; `nest_trap`
  shows the finding.
- `timeline`: a nested fan below an element that must first buffer and one below an element that is a
  head, partial lines, stderr, and a trap possible at every level while others wait or trap.
- `pool`: two callers wake the same two hands, one of which may not exist yet, while both are on their
  way to sleep; a second offer finds hands that have slept once.
- `clock`: more sites than entries, so a site is crowded out; the times are one below the crossover
  and one well above, so `record` asks for each of its three outcomes (a warm parallel measurement within
  2x of the crossover has the outcome of a cold one, a probe); four offers are a first
  one, an unmeasured one, a measured one and one that plans on it.
- `arms`: six arms over two threads, nested deeper than the threads reach: arms past the bound, refused
  and threaded arms occur in one block and on both levels at once. The outer block and one inner block leave at an `Err`,
  the other inner block unwraps it; the first and a later arm may have one, so arms are left unjoined
  while they run, wait for a thread or have unwound.
- `host_fan`: three elements over two workers leave a short last block, and the second offer meets
  pooled and dropped workers of the first; a cap of four is met by the guest, by a starting worker and by a
  growing one.
- `build_cache`: two programs compete for the one scratch directory, the wasm one sweeps without building,
  and one fault, or one clean, can strike at each step of a run that another run follows: an orphan of the
  first run is met by the second, on either route. (The three invariants also hold with two faults, 4.7 M states.)
- `package_cache`: two threads share a memo and race for an entry with a process that may be building,
  `--locked`, cache-only or updating; the branch moves between any two steps, and one of them fails, is
  killed, or meets the work of an older almide.

Every run switches deadlock checking off because the programs, or the bounded numbers of
commands, end. Every property has a mutant in `PROJECT.json`: a plausible mistake in one definition, kept
in the module as a variant next to it, under which TLC finds the property violated.

### Fairness

Weak fairness of each thread's own next step, in the fair specifications of the runtime: the OS runs
each runnable thread. `BuildCache` and `PackageCache` assume less, that some process or thread that can go on
does (one `WF` over all of them): the commands are bounded in number and each ends, so `CommandsEnd`
and `ResolutionsEnd` say that all are idle in the end. Making an offer, polling, giving a command, faults, the ageing of files and the
moves of a branch are not fair. In `FanTimeline` locks are taken by steps that are enabled only while
the lock is free; weak fairness is enough because the number of takers is bounded and none takes a
lock without end. In `FanPool` the end of a caller's own blocks (`EndTake`)
is not fair: an offer must get a hand even if its caller stays in its first block; a hand's `Find` is
strongly fair, since a poll that is repeated while the offer is open does not miss it each time.
`HostFan` has weak fairness of the host, of the hands and of the ticker, and none of what a chunk does
beyond its own choices: an endless chunk is a state of its own that only the watchdog ends.

`SomeHandAwake` and `OfferHelped` are about callers whose wake got what it asked for or met a hand
that was started. During the pool's start-up a caller that read `started = 0` can find the pool full
behind the `spawning` lock and return while those hands are parked again; and a hand counted as
polling whose spawn then fails can stand for nobody (the history variable `refused`). In both cases
the offer runs on its caller.

## 4. Proofs (for every value of the constants)

Each `*Proofs` module extends what it is about, states an inductive invariant for it, proves that `Init`
implies it and that every action keeps it (one step of the proof per action), and draws the properties
of section 3 from it. The invariants were checked with TLC on the runs' instances before they were
proved. The constants' assumptions are the `ASSUME`s of the modelled modules: finite sets of threads, disjoint
names, at least one slot, block, entry or core, and what the shape of a program gives (`FanArms`: the
blocks form a tree; `FanNest`: every offer but the outermost is made in a block of another;
`FanTimeline`: the fans form a tree below the outermost one, and an element runs one nested fan at most). Bounds such as
`MaxUnwinds`, `MaxFaults` or `MaxOffers` are arbitrary naturals, so none of the results depends on them.

**`FanGateProofs`** (`GateAssumption`).

- `GateInvariant`: `Spec => []GateInv`, `GateInv == TypeOK /\ RolesOK /\ SlotsOK /\ PointersOK /\ CountersExact`.
  `NoUseAfterFree` is not inductive. A helper that has read a pointer under `readers` is safe only
  because the caller is still before the end of its drain (`PointersOK`), which holds because
  `readers` counts that helper (`HoldersExact`) and the pointer in the slot is the caller's own
  (`SlotsOK`); a helper past its entry is safe because `inside` counts it (`HelpersExact`) and the
  caller does not get past its wait. `RolesOK` says who can be where. The counter parts rest on
  lemmas about the cardinality of a finite set that gains or loses one thread.
- `TypeCorrect`, `GateSafe`, `CountersCorrect`: the parts `TypeOK`, `NoUseAfterFree` and
  `CountersExact` of that.
- `BlocksInvariant`: `Spec => []BlocksOK`, on top of `GateInv`: every drawn block has run, is being
  run by exactly one thread, or is covered by a recorded unwind, and a caller whose taking is over has
  seen the last block drawn or has unwound.
- `BlocksTakenOnce`, `ReturnsComplete`: from the two invariants (a helper that still runs a block
  would be counted in `inside`, which is 0 when the caller returns).
- `OfferRefinement`: `Spec => OfferSpec`: each step is a step of `FanOffer` or leaves its variables
  alone under the mapping; `Return` maps to `Finish` by `ReturnComplete`.
- `GlobalsInvariant`, `GlobalsCorrect` (`GlobalsExact`): the process-wide counters as sums of two
  cardinalities. The open count is exact only together with *which* offers are counted (`CountedOK`: an
  offer is counted before it is dealt from, and the one thread that draws block `len` is the one that
  uncounts it); an unwinding element breaks equality but not the lower bound, so both are kept.

**`FanRuntimeProofs`, the pool** (`PoolAssumption`). `PoolInvariant` and `PollingIsExact`: the spawning lock excludes,
the hands up to `started` are there but for one about to be counted, `polling` is the cardinality of
the pollers and of that one. `WakeInvariant` and `WakeUpIsNotLost` (`SomeHandAwake`): a hand that has set
`parked` and looks for an offer once more, and a waker that publishes first and then clears `parked`,
cannot both miss each other; the invariant says what each of the two orders leaves behind.

**`FanNestProofs`** (`NestAssumption`). `NestInvariant`: the argument is about the stacks. Take `i` of a thread
stands on a caller that waits (if it is a helper's) or on the block that makes its offer (if it is the
caller's); so what it found in the thread-locals is known from the take below (`BaseGate`, `BaseSink`)
and what it will put back is right for that take. A live offer has exactly one caller on some stack
and `inside` is the number of its helpers' takes, so when a caller returns no take of its offer is
left. `ParentsAreLive`: the parent of an offer is the offer of the take under its caller. `LocalsAreTheBlocks`
is a part of the invariant. `WaitsEnd`: the offers can be numbered in the order they were made, and
a caller's take is of a later offer than every take under it (`OrderInv`; a helper's take need not
be). So of threads that all wait, the one whose offer has the greatest number waits for none of the others: a
helper of that offer that waits has a later one on top. This is `NoWaitCycle` for threads that have not
trapped; with traps the property is false for some trees (finding 1) and stays with TLC on the tree
of `nest_tree`.

**`FanRuntimeProofs`, the search** (`SearchAssumption`). `SearchInvariant`: besides types, that an element which decides the
search and lies in a block already drawn is still before some thread unless the flag is up (`CoverOK`).
The flag may be read stale at every look. `SearchAnswersRight` (`AnswerRight`) follows because a
caller that answers has seen all threads out and the last block drawn.

**`FanClockProofs`** (`ClockAssumption`). `SitesInvariant`, `SitesAreKept`: a claimed entry is reached from its
site's home over entries of other sites only, keys never change once set, and a searching caller has
passed only other sites' keys. `SkipIsExact`: what a record puts in a `skip` word is what is left of it plus
what was passed. `TurnInvariant`, `SwitchTakesTwo` (`TwoInARow`), for a site with one user.
`PlanIsBest`: the loop of `almide_rt_fan_plan` answers the smallest of the best worker counts. Its
recursive function is reasoned about without an induction scheme: a set of naturals that is not empty
has a least element (`NatLessThanWellFounded`, `WFMin`), applied to the set of places where the claim
fails.

**`PreludeFanProofs`, the arms** (`ArmsAssumption`). `ArmsInvariant`: the count is the cardinality of the arms between their
add and their give-back, and at most `MaxThreads` of them were granted, since a grant saw the count below
`MaxThreads` and the count covers the granted (`GrantedOK`). `CountIsExact`, `LiveIsBounded`. `EachArmOnce`
needs what is true of a block at each place it can be left from (`BlocksOK`): the arms before `taken` are
done (`Taken`); at a `"leave"` the next one has an `Err` (`Leaving`); and past the scope every arm with a
thread is over, and has not unwound if the block returned (`Left`), which is where the scope's wait is used.

**`PreludeFanProofs`, the timelines** (`TreeAssumption`, `NestingAssumption`, `ScriptAssumption`), for every tree of fans and
every script.

- `TimelineInvariant`: `TSpec => []TimelineInv`. `TrapIsFirst` is not inductive: a level that a wait has passed is
  never looked at again, so what was seen there must stay true. It does because the head is past
  finished elements only, and whoever is marked done but not past its drain has the fan's lock
  (`DrainOK`), so a waiter that finds the lock free and the head at its sink knows that all before it are done; because
  a finished element does nothing more; and because a trap is marked at a sink whose thread is
  the trapped one or joins a fan (`AroundJoins`, from `NestOK` and `WaitOK`), never a finished
  one, so no mark can appear before a sink that was passed (`FirstStays`).
- `OneTrapGetsOut` (`OneTrapOut`): suppose two traps are past the outermost fan. Every sink around either is first in
  its fan and not done, and two such sinks of one fan are the same (`OneFirst`); going down from the
  outermost fan, the two have the same sinks around them, so each is around the other, but a
  trapped thread joins nothing. The sinks around an element are the least set that is closed outwards (`Outwards`),
  which takes the place of an induction over the depth.
- `TrapStaysFirst`: `TrapIsFirst`, from the two.

**`HostFanProofs`** (`HostFanAssumption`), for every number of elements and workers, every cap and reset size, with
and without a watchdog.

- `HostInvariant`: where the jobs of an offer are. The senders of the parts channel and the handles of the deal are
  the jobs `run_all` has not sent off (`Pending`) plus the cardinality of the hands that have one
  (`Sending`, `Holding`; a hand gives up the deal before it sends its part, and its sender after). `DealIsAlone`
  (`DealAlone`): parts are collected until no sender is left, so then no hand has the deal.
- `BudgetInvariant`, `BudgetIsExact`, `AloneAtCap`: `used` is the sum over all stores, pooled, taken, refused, in
  channels, on threads and in parts. A sum is the number of units of memory held (`Total`, the cardinality
  of a set of pairs), so that what an appended, popped or changed entry does to it follows from
  theorems about finite sets, with no induction over the sequence; the workers that `run_all` puts back
  are a subsequence, for which the ones dropped are counted apart. `AloneReachesCap` needs that nobody but the
  guest and the pool has memory while the guest runs.
- `ServedIsComplete` (`ServedComplete`): unless the deal has failed, every claimed element is in a part, with a thread, or
  in the block a thread is calling (`CoverOK`), and who is at its end has seen the last element claimed (`EndOK`).

**`BuildCacheProofs`** (`CacheAssumption`). `BuildInvariant` in three layers: `LockInv` (who holds which inode of
the lockfile; `LockExcludes`), `RightInv`, `ReasonInv` (a command without an excuse finds its source, session and
binary as it left them). In `RightInv` what is about to be executed or installed is whole (`HandOK`), and for
a build whose program is not spoiled (`BuildOK`) what it compares with is its own program from the
write or the read-back on, so that the comparison after the compiler, though it is of one file, means that the
output is of its program, and stays so to the rename. From them `IntactFilesAreRight`,
`CommandsRunTheirProgram`, `FailuresHaveAReason`. The first two have the exception that section 5 states, and say that
there is no other.

**`PackageCacheProofs`** (`PackageAssumption`), about `Spec`, without `clean`. `PackageInvariant`: an entry named
after a commit is absent or holds it; a lock file's inode never changes, so holding it excludes; what
each place of a resolution says of the commit it wants, its clone and what it was handed. From it
`EntriesAreKeyedRight`, `CallersShareOneClone`, `PinnedIsBuilt`, `NewPinIsFresh`. `CommitEntriesAreKept` is about steps: no
step removes or rewrites the entry of a commit, so a directory stays whole after its lock is dropped.

Only model-checked:

- liveness (`OfferReturns`, `NestEnds`, `Ends`, `OfferHelped`, `BlocksEnd`, `OfferEnds`, `CommandsEnd`,
  `ResolutionsEnd`): it needs fairness and ENABLED, which this prover does not handle;
- the refinement `LooksSequential` of `FanTimeline`: it compares output sequences that are flattened over
  the tree of fans and then filtered, and what such a definition computes for every program needs an
  induction over data; the part of it that says which trap ends the program is `TrapIsFirst`, which is proved;
- `NoWaitCycle` with traps, as above.

## 5. Findings

1. **A trap can hang the program** (`nest_trap`, `TrapExits`). A caller that waits for an inner
   offer's helper takes a later block of the same tree on top of the block it is in; a trap there
   waits for that block, on its own stack. Two threads are enough. Contract C-200 says the trap
   terminates the program.
2. **`almide clean` under a resolution** (`package_clean`, `HandedWhole`). `cmd_clean` removes the
   package cache in place and without the entries' locks. A directory that has lost some of its
   files still exists, and is handed out. `src/project_fetch.rs` says of its entries: "With the
   rename, `dir` exists only when it is complete", and of the lock files, which `clean` removes too:
   "The lock file is never deleted".

Observations that have no run of their own; the properties are stated so that they exclude them.

- **`source_still_ours` does not see every foreign write.** Its comment says "A changed file is a failed build:
  the caller says so and exits non-zero instead of installing it" (`src/cli/cargo_build.rs:398`). On the
  cargo route it compares `src/main.rs` with a copy that was read back from the directory after the write (lines 286,
  384, 389), so a foreign write in between is taken for its own, compiled, installed under the key of the program
  asked for, recorded as intact and executed, then and by every later hit; and the module files, the runtime
  crate and `Cargo.toml` are not compared. The fast path compares with the text in memory and has no such
  window. `IntactIsRight` and `RightProgram` exclude such builds by `spoiled`; without that exception TLC finds the
  first case in 19 states: the fast path fails, write, foreign write, read back, compile, verify, copy, install,
  record.
- **A killed build leaves its compiler running, and the lock free.** `cmd.output()` (lines 227, 340) does not end its child
  with the process, while the lock's comment says "It is crash-safe: the OS releases the lock when the
  holding process exits" (`src/cli/build_dir.rs:19`). The orphan may write the shared `almide-out` after another
  build has compiled its own program there and before it is copied; only the source is looked at in
  between. Excluded by `spoiled` as well. It makes no build fail (`FailsForAReason` has no exception for it).

- The open count leaks: an element that unwinds on the caller before all blocks are dealt leaves the
  offer in `OPEN_BLOCKS` for the rest of the process, and no hand parks again. The last part of
  `GlobalsExact` is therefore about programs in which no element unwound.
- `any`/`all` with a trapping callback can trap where the sequential search answers, or answer where it
  traps. `AnswerRight` is stated for both kinds of callback.
- A hand that is awake but not yet polling is counted twice by the waker, so an offer may get fewer
  hands than it asked for while one is parked. It completes all the same.
- `TwoInARow` holds for a site that one thread uses; with two threads it does not, because others
  plan on the new estimate while the probe runs and because a record is two stores.
- `AlmideFanClock::worker` is called once per block, so the first element of every *block* is kept apart
  as a warm-up; an offer whose blocks have one element is never measured warm, and each of its
  measured parallel offers asks for a sequential probe. This and the one before affect running time only.
- A sweep of the build directory reads all mtimes before it removes anything: a binary that a hit touches
  in between is removed though it was just used, and that run fails to execute it. `FailsForAReason`
  counts this as a reason.
- `almide.lock` has no lock: a build that read the old pin may write it back over the one `almide
  update` has just written.
- The ref's checkout may be removed by an update after it was handed to another process;
  `PinBuilt` excuses that reader.

## 6. Not modelled, and the plan

Not modelled: the HTTP server's sockets and timeouts; child processes and sockets, whose tables are each
behind one mutex; the share flip of small strings; the fan collection functions (`fan.map` and its
kin), which start and join scoped threads in list order; the CLI worker pool. Of the modelled parts:
the test workers' and the runtime libraries' build directories (the same lock over other directories),
the sweep intervals and the content of keys; a build directory's removal while the wasm leg writes to it;
a growth of a worker's memory that the host refuses after the budget let it (`memory_grow_failed`, which
gives back what the meter reserved last); tags, path dependencies, subdirectories, version selection and
the walk over the dependency graph; the encoding of requests and results of the wasm host, its cost
history (`FanClock` has the native one), and the crew's end with its run.
Parsers, checkers, optimizers, emitters and evaluators
are functions over unbounded trees, out of TLC's reach as wholes; the repository verifies them by other
means. They are most of the repository's lines, so the share of lines mapped is small.

Order of work:

1. Done: `FanGate` with `FanOffer`, `FanTimeline` with `FanSequential`, `FanNest`, `FanPool`,
   `FanSearch`, `FanClock`, `FanArms`, `HostFan`, `BuildCache`, `PackageCache`; the proofs of section 4.
2. Proofs: every safety invariant of a passing run is a theorem (`NoWaitCycle` for threads that have not trapped), and so is the refinement of `FanOffer`. Left: the trapped case
   of `FanNest` for trees like that of `nest_tree`, where no block that may trap follows one that makes
   an offer; the stdout and stderr halves of `LooksSequential`.
3. Modules left: `HttpServer` with contained aborts and shutdown, `ProcessChild`.
