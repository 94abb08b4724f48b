------------------------------ MODULE BuildCache ------------------------------
(***************************************************************************)
(* The shared build directory of `almide run` and `almide build`           *)
(* (src/cli/run.rs, build_dir.rs, cache_bound.rs, cargo_build.rs,          *)
(* cargo_ice.rs, wasm_run_cache.rs).  Separate processes use it at once:   *)
(* each looks for its program's binary without a lock, builds it under the *)
(* directory's lock when there is none, and then executes whatever sits    *)
(* under the binary's name.  Sweeps and `almide clean` remove files in     *)
(* between, processes are killed, the power fails, and something that does *)
(* not know the lock may rewrite the generated source.  A killed process   *)
(* leaves its compiler running: an orphan, with the lock free.             *)
(*                                                                         *)
(* A build takes the fast route (one rustc) and, when that does not work,  *)
(* the cargo route; each has its own source files and its own output.      *)
(*                                                                         *)
(* Each file operation is a step.  A file's bytes are a pair: the program  *)
(* they compute and a variant, as two builds of one program may differ.    *)
(* The SHA-256 of a file is the pair itself.                               *)
(***************************************************************************)
EXTENDS Integers, FiniteSets

CONSTANTS Procs,      \* `almide` processes, by pid
          Native,     \* programs run natively (the key is the generated Rust code)
          Wasm,       \* programs run on the embedded wasm leg
          Warm,       \* the programs of a run before
          Alien,      \* the program of a source no process here wrote
          None,       \* no file
          Torn,       \* bytes that are no complete file and hash to nothing recorded
          Variants,   \* what tells two builds of one program apart
          MaxRuns,    \* bound on the programs run
          MaxFaults   \* bound on cleans, kills, power failures and foreign writes

Keys == Native \cup Wasm
Contents == (Keys \cup {Alien}) \X Variants

ASSUME CacheAssumption ==
  /\ Native \cap Wasm = {} /\ Warm \subseteq Keys /\ Alien \notin Keys
  /\ None \notin Keys \cup Contents /\ Torn \notin Contents \cup {None}
  /\ Variants # {}
  /\ MaxRuns \in Nat /\ MaxFaults \in Nat

VARIABLES
  \* the directory
  src,       \* the program each source file in the scratch dir is of
  out,       \* the binary the last compilation of each route left there
  stale,     \* the incremental session is one rustc panics on
  bin,       \* almide-<key>
  dig,       \* almide-<key>.sha256
  stage,     \* almide-<key>.stage-<pid>
  lockfile,  \* the inode that .almide-build.lock names
  old,       \* files not used within EVICT_GRACE
  orphans,   \* compilers whose process was killed: their route and program
  \* a process
  pc,
  ask,       \* the program it is to run; None for `almide clean`
  opened,    \* the lockfile inode it has open
  locked,    \* it holds the lock on that inode
  want,      \* the digest it read
  slow,      \* it is past the rlib fast path, on the cargo route
  wrote,     \* what it takes for the main source it wrote
  retried,   \* build_recovering_from_ice has built once before
  victims,   \* files its sweep is to remove
  mem,       \* the program it has executed
  fate,      \* how its command ended
  excuse,    \* history: others have given it a reason to fail
  spoiled,   \* history: programs a build of which was spoiled out of its sight
  runs, faults

disk == <<src, out, stale, bin, dig, stage, lockfile, old, orphans>>
work == <<opened, locked, want, slow, wrote, retried, victims, mem>>
bounds == <<runs, faults>>
history == <<excuse, spoiled>>
vars == <<disk, pc, ask, work, fate, history, bounds>>

\* almide_gen_main.rs; src/main.rs; and what goes with it on the cargo route:
\* the module files, the runtime crate and the manifests.
Sources == {"gen", "main", "rest"}
Routes == {"fast", "cargo"}
SourcesOf(r) == IF r = "fast" THEN {"gen"} ELSE {"main", "rest"}

BinOf(k) == <<"bin", k>>
DigOf(k) == <<"dig", k>>
StageOf(p) == <<"stage", p>>
Entries == {"bin", "dig"} \X Keys
Stages == {"stage"} \X Procs
Files == Entries \cup Stages
Present == {f \in Files : CASE f[1] = "bin" -> bin[f[2]] # None
                            [] f[1] = "dig" -> dig[f[2]] # None
                            [] OTHER -> stage[f[2]] # None}

\* Some programs were built a while ago.
Init ==
  /\ src = [f \in Sources |-> None] /\ out = [r \in Routes |-> None] /\ stale = FALSE
  /\ bin \in {b \in [Keys -> Contents \cup {None}] :
               \A k \in Keys : b[k] \in (IF k \in Warm THEN {k} \X Variants ELSE {None})}
  /\ dig = bin
  /\ old = {"bin", "dig"} \X Warm
  /\ stage = [p \in Procs |-> None]
  /\ lockfile = 1
  /\ orphans = {}
  /\ pc = [p \in Procs |-> "idle"]
  /\ ask = [p \in Procs |-> None]
  /\ opened = [p \in Procs |-> 0]
  /\ locked = [p \in Procs |-> FALSE]
  /\ want = [p \in Procs |-> None]
  /\ slow = [p \in Procs |-> FALSE]
  /\ wrote = [p \in Procs |-> None]
  /\ retried = [p \in Procs |-> FALSE]
  /\ victims = [p \in Procs |-> {}]
  /\ mem = [p \in Procs |-> None]
  /\ fate = [p \in Procs |-> "none"]
  /\ excuse = [p \in Procs |-> FALSE]
  /\ spoiled = {}
  /\ runs = 0 /\ faults = 0

Fault == faults < MaxFaults /\ faults' = faults + 1
To(p, from, to) == pc[p] = from /\ pc' = [pc EXCEPT ![p] = to]
Active(p) == pc[p] # "idle"
Route(p) == IF slow[p] THEN "cargo" ELSE "fast"
Building(p) ==
  pc[p] \in {"write", "readback", "compile", "verify", "copy", "install", "record"}
-----------------------------------------------------------------------------
(* The command *)

Begin(p, k) ==
  /\ ask' = [ask EXCEPT ![p] = k]
  /\ fate' = [fate EXCEPT ![p] = "none"]
  /\ mem' = [mem EXCEPT ![p] = None]
  /\ excuse' = [excuse EXCEPT ![p] = FALSE]
  /\ UNCHANGED <<disk, opened, locked, want, slow, wrote, retried, victims, spoiled>>

\* `almide run`, with the program's key computed.
Run(p, k) ==
  /\ To(p, "idle", "want")
  /\ runs < MaxRuns /\ runs' = runs + 1
  /\ Begin(p, k)
  /\ UNCHANGED faults

\* `almide clean`.
Clean(p) ==
  /\ To(p, "idle", "open")
  /\ Fault
  /\ Begin(p, None)
  /\ UNCHANGED runs

\* The process ends; the OS closes its lockfile.
End(p, how) ==
  /\ pc' = [pc EXCEPT ![p] = "idle"]
  /\ fate' = [fate EXCEPT ![p] = how]
  /\ locked' = [locked EXCEPT ![p] = FALSE]
  /\ opened' = [opened EXCEPT ![p] = 0]
  /\ want' = [want EXCEPT ![p] = None]
  /\ slow' = [slow EXCEPT ![p] = FALSE]
  /\ wrote' = [wrote EXCEPT ![p] = None]
  /\ retried' = [retried EXCEPT ![p] = FALSE]
  /\ victims' = [victims EXCEPT ![p] = {}]
-----------------------------------------------------------------------------
(* cached_binary_intact, without the lock and again under it *)

\* Missed if a build took the lock it holds again.
MissedAgain(p) == IF ask[p] \in Wasm THEN "render" ELSE "open"

\* What a miss leads to: the lock, the build, or the render of a wasm module.
Missed(p) == IF ask[p] \in Wasm THEN "render" ELSE IF locked[p] THEN "sweep" ELSE "open"

ReadDigest(p) ==
  /\ pc[p] = "want"
  /\ want' = [want EXCEPT ![p] = dig[ask[p]]]
  /\ pc' = [pc EXCEPT ![p] = IF dig[ask[p]] = None THEN Missed(p) ELSE "got"]
  /\ UNCHANGED <<disk, ask, opened, locked, slow, wrote, retried, victims, mem, fate, history,
                 bounds>>

\* The bytes hash to the recorded digest.
Matches(p) == bin[ask[p]] \in Contents /\ bin[ask[p]] = want[p]

ReadBinary(p) ==
  /\ pc[p] = "got"
  /\ pc' = [pc EXCEPT ![p] = IF Matches(p) THEN (IF ask[p] \in Wasm THEN "reread" ELSE "touch")
                             ELSE Missed(p)]
  /\ want' = [want EXCEPT ![p] = None]
  /\ UNCHANGED <<disk, ask, opened, locked, slow, wrote, retried, victims, mem, fate, history,
                 bounds>>

\* wasm_run_cache::lookup reads the module again to decode it.
Reread(p) ==
  /\ pc[p] = "reread"
  /\ IF bin[ask[p]] \in Contents
       THEN mem' = [mem EXCEPT ![p] = bin[ask[p]]] /\ pc' = [pc EXCEPT ![p] = "touch"]
       ELSE UNCHANGED mem /\ pc' = [pc EXCEPT ![p] = "render"]
  /\ UNCHANGED <<disk, ask, opened, locked, want, slow, wrote, retried, victims, fate, history,
                 bounds>>

\* touch_used on both files; a native build gives back the lock it may hold.
\* A sweep that picked the binary while it was old is not stopped by this, and
\* may have removed it already.
Touch(p) ==
  /\ To(p, "touch", "exec")
  /\ old' = old \ {BinOf(ask[p]), DigOf(ask[p])}
  /\ excuse' = [excuse EXCEPT ![p] = \/ @ \/ bin[ask[p]] = None
                                        \/ \E q \in Procs : BinOf(ask[p]) \in victims[q]]
  /\ locked' = [locked EXCEPT ![p] = FALSE]
  /\ opened' = [opened EXCEPT ![p] = 0]
  /\ UNCHANGED <<src, out, stale, bin, dig, stage, lockfile, orphans, ask, want, slow, wrote,
                 retried, victims, mem, fate, spoiled, bounds>>

\* The process becomes the program: exec takes what is under the name by now.
\* The wasm leg runs the module it has in memory.
Exec(p) ==
  LET b == IF ask[p] \in Wasm THEN mem[p] ELSE bin[ask[p]] IN
  /\ pc[p] = "exec"
  /\ mem' = [mem EXCEPT ![p] = b]
  /\ End(p, IF b = None THEN "failed" ELSE "ran")
  /\ UNCHANGED <<disk, ask, history, bounds>>
-----------------------------------------------------------------------------
(* BuildDirLock *)

Open(p) ==
  /\ To(p, "open", "lock")
  /\ opened' = [opened EXCEPT ![p] = lockfile]
  /\ UNCHANGED <<disk, ask, locked, want, slow, wrote, retried, victims, mem, fate, history,
                 bounds>>

Free(i) == \A q \in Procs : ~(locked[q] /\ opened[q] = i)

\* lock_exclusive waits; what was looked for before is looked for again.
Lock(p) ==
  /\ To(p, "lock", IF ask[p] = None THEN "list" ELSE "want")
  /\ Free(opened[p])
  /\ locked' = [locked EXCEPT ![p] = TRUE]
  /\ UNCHANGED <<disk, ask, opened, want, slow, wrote, retried, victims, mem, fate, history,
                 bounds>>
-----------------------------------------------------------------------------
(* Removal: evict_stale_artifacts, bound_build_artifacts, clear_build_dir *)

Remove(f) ==
  /\ bin' = [k \in Keys |-> IF f = BinOf(k) THEN None ELSE bin[k]]
  /\ dig' = [k \in Keys |-> IF f = DigOf(k) THEN None ELSE dig[k]]
  /\ stage' = [p \in Procs |-> IF f = StageOf(p) THEN None ELSE stage[p]]
  /\ old' = old \ {f}

\* Evictable if the sweep took recently used files too.
EvictableAny == Present

\* By age, or oldest first until the rest fits the bound: old files only.
Evictable == Present \cap old

AfterSweep(p) == IF ask[p] \in Wasm THEN "copy" ELSE "write"

\* The sweep reads every file's mtime first ...
Sweep(p) ==
  /\ To(p, "sweep", "evict")
  /\ victims' = [victims EXCEPT ![p] = Evictable]
  /\ UNCHANGED <<disk, ask, opened, locked, want, slow, wrote, retried, mem, fate, history,
                 bounds>>

\* ... and then removes them by name, any number of them.
Evict(p) ==
  /\ pc[p] = "evict"
  /\ \E f \in victims[p] :
       /\ Remove(f)
       /\ victims' = [victims EXCEPT ![p] = @ \ {f}]
  /\ UNCHANGED <<src, out, stale, lockfile, orphans, pc, ask, opened, locked, want, slow, wrote,
                 retried, mem, fate, history, bounds>>

\* The rest fits.  The wasm leg held the lock only for its sweep.
EvictEnd(p) ==
  /\ To(p, "evict", AfterSweep(p))
  /\ victims' = [victims EXCEPT ![p] = {}]
  /\ locked' = [locked EXCEPT ![p] = @ /\ ask[p] \notin Wasm]
  /\ opened' = [opened EXCEPT ![p] = IF ask[p] \in Wasm THEN 0 ELSE @]
  /\ UNCHANGED <<disk, ask, want, slow, wrote, retried, mem, fate, history, bounds>>

\* KeepLockfile if `clean` removed the lockfile with the rest.
KeepLockfileNot == lockfile + 1

\* remove_build_dir_contents leaves the lockfile.
KeepLockfile == lockfile

\* The scratch files and the session go, and the cached files are listed.
ClearScratch(p) ==
  /\ To(p, "list", "clear")
  /\ src' = [f \in Sources |-> None] /\ out' = [r \in Routes |-> None] /\ stale' = FALSE
  /\ lockfile' = KeepLockfile
  /\ victims' = [victims EXCEPT ![p] = Present]
  /\ UNCHANGED <<bin, dig, stage, old, orphans, ask, opened, locked, want, slow, wrote, retried,
                 mem, fate, history, bounds>>

\* What `clean` removes, a run in flight may miss.
Clear(p) ==
  /\ pc[p] = "clear"
  /\ \E f \in victims[p] :
       /\ Remove(f)
       /\ victims' = [victims EXCEPT ![p] = @ \ {f}]
  /\ excuse' = [q \in Procs |-> excuse[q] \/ (q # p /\ Active(q))]
  /\ UNCHANGED <<src, out, stale, lockfile, orphans, pc, ask, opened, locked, want, slow, wrote,
                 retried, mem, fate, spoiled, bounds>>

ClearEnd(p) ==
  /\ pc[p] = "clear" /\ victims[p] = {}
  /\ End(p, "ran")
  /\ UNCHANGED <<disk, ask, mem, history, bounds>>
-----------------------------------------------------------------------------
(* The build, under the lock *)

\* The source files of the route.  try_rlib_fast_build keeps what it wrote.
Write(p) ==
  /\ To(p, "write", IF slow[p] THEN "readback" ELSE "compile")
  /\ src' = [f \in Sources |-> IF f \in SourcesOf(Route(p)) THEN ask[p] ELSE src[f]]
  /\ wrote' = [wrote EXCEPT ![p] = IF slow[p] THEN @ ELSE ask[p]]
  /\ UNCHANGED <<out, stale, bin, dig, stage, lockfile, old, orphans, ask, opened, locked, want,
                 slow, retried, victims, mem, fate, history, bounds>>

\* The cargo route reads src/main.rs back, and then removes the binary of the
\* build before.
ReadBack(p) ==
  /\ To(p, "readback", "compile")
  /\ wrote' = [wrote EXCEPT ![p] = src["main"]]
  /\ out' = [out EXCEPT !["cargo"] = None]
  /\ UNCHANGED <<src, stale, bin, dig, stage, lockfile, old, orphans, ask, opened, locked, want,
                 slow, retried, victims, mem, fate, history, bounds>>

\* What the compiler makes of the source that is there; files of two programs
\* are a program of neither.
Compilable(r) == \A f \in SourcesOf(r) : src[f] # None
Compiled(r) == IF r = "fast" THEN src["gen"]
               ELSE IF src["main"] = src["rest"] THEN src["main"] ELSE Alien

Compile(p) ==
  /\ To(p, "compile", "verify")
  /\ Compilable(Route(p))
  /\ slow[p] => ~stale
  /\ \E v \in Variants : out' = [out EXCEPT ![Route(p)] = <<Compiled(Route(p)), v>>]
  /\ UNCHANGED <<src, stale, bin, dig, stage, lockfile, old, orphans, ask, work, fate, history,
                 bounds>>

\* try_rlib_fast_build did not work: the source is written again for cargo.
FastFails(p) ==
  /\ To(p, "compile", "write")
  /\ ~slow[p]
  /\ slow' = [slow EXCEPT ![p] = TRUE]
  /\ UNCHANGED <<disk, ask, opened, locked, want, wrote, retried, victims, mem, fate, history,
                 bounds>>

\* rustc panics over the session: build_recovering_from_ice clears the session
\* store and builds once more, from the start.
Ice(p) ==
  /\ pc[p] = "compile" /\ slow[p] /\ stale
  /\ stale' = FALSE
  /\ IF ~retried[p]
       THEN /\ pc' = [pc EXCEPT ![p] = "write"]
            /\ retried' = [retried EXCEPT ![p] = TRUE]
            /\ slow' = [slow EXCEPT ![p] = FALSE]
            /\ UNCHANGED <<opened, locked, want, wrote, victims, fate>>
       ELSE End(p, "failed")
  /\ UNCHANGED <<src, out, bin, dig, stage, lockfile, old, orphans, ask, mem, history, bounds>>

\* StillOurs if what was compiled were not looked at again.
StillOursNot(p) == TRUE

\* source_still_ours: the main source file alone, against what was written, or
\* on the cargo route against what was read back.
StillOurs(p) == src[IF slow[p] THEN "main" ELSE "gen"] = wrote[p]

Verify(p) ==
  /\ pc[p] = "verify"
  /\ IF StillOurs(p)
       THEN /\ pc' = [pc EXCEPT ![p] = "copy"]
            /\ UNCHANGED <<opened, locked, want, slow, wrote, retried, victims, fate>>
       ELSE End(p, "failed")
  /\ UNCHANGED <<disk, ask, mem, history, bounds>>
-----------------------------------------------------------------------------
(* Publication, for a built binary and for a rendered module *)

Copy(p) ==
  /\ To(p, "copy", "install")
  /\ stage' = [stage EXCEPT ![p] = IF ask[p] \in Wasm THEN mem[p] ELSE out[Route(p)]]
  /\ old' = old \ {StageOf(p)}
  /\ UNCHANGED <<src, out, stale, bin, dig, lockfile, orphans, ask, work, fate, history, bounds>>

\* The staged file is renamed; its mtime goes with it.
Install(p) ==
  /\ To(p, "install", "record")
  /\ stage[p] # None
  /\ bin' = [bin EXCEPT ![ask[p]] = stage[p]]
  /\ stage' = [stage EXCEPT ![p] = None]
  /\ old' = old \ {BinOf(ask[p]), StageOf(p)}
  /\ UNCHANGED <<src, out, stale, dig, lockfile, orphans, ask, work, fate, history, bounds>>

\* `clean` took the staged file of a wasm run, which does not mind (a native
\* build holds the lock that `clean` waits for).
InstallFails(p) ==
  /\ To(p, "install", "exec")
  /\ ask[p] \in Wasm /\ stage[p] = None
  /\ UNCHANGED <<disk, ask, work, fate, history, bounds>>

\* record_binary_digest hashes what is under the name, and renames the digest
\* into place; the build is over and gives back its lock.  (With no file there
\* a wasm run has nothing to record and a native one fails, as at its exec.)
Record(p) ==
  /\ To(p, "record", "exec")
  /\ dig' = [dig EXCEPT ![ask[p]] = IF bin[ask[p]] = None THEN @ ELSE bin[ask[p]]]
  /\ old' = IF bin[ask[p]] = None THEN old ELSE old \ {DigOf(ask[p])}
  /\ locked' = [locked EXCEPT ![p] = FALSE]
  /\ opened' = [opened EXCEPT ![p] = 0]
  /\ UNCHANGED <<src, out, stale, bin, stage, lockfile, orphans, ask, want, slow, wrote, retried,
                 victims, mem, fate, history, bounds>>

\* The structural leg renders the module (the same bytes each time) and looks
\* whether it can sweep: try_acquire does not wait.
Render(p) ==
  /\ pc[p] = "render"
  /\ mem' = [mem EXCEPT ![p] = <<ask[p], CHOOSE v \in Variants : TRUE>>]
  /\ \/ /\ Free(lockfile)
        /\ opened' = [opened EXCEPT ![p] = lockfile]
        /\ locked' = [locked EXCEPT ![p] = TRUE]
        /\ pc' = [pc EXCEPT ![p] = "sweep"]
     \/ /\ ~Free(lockfile)
        /\ pc' = [pc EXCEPT ![p] = "copy"]
        /\ UNCHANGED <<opened, locked>>
  /\ UNCHANGED <<disk, ask, want, slow, wrote, retried, victims, fate, history, bounds>>
-----------------------------------------------------------------------------
(* Time and faults *)

\* A file goes unused for EVICT_GRACE.  The two minutes are longer than any
\* process takes from its touch, or from its own rename, to its exec.
InHand(p) == {BinOf(ask[p]), DigOf(ask[p]), StageOf(p)}
Age(f) ==
  /\ f \in Present \ old
  /\ \A p \in Procs : pc[p] \in {"copy", "install", "record", "exec"} => f \notin InHand(p)
  /\ old' = old \cup {f}
  /\ UNCHANGED <<src, out, stale, bin, dig, stage, lockfile, orphans, pc, ask, work, fate,
                 history, bounds>>

\* A process is killed.  The OS gives back its lock; a compilation leaves its
\* session as it stands, a copy its staged file.  A compiler that has read its
\* source goes on: nobody kills the child of cmd.output().
Kill(p) ==
  /\ Fault /\ Active(p)
  /\ End(p, "killed")
  /\ stale' \in (IF pc[p] = "compile" /\ slow[p] THEN {stale, TRUE} ELSE {stale})
  /\ stage' \in (IF pc[p] = "copy" THEN {stage, [stage EXCEPT ![p] = Torn]} ELSE {stage})
  /\ orphans' \in (IF pc[p] = "compile" /\ Compilable(Route(p))
                     THEN {orphans, orphans \cup {<<Route(p), Compiled(Route(p))>>}}
                     ELSE {orphans})
  /\ UNCHANGED <<src, out, bin, dig, lockfile, old, ask, mem, history, runs>>

\* The builds that have compiled on route r and not yet taken their binary.
Untaken(r) == {p \in Procs : pc[p] \in {"verify", "copy"} /\ ask[p] \in Native /\ Route(p) = r}

\* An orphan writes its binary, without the lock, whoever builds there by now.
\* (One element of orphans stands for any number of orphans like it.)
OrphanWrites(o) ==
  /\ \E v \in Variants : out' = [out EXCEPT ![o[1]] = <<o[2], v>>]
  /\ orphans' \in {orphans, orphans \ {o}}
  /\ spoiled' = spoiled \cup ({ask[p] : p \in Untaken(o[1])} \ {o[2]})
  /\ UNCHANGED <<src, stale, bin, dig, stage, lockfile, old, pc, ask, work, fate, excuse, bounds>>

\* The power fails: every process is gone, and recently written files are torn
\* (nothing here calls fsync).
PowerLoss ==
  /\ Fault
  /\ \E torn \in SUBSET (Present \ old) :
       /\ bin' = [k \in Keys |-> IF BinOf(k) \in torn THEN Torn ELSE bin[k]]
       /\ dig' = [k \in Keys |-> IF DigOf(k) \in torn THEN Torn ELSE dig[k]]
       /\ stage' = [p \in Procs |-> IF StageOf(p) \in torn THEN Torn ELSE stage[p]]
  /\ stale' \in {stale, stale \/ \E p \in Procs : pc[p] = "compile" /\ slow[p]}
  /\ pc' = [p \in Procs |-> "idle"]
  /\ fate' = [p \in Procs |-> IF Active(p) THEN "killed" ELSE fate[p]]
  /\ opened' = [p \in Procs |-> 0] /\ locked' = [p \in Procs |-> FALSE]
  /\ want' = [p \in Procs |-> None] /\ victims' = [p \in Procs |-> {}]
  /\ slow' = [p \in Procs |-> FALSE] /\ retried' = [p \in Procs |-> FALSE]
  /\ wrote' = [p \in Procs |-> None] /\ orphans' = {}
  /\ UNCHANGED <<src, out, lockfile, old, ask, mem, history, runs>>

\* The builds that a foreign write of file f reaches where nothing looks: on the
\* cargo route, src/main.rs before it is read back, and what goes with it until
\* it is compiled.
Unseen(f) ==
  {p \in Procs : /\ slow[p] /\ f \in SourcesOf("cargo")
                 /\ pc[p] = "readback" \/ (pc[p] = "compile" /\ f = "rest")}

\* "a process outside that protocol" rewrites a generated source file.
Intrude ==
  /\ Fault
  /\ \E f \in Sources : /\ src' = [src EXCEPT ![f] = Alien]
                        /\ spoiled' = spoiled \cup {ask[p] : p \in Unseen(f)}
  /\ excuse' = [p \in Procs |-> excuse[p] \/ Building(p)]
  /\ UNCHANGED <<out, stale, bin, dig, stage, lockfile, old, orphans, pc, ask, work, fate, runs>>
-----------------------------------------------------------------------------
Step(p) ==
  \/ ReadDigest(p) \/ ReadBinary(p) \/ Reread(p) \/ Touch(p) \/ Exec(p)
  \/ Open(p) \/ Lock(p) \/ Sweep(p) \/ Evict(p) \/ EvictEnd(p)
  \/ ClearScratch(p) \/ Clear(p) \/ ClearEnd(p)
  \/ Write(p) \/ ReadBack(p) \/ Compile(p) \/ FastFails(p) \/ Ice(p) \/ Verify(p)
  \/ Copy(p) \/ Install(p) \/ InstallFails(p) \/ Record(p) \/ Render(p)

Next ==
  \/ \E p \in Procs : Step(p) \/ Kill(p) \/ Clean(p) \/ \E k \in Keys : Run(p, k)
  \/ \E f \in Entries : Age(f)
  \/ \E o \in orphans : OrphanWrites(o)
  \/ PowerLoss \/ Intrude

Spec == Init /\ [][Next]_vars

\* While some process can go on, the OS runs one that can.  Nobody has to give
\* commands, and nothing fails or grows old by itself.
FairSpec == Spec /\ WF_vars(\E p \in Procs : Step(p))
-----------------------------------------------------------------------------
Phases == {"idle", "want", "got", "reread", "touch", "exec", "open", "lock", "sweep", "evict",
           "list", "clear", "write", "readback", "compile", "verify", "copy", "install", "record",
           "render"}

\* Every variable has its type.
TypeOK ==
  /\ src \in [Sources -> Keys \cup {Alien, None}] /\ out \in [Routes -> Contents \cup {None}]
  /\ stale \in BOOLEAN /\ orphans \subseteq Routes \X (Keys \cup {Alien})
  /\ bin \in [Keys -> Contents \cup {None, Torn}] /\ dig \in [Keys -> Contents \cup {None, Torn}]
  /\ stage \in [Procs -> Contents \cup {None, Torn}]
  /\ lockfile \in Nat /\ old \subseteq Files
  /\ pc \in [Procs -> Phases] /\ ask \in [Procs -> Keys \cup {None}]
  /\ opened \in [Procs -> Nat] /\ locked \in [Procs -> BOOLEAN]
  /\ want \in [Procs -> Contents \cup {None, Torn}]
  /\ slow \in [Procs -> BOOLEAN] /\ retried \in [Procs -> BOOLEAN]
  /\ wrote \in [Procs -> Keys \cup {Alien, None}]
  /\ victims \in [Procs -> SUBSET Files]
  /\ mem \in [Procs -> Contents \cup {None}]
  /\ fate \in [Procs -> {"none", "ran", "failed", "killed"}] /\ excuse \in [Procs -> BOOLEAN]
  /\ spoiled \subseteq Native
  /\ runs \in Nat /\ faults \in Nat

\* A cached file whose bytes hash to its digest is the program its name says,
\* after kills, power failures and foreign writes too (#4180, #4269), unless a
\* build of that program was spoiled where the code does not look: a foreign
\* write reached src/main.rs before the cargo route read it back, or a file the
\* route does not compare; or an orphan overwrote the binary before its copy.
\* With it, the types.
IntactIsRight ==
  /\ TypeOK
  /\ \A k \in Keys : bin[k] \in Contents /\ dig[k] = bin[k] => bin[k][1] = k \/ k \in spoiled

\* What a command executes is the program it was asked for, though exec opens
\* the name long after the bytes behind it were checked; with the same
\* exception.
RightProgram ==
  \A p \in Procs : fate[p] = "ran" /\ ask[p] # None =>
    mem[p] \in {ask[p]} \X Variants \/ ask[p] \in spoiled

\* A command fails only when others interfered while it ran: `clean` removed
\* files, something rewrote the source, or a sweep had picked the binary
\* before the hit touched it ("An entry used within EVICT_GRACE is never
\* evicted").  In particular nothing a killed build leaves behind, a stale
\* session, a torn file, a held lock, makes a later build fail.
FailsForAReason == \A p \in Procs : fate[p] = "failed" => excuse[p]

\* The commands come to their end though others hold the lock, are killed
\* under it or remove what they look for.  (The commands are bounded in number,
\* so once they have all been given nobody is active for ever.)
CommandsEnd == (\E p \in Procs : Active(p)) ~> (\A p \in Procs : ~Active(p))
=============================================================================
