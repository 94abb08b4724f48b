----------------------------- MODULE PackageCache -----------------------------
(***************************************************************************)
(* The package cache under ~/.almide and almide.lock, for one git          *)
(* dependency with a floating ref (src/project_fetch.rs, src/project.rs).  *)
(* Several almide processes, and the worker threads of one `almide test`,  *)
(* resolve the dependency at once, while its branch moves on the remote,   *)
(* `almide update` moves the pin, the network fails and processes die.     *)
(*                                                                         *)
(* A cache entry is a directory: one per commit, and one named after the   *)
(* ref, which an older almide left.  Its content is the commit its HEAD    *)
(* names.  A file operation, a git command and a lock are a step each.     *)
(***************************************************************************)
EXTENDS Integers, FiniteSets

CONSTANTS Test,       \* the worker threads of one `almide test` process
          Solo,       \* processes of one thread each
          Commits,    \* commits the branch may be at
          Past,       \* the commit it had when earlier commands ran
          RefDir,     \* the entry named after the ref
          None,       \* no file, no directory, no pin
          Torn,       \* a directory of which only some files are left
          MaxJobs,    \* bound on the resolutions
          MaxMoves,   \* bound on the moves of the branch
          MaxFaults   \* bound on kills, failures and older almides at work

Threads == Test \cup Solo
Procs == {Test} \cup {{p} : p \in Solo}   \* a process is the set of its threads
Entries == Commits \cup {RefDir}

ASSUME PackageAssumption ==
  /\ Test \cap Solo = {} /\ IsFiniteSet(Threads)
  /\ Past \in Commits /\ {RefDir, None, Torn} \cap Commits = {}
  /\ {"unreachable", "missing"} \cap (Commits \cup {None}) = {}
  /\ MaxJobs \in Nat /\ MaxMoves \in Nat /\ MaxFaults \in Nat

VARIABLES
  head,      \* the commit of the branch on the remote
  at,        \* the HEAD of each entry's checkout
  ino,       \* the inode that the entry's lock file names
  lastHead,  \* the .<ref>.head file
  lockFile,  \* the commit almide.lock pins
  memo,      \* remote_head_once's answer, per process
  th,        \* each thread's resolution
  \* history and bounds
  seen,      \* the heads the branch has had since the process started
  older,     \* the entries an older almide has filled
  jobs, moves, faults

cache == <<at, ino, lastHead, lockFile>>
world == <<head, seen, older, moves>>
vars == <<cache, memo, th, world, jobs, faults>>

Answers == Commits \cup {"unreachable", "missing"}
Pcs == {"idle", "read", "ask", "look", "lookref", "populate", "open", "lock", "recheck",
        "shallow", "full", "rename", "trunc", "note", "atref", "fallback", "use",
        "save", "drop", "aside", "put"}
Modes == {"build", "locked", "offline", "update"}

ProcOf(t) == IF t \in Test THEN Test ELSE {t}
Idle(P) == \A t \in P : th[t].pc = "idle"

\* A resolution that is about to read the lock.
Fresh(m) == [pc |-> "read", mode |-> m, pin |-> None, want |-> None, how |-> "locked",
             ent |-> RefDir, fd |-> 0, held |-> FALSE, got |-> None, res |-> "none"]

\* A cache, a lock and a record of earlier commands.
Init ==
  /\ head = Past
  /\ at \in {a \in [Entries -> Commits \cup {None}] :
              \A c \in Commits : a[c] = None \/ (c = Past /\ a[c] = c)}
  /\ lockFile \in {None, Past}
  /\ lastHead = at[Past]
  /\ ino = [e \in Entries |-> 1]
  /\ memo = [P \in Procs |-> None]
  /\ th = [t \in Threads |-> [Fresh("build") EXCEPT !.pc = "idle"]]
  /\ seen = [P \in Procs |-> {}]
  /\ older = {} /\ jobs = 0 /\ moves = 0 /\ faults = 0

\* Thread t, at `from`, goes on as the record `to`.
Go(t, from, to) == th[t].pc = from /\ th' = [th EXCEPT ![t] = to]
Fault == faults < MaxFaults /\ faults' = faults + 1

\* How a resolution goes on: with the directory of entry e in hand (the record
\* of a floating ref's resolution is written next; `got` tells what was in the
\* directory, of which the code asks only that it exists), or to its end.  Either way
\* the entry's lock is dropped.
Handed(w, e) == [w EXCEPT !.pc = IF w.how = "head" THEN "trunc" ELSE "use",
                          !.ent = e, !.got = at[e], !.fd = 0, !.held = FALSE]
Ended(w, res) ==
  [(IF res = "ok" THEN [w EXCEPT !.want = None, !.how = "locked", !.fd = 0, !.held = FALSE]
                  ELSE Fresh("build")) EXCEPT !.pc = "idle", !.res = res]
-----------------------------------------------------------------------------
(* fetch_all_deps, fetch_dep_in_chain and update_locked_deps *)

\* The dependency is resolved: by a new process, ...
Exec(t, m) ==
  /\ jobs < MaxJobs /\ jobs' = jobs + 1
  /\ Idle(ProcOf(t))
  /\ Go(t, "idle", Fresh(m))
  /\ memo' = [memo EXCEPT ![ProcOf(t)] = None]
  /\ seen' = [seen EXCEPT ![ProcOf(t)] = {head}]
  /\ UNCHANGED <<cache, head, older, moves, faults>>

\* ... or again, for the next file of `almide test` or another pass.
Again(t, m) ==
  /\ jobs < MaxJobs /\ jobs' = jobs + 1
  /\ seen[ProcOf(t)] # {}
  /\ Go(t, "idle", Fresh(m))
  /\ UNCHANGED <<cache, memo, world, faults>>

\* almide.lock is read once, at the start.  A pin is fetched by its commit;
\* --locked refuses to do without; cache-only mode takes the ref's entry.
ReadLock(t) ==
  LET m == th[t].mode
      w == [th[t] EXCEPT !.pin = lockFile, !.want = lockFile]
  IN /\ Go(t, "read",
           CASE m = "update"                        -> [w EXCEPT !.pc = "ask"]
             [] m # "update" /\ lockFile # None     -> [w EXCEPT !.pc = "look"]
             [] m = "build" /\ lockFile = None      -> [w EXCEPT !.pc = "ask"]
             [] m = "offline" /\ lockFile = None    -> [w EXCEPT !.pc = "atref"]
             [] m = "locked" /\ lockFile = None     -> Ended(w, "err"))
     /\ UNCHANGED <<cache, memo, world, jobs, faults>>

\* What `git ls-remote` may come back with.
Told == {head, "unreachable", "missing"}

\* `almide update`, told the head: nothing to do, or drop the ref's checkout.
\* An update that cannot learn the head fails.
UpdateTold(w, a) ==
  CASE a \notin Commits -> Ended(w, "err")
    [] a = w.pin        -> Ended(w, "ok")
    [] OTHER            -> [w EXCEPT !.pc = "drop", !.want = a]

\* A build told the head fetches that commit.  When the remote could not be
\* asked it falls back on the cache; a ref the remote does not have is an error.
BuildTold(w, a) ==
  CASE a = "missing"     -> Ended(w, "err")
    [] a = "unreachable" -> [w EXCEPT !.pc = "fallback"]
    [] OTHER             -> [w EXCEPT !.pc = "look", !.want = a, !.how = "head"]

\* remote_head_once: the first thread asks, under the memo's mutex, and its
\* answer, a failure too, is every thread's.
AskOnce(t, a) ==
  LET P == ProcOf(t)
  IN /\ th[t].mode = "build"
     /\ memo[P] = None
     /\ IF a = head THEN UNCHANGED faults ELSE Fault
     /\ memo' = [memo EXCEPT ![P] = a]
     /\ Go(t, "ask", BuildTold(th[t], a))
     /\ UNCHANGED <<cache, world, jobs>>

AskMemo(t) ==
  /\ th[t].mode = "build"
  /\ memo[ProcOf(t)] # None
  /\ Go(t, "ask", BuildTold(th[t], memo[ProcOf(t)]))
  /\ UNCHANGED <<cache, memo, world, jobs, faults>>

\* `almide update` asks for itself (remote_head).
AskUpdate(t, a) ==
  /\ th[t].mode = "update"
  /\ IF a = head THEN UNCHANGED faults ELSE Fault
  /\ Go(t, "ask", UpdateTold(th[t], a))
  /\ UNCHANGED <<cache, memo, world, jobs>>

\* fetch_dep_at_ref in cache-only mode: what is on disk, or an error.
AtRef(t) ==
  /\ Go(t, "atref", IF at[RefDir] # None THEN Handed(th[t], RefDir) ELSE Ended(th[t], "err"))
  /\ UNCHANGED <<cache, memo, world, jobs, faults>>

\* Variant: the fallback is as good as an answer.
FallbackIsAnswer(t) ==
  LET e == IF lastHead # None /\ at[lastHead] # None THEN lastHead ELSE RefDir
  IN /\ Go(t, "fallback",
           IF at[e] # None THEN Handed(th[t], e) ELSE Ended(th[t], "err"))
     /\ UNCHANGED <<cache, memo, world, jobs, faults>>

\* stale_cache_fallback: the entry of the commit the ref was last seen at, else
\* the ref's own; what it holds is not to be locked.
Fallback(t) ==
  LET e == IF lastHead # None /\ at[lastHead] # None THEN lastHead ELSE RefDir
  IN /\ Go(t, "fallback",
           IF at[e] # None THEN Handed([th[t] EXCEPT !.how = "fallback"], e)
                           ELSE Ended(th[t], "err"))
     /\ UNCHANGED <<cache, memo, world, jobs, faults>>
-----------------------------------------------------------------------------
(* fetch_dep_at_commit *)

Look(t) ==
  LET w == th[t]
  IN /\ Go(t, "look", IF at[w.want] # None THEN Handed(w, w.want)
                                           ELSE [w EXCEPT !.pc = "lookref"])
     /\ UNCHANGED <<cache, memo, world, jobs, faults>>

\* Variant: any checkout of the ref will do.
LookRefAny(t) ==
  LET w == th[t]
  IN /\ Go(t, "lookref", IF at[RefDir] # None THEN Handed(w, RefDir)
                                              ELSE [w EXCEPT !.pc = "populate", !.ent = w.want])
     /\ UNCHANGED <<cache, memo, world, jobs, faults>>

\* The ref's checkout will do when it sits at exactly the commit.
LookRef(t) ==
  LET w == th[t]
  IN /\ Go(t, "lookref", IF at[RefDir] = w.want THEN Handed(w, RefDir)
                                                ELSE [w EXCEPT !.pc = "populate", !.ent = w.want])
     /\ UNCHANGED <<cache, memo, world, jobs, faults>>

\* populate_cache_dir: look again; cache-only mode clones nothing.
Populate(t) ==
  LET w == th[t]
  IN /\ Go(t, "populate", IF at[w.ent] # None THEN Handed(w, w.ent)
                          ELSE IF w.mode = "offline" THEN Ended(w, "err")
                          ELSE [w EXCEPT !.pc = "open"])
     /\ UNCHANGED <<cache, memo, world, jobs, faults>>

\* CacheEntryLock::acquire: open the lock file ...
Open(t) ==
  /\ Go(t, "open", [th[t] EXCEPT !.pc = "lock", !.fd = ino[th[t].ent]])
  /\ UNCHANGED <<cache, memo, world, jobs, faults>>

\* ... and wait for its lock.
Lock(t) ==
  LET w == th[t]
  IN /\ \A u \in Threads \ {t} : ~(th[u].held /\ th[u].ent = w.ent /\ th[u].fd = w.fd)
     /\ Go(t, "lock", [w EXCEPT !.held = TRUE,
                                !.pc = IF w.mode = "update" THEN "aside" ELSE "recheck"])
     /\ UNCHANGED <<cache, memo, world, jobs, faults>>

\* Variant: the entry is not looked for again under the lock.
RecheckNot(t) ==
  LET w == th[t]
  IN /\ Go(t, "recheck", [w EXCEPT !.pc = IF w.how = "head" THEN "shallow" ELSE "full"])
     /\ UNCHANGED <<cache, memo, world, jobs, faults>>

\* Another caller may have cloned it during the wait.
Recheck(t) ==
  LET w == th[t]
  IN /\ Go(t, "recheck",
           IF at[w.ent] # None THEN Handed(w, w.ent)
           ELSE [w EXCEPT !.pc = IF w.how = "head" THEN "shallow" ELSE "full"])
     /\ UNCHANGED <<cache, memo, world, jobs, faults>>

\* Variant: what the shallow clone got is kept.
ShallowKept(t) ==
  LET w == th[t]
  IN /\ Go(t, "shallow", [w EXCEPT !.pc = "rename", !.got = head])
     /\ UNCHANGED <<cache, memo, world, jobs, faults>>

\* The depth-1 clone of the branch is kept when its HEAD is the commit.
Shallow(t) ==
  LET w == th[t]
  IN /\ Go(t, "shallow", IF head = w.want THEN [w EXCEPT !.pc = "rename", !.got = head]
                                          ELSE [w EXCEPT !.pc = "full"])
     /\ UNCHANGED <<cache, memo, world, jobs, faults>>

ShallowFails(t) ==
  /\ Fault
  /\ Go(t, "shallow", [th[t] EXCEPT !.pc = "full"])
  /\ UNCHANGED <<cache, memo, world, jobs>>

\* The whole history, and the commit checked out.
Full(t) ==
  LET w == th[t]
  IN /\ Go(t, "full", [w EXCEPT !.pc = "rename", !.got = w.want])
     /\ UNCHANGED <<cache, memo, world, jobs, faults>>

\* A clone that failed is an error unless the entry is there after all.
FullFails(t) ==
  LET w == th[t]
  IN /\ Fault
     /\ Go(t, "full", IF at[w.ent] # None THEN Handed(w, w.ent) ELSE Ended(w, "err"))
     /\ UNCHANGED <<cache, memo, world, jobs>>

\* The clone is renamed into place; an entry that is there already stays.
Rename(t) ==
  LET w == th[t]
  IN /\ Go(t, "rename", Handed(w, w.ent))
     /\ at' = [at EXCEPT ![w.ent] = IF @ = None THEN w.got ELSE @]
     /\ UNCHANGED <<ino, lastHead, lockFile, memo, world, jobs, faults>>

\* The record of the resolution, written in place: emptied, then filled.
TruncHead(t) ==
  /\ Go(t, "trunc", [th[t] EXCEPT !.pc = "note"])
  /\ lastHead' = None
  /\ UNCHANGED <<at, ino, lockFile, memo, world, jobs, faults>>

NoteHead(t) ==
  /\ Go(t, "note", [th[t] EXCEPT !.pc = "use"])
  /\ lastHead' = th[t].want
  /\ UNCHANGED <<at, ino, lockFile, memo, world, jobs, faults>>
-----------------------------------------------------------------------------
(* What comes of it *)

\* The commit of the checkout is read (git_head_hash; none if the directory
\* is gone).  A build writes it to the lock, unless it is a fallback; --locked
\* compares; cache-only mode leaves the lock alone.
Use(t) ==
  LET w == [th[t] EXCEPT !.got = at[th[t].ent]]
  IN /\ Go(t, "use",
           CASE w.mode = "build" /\ w.how # "fallback" /\ w.got # None -> [w EXCEPT !.pc = "save"]
             [] w.mode = "locked" /\ w.got \notin {None, w.pin}        -> Ended(w, "err")
             [] OTHER                                                  -> Ended(w, "ok"))
     /\ UNCHANGED <<cache, memo, world, jobs, faults>>

\* update_lock_file: an equal lock is not rewritten, another is replaced by a
\* rename.
Save(t) ==
  /\ Go(t, "save", Ended(th[t], "ok"))
  /\ lockFile' = th[t].got
  /\ UNCHANGED <<at, ino, lastHead, memo, world, jobs, faults>>

\* update: remove_cache_dir of the ref's entry, when it is there ...
Drop(t) ==
  /\ Go(t, "drop", IF at[RefDir] = None THEN [th[t] EXCEPT !.pc = "put"]
                                        ELSE [th[t] EXCEPT !.pc = "open", !.ent = RefDir])
  /\ UNCHANGED <<cache, memo, world, jobs, faults>>

\* ... renamed aside under its lock (it may be gone by now) ...
Aside(t) ==
  /\ Go(t, "aside", [th[t] EXCEPT !.pc = "put", !.held = FALSE, !.fd = 0])
  /\ at' = [at EXCEPT ![RefDir] = None]
  /\ UNCHANGED <<ino, lastHead, lockFile, memo, world, jobs, faults>>

\* ... and the new pin is written.
Put(t) ==
  /\ Go(t, "put", Ended(th[t], "ok"))
  /\ lockFile' = th[t].want
  /\ UNCHANGED <<at, ino, lastHead, memo, world, jobs, faults>>
-----------------------------------------------------------------------------
(* What happens around them *)

\* Variant: a killed process leaves its locks behind.
KillLocked(P) ==
  /\ Fault /\ ~Idle(P)
  /\ th' = [t \in Threads |-> IF t \in P /\ th[t].pc # "idle"
                                THEN [Ended(th[t], "killed") EXCEPT !.held = th[t].held, !.fd = th[t].fd]
                                ELSE th[t]]
  /\ memo' = [memo EXCEPT ![P] = None]
  /\ seen' = [seen EXCEPT ![P] = {}]
  /\ UNCHANGED <<cache, head, older, moves, jobs>>

\* A process is killed: the OS drops its locks, its half clone is left in a
\* directory nobody else names.
Kill(P) ==
  /\ Fault /\ ~Idle(P)
  /\ th' = [t \in Threads |-> IF t \in P /\ th[t].pc # "idle"
                                THEN Ended(th[t], "killed") ELSE th[t]]
  /\ memo' = [memo EXCEPT ![P] = None]
  /\ seen' = [seen EXCEPT ![P] = {}]
  /\ UNCHANGED <<cache, head, older, moves, jobs>>

\* The branch moves on its remote.
MoveHead(c) ==
  /\ c # head /\ moves < MaxMoves
  /\ head' = c /\ moves' = moves + 1
  /\ seen' = [P \in Procs |-> IF seen[P] = {} THEN {} ELSE seen[P] \cup {c}]
  /\ UNCHANGED <<cache, memo, th, older, jobs, faults>>

\* An older almide, which takes no lock and keeps branches in the ref's entry,
\* renames a clone into place.
OlderFill(e) ==
  /\ Fault /\ at[e] = None
  /\ at' = [at EXCEPT ![e] = IF e = RefDir THEN head ELSE e]
  /\ older' = older \cup {e}
  /\ UNCHANGED <<ino, lastHead, lockFile, memo, th, head, seen, moves, jobs>>

ThreadStep(t) ==
  \/ ReadLock(t) \/ AskMemo(t) \/ (\E a \in Told : AskOnce(t, a) \/ AskUpdate(t, a))
  \/ AtRef(t) \/ Fallback(t) \/ Look(t) \/ LookRef(t) \/ Populate(t)
  \/ Open(t) \/ Lock(t) \/ Recheck(t)
  \/ Shallow(t) \/ ShallowFails(t) \/ Full(t) \/ FullFails(t) \/ Rename(t)
  \/ TruncHead(t) \/ NoteHead(t)
  \/ Use(t) \/ Save(t) \/ Drop(t) \/ Aside(t) \/ Put(t)

Next ==
  \/ \E t \in Test : Exec(t, "build") \/ Again(t, "build")
  \/ \E t \in Solo, m \in Modes : Exec(t, m) \/ Again(t, m)
  \/ \E t \in Threads : ThreadStep(t)
  \/ \E P \in Procs : Kill(P)
  \/ \E c \in Commits : MoveHead(c)
  \/ \E e \in Entries : OlderFill(e)

Spec == Init /\ [][Next]_vars

\* While some thread can go on, the OS runs one that can.
FairSpec == Spec /\ WF_vars(\E t \in Threads : ThreadStep(t))
-----------------------------------------------------------------------------
(* `almide clean` *)

\* remove_dir_all over the whole cache, with no entry's lock: an entry loses
\* its files one by one ...
CleanFiles(e) ==
  /\ Fault /\ at[e] \in Commits
  /\ at' = [at EXCEPT ![e] = Torn]
  /\ UNCHANGED <<ino, lastHead, lockFile, memo, th, world, jobs>>

\* ... then its directory, and the lock files and the record go too.
CleanDir(e) ==
  /\ at[e] = Torn
  /\ at' = [at EXCEPT ![e] = None]
  /\ ino' = [ino EXCEPT ![e] = @ + 1]
  /\ lastHead' = None
  /\ UNCHANGED <<lockFile, memo, th, world, jobs, faults>>

CleanSpec == Init /\ [][Next \/ \E e \in Entries : CleanFiles(e) \/ CleanDir(e)]_vars
-----------------------------------------------------------------------------
(* Properties *)

\* Every variable has its type; without `almide clean` nothing is torn.
TypeOK ==
  /\ head \in Commits
  /\ at \in [Entries -> Commits \cup {None}]
  /\ ino \in [Entries -> Nat]
  /\ lastHead \in Commits \cup {None}
  /\ lockFile \in Commits \cup {None}
  /\ memo \in [Procs -> Answers \cup {None}]
  /\ \A t \in Threads :
       /\ th[t].pc \in Pcs /\ th[t].mode \in Modes
       /\ {th[t].pin, th[t].want, th[t].got} \subseteq Commits \cup {None}
       /\ th[t].how \in {"locked", "head", "fallback"} /\ th[t].ent \in Entries
       /\ th[t].res \in {"none", "ok", "err", "killed"}
  /\ seen \in [Procs -> SUBSET Commits] /\ older \subseteq Entries

\* The directory named after a commit holds that commit, whatever the branch
\* did while it was cloned: populate_cache_dir's rename and the HEAD check of
\* fetch_dep_at_commit.  (Every later build trusts the name alone.)  With it, the types.
KeyedRight == TypeOK /\ \A c \in Commits : at[c] \in {None, c}

Cloning(t) == th[t].pc \in {"shallow", "full", "rename"}

\* One caller clones an entry and the others reuse its checkout (#4529):
\* nobody else is cloning it, nor is it there already, unless an older almide
\* filled it without the lock.
OneClone ==
  \A t \in Threads : Cloning(t) =>
    /\ \A u \in Threads \ {t} : Cloning(u) => th[u].ent # th[t].ent
    /\ at[th[t].ent] = None \/ th[t].ent \in older

\* A resolution that read a pin and succeeded is at the pinned commit, unless
\* the directory it was handed is the ref's and an update took it away since
\* (an older almide may then have put another in its place).
PinBuilt ==
  \A t \in Threads : th[t].res = "ok" /\ th[t].mode # "update" /\ th[t].pin # None =>
    \/ th[t].got = th[t].pin
    \/ th[t].ent = RefDir /\ (th[t].got = None \/ RefDir \in older)

\* A build that found no pin writes only a commit the branch had on its remote
\* while its process was running: never the cache's idea of it (#4527).
PinFresh ==
  \A t \in Threads : th[t].pc = "save" /\ th[t].pin = None => th[t].got \in seen[ProcOf(t)]

\* Whatever fails and whoever dies, the resolutions come to an end: "a killed
\* fetch never wedges the next" (CacheEntryLock).  (They are bounded in number,
\* so once all have been asked for no thread is busy for ever.)
ResolutionsEnd ==
  (\E t \in Threads : th[t].pc # "idle") ~> (\A t \in Threads : th[t].pc = "idle")

\* "With the rename, `dir` exists only when it is complete" (populate_cache_dir):
\* a directory that is handed out because it exists is whole.
HandedWhole == \A t \in Threads : th[t].pc \in {"trunc", "note", "use"} => th[t].got # Torn
=============================================================================
